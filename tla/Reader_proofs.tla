--------------------------- MODULE Reader_proofs ---------------------------
(***************************************************************************)
(* Proofs about the reader, for any documents and any way to cut them into *)
(* chunks: the events come in document order, no node in use is freed, and *)
(* what is left behind is.                                                 *)
(*                                                                         *)
(* A cursor c says where the reader is: at the c-th token, which is that   *)
(* of its node or the end of the element.  Up to c all events have been    *)
(* reported.  After c all nodes the parser delivered are in the tree, so   *)
(* the first of them below or after the node is where the reader goes      *)
(* next.  Before c what is in the tree is preserved, or around the reader, *)
(* unless preserves counts something.  When the input is cut just after c, *)
(* the reader stays until it knows what comes next.                        *)
(***************************************************************************)
EXTENDS Reader, Induction, FiniteSetTheorems, SequenceTheorems, TLAPS

-----------------------------------------------------------------------------
(* The stack of open elements.                                             *)
StackStep(k, s, i) ==
  IF k = "start" THEN Append(s, i)
  ELSE IF k = "end" THEN SubSeq(s, 1, Len(s) - 1)
  ELSE s

IsOpenRun(f, d, n) ==
  f = [i \in 0..n |->
         IF i = 0 THEN <<>>
         ELSE CASE d[i] = "start" -> Append(f[i - 1], i)
                [] d[i] = "end" -> SubSeq(f[i - 1], 1, Len(f[i - 1]) - 1)
                [] OTHER -> f[i - 1]]

LEMMA StackStepTyped ==
  ASSUME NEW k, NEW s \in Seq(Nat), NEW i \in Nat
  PROVE  StackStep(k, s, i) \in Seq(Nat)
<1>1. Append(s, i) \in Seq(Nat)
  OBVIOUS
<1>2. SubSeq(s, 1, Len(s) - 1) \in Seq(Nat)
  <2>1. Len(s) \in Nat
    OBVIOUS
  <2>2. CASE Len(s) = 0
    <3>1. SubSeq(s, 1, Len(s) - 1) = <<>>
      BY <2>2
    <3> QED BY <3>1
  <2>3. CASE Len(s) # 0
    <3>1. Len(s) - 1 \in 0..Len(s)
      BY <2>1, <2>3
    <3> QED BY <2>1, <2>3, <3>1
  <2> QED BY <2>2, <2>3
<1> QED BY <1>1, <1>2 DEF StackStep

LEMMA OpenRunSteps ==
  ASSUME NEW f, NEW d, NEW n \in Nat, IsOpenRun(f, d, n)
  PROVE  /\ DOMAIN f = 0..n /\ f[0] = <<>>
         /\ \A i \in 1..n : f[i] = StackStep(d[i], f[i - 1], i)
<1> DEFINE G(i) == IF i = 0 THEN <<>>
                   ELSE CASE d[i] = "start" -> Append(f[i - 1], i)
                          [] d[i] = "end" -> SubSeq(f[i - 1], 1, Len(f[i - 1]) - 1)
                          [] OTHER -> f[i - 1]
<1>1. f = [i \in 0..n |-> G(i)]
  BY Zenon DEF IsOpenRun
<1> HIDE DEF G
<1>2. DOMAIN f = 0..n /\ \A i \in 0..n : f[i] = G(i)
  BY <1>1
<1>3. G(0) = <<>>
  BY DEF G
<1>4. ASSUME NEW i \in 1..n PROVE G(i) = StackStep(d[i], f[i - 1], i)
  <2>1. i # 0
    OBVIOUS
  <2> QED BY <2>1 DEF G, StackStep
<1> QED BY <1>2, <1>3, <1>4

LEMMA OpenRunIs ==
  ASSUME NEW f, NEW d, NEW n \in Nat, f \in [0..n -> Seq(Nat)], f[0] = <<>>,
         \A i \in 1..n : f[i] = StackStep(d[i], f[i - 1], i)
  PROVE  IsOpenRun(f, d, n)
<1> DEFINE G(i) == IF i = 0 THEN <<>>
                   ELSE CASE d[i] = "start" -> Append(f[i - 1], i)
                          [] d[i] = "end" -> SubSeq(f[i - 1], 1, Len(f[i - 1]) - 1)
                          [] OTHER -> f[i - 1]
<1>1. ASSUME NEW i \in 0..n PROVE f[i] = G(i)
  <2>1. CASE i = 0
    BY <2>1
  <2>2. CASE i # 0
    <3>1. f[i] = StackStep(d[i], f[i - 1], i)
      BY <2>2
    <3> QED BY <2>2, <3>1 DEF StackStep
  <2> QED BY <2>1, <2>2
<1> HIDE DEF G
<1>2. f = [i \in 0..n |-> G(i)]
  BY <1>1
<1> QED BY <1>2, Zenon DEF IsOpenRun, G

LEMMA OpenRunTyped ==
  ASSUME NEW f, NEW d, NEW n \in Nat, IsOpenRun(f, d, n)
  PROVE  f \in [0..n -> Seq(Nat)]
<1> DEFINE P == {i \in Nat : i <= n => f[i] \in Seq(Nat)}
<1>1. DOMAIN f = 0..n /\ f[0] = <<>> /\ \A i \in 1..n : f[i] = StackStep(d[i], f[i - 1], i)
  BY OpenRunSteps
<1>2. 0 \in P
  BY <1>1
<1>3. ASSUME NEW i \in Nat, i \in P PROVE i + 1 \in P
  <2> SUFFICES ASSUME i + 1 <= n PROVE f[i + 1] \in Seq(Nat)
    OBVIOUS
  <2>1. f[i] \in Seq(Nat)
    BY <1>3
  <2>2. i + 1 \in 1..n /\ (i + 1) - 1 = i /\ i + 1 \in Nat
    OBVIOUS
  <2>3. f[i + 1] = StackStep(d[i + 1], f[i], i + 1)
    BY <1>1, <2>2
  <2> QED BY <2>1, <2>2, <2>3, StackStepTyped
<1>4. \A i \in Nat : i \in P
  <2> HIDE DEF P
  <2> QED BY <1>2, <1>3, Induct
<1>5. \A i \in 0..n : f[i] \in Seq(Nat)
  BY <1>4
<1>6. f = [i \in 0..n |-> f[i]]
  BY <1>1, Zenon DEF IsOpenRun
<1> QED BY <1>5, <1>6

LEMMA OpenRunExists ==
  ASSUME NEW d, NEW n \in Nat
  PROVE  \E f : IsOpenRun(f, d, n)
<1> DEFINE F == [x \in Nat \X Seq(Nat) |-> StackStep(d[x[1]], x[2], x[1])]
<1>1. \A i \in Nat, s \in Seq(Nat) : F[<<i, s>>] = StackStep(d[i], s, i)
  OBVIOUS
<1> HIDE DEF F
<1>2. PICK g : IsRun(g, <<>>, F, n)
  BY RunExists
<1>3. DOMAIN g = 0..n /\ g[0] = <<>> /\ \A i \in 1..n : g[i] = F[<<i, g[i - 1]>>]
  BY <1>2 DEF IsRun
<1> DEFINE P == {i \in Nat : i <= n => g[i] \in Seq(Nat)}
<1>4. 0 \in P
  <2>1. g[0] \in Seq(Nat)
    BY <1>3
  <2> QED BY <2>1
<1>5. ASSUME NEW i \in Nat, i \in P PROVE i + 1 \in P
  <2> SUFFICES ASSUME i + 1 <= n PROVE g[i + 1] \in Seq(Nat)
    OBVIOUS
  <2>1. g[i] \in Seq(Nat)
    BY <1>5
  <2>2. i + 1 \in 1..n /\ (i + 1) - 1 = i /\ i + 1 \in Nat
    OBVIOUS
  <2>3. g[i + 1] = StackStep(d[i + 1], g[i], i + 1)
    BY <1>1, <1>3, <2>1, <2>2
  <2> QED BY <2>1, <2>2, <2>3, StackStepTyped
<1>6. \A i \in Nat : i \in P
  <2> HIDE DEF P
  <2> QED BY <1>4, <1>5, Induct
<1>7. ASSUME NEW i \in 1..n PROVE g[i] = StackStep(d[i], g[i - 1], i)
  <2>1. i - 1 \in Nat /\ i - 1 <= n /\ i \in Nat
    OBVIOUS
  <2>2. g[i - 1] \in Seq(Nat)
    BY <1>6, <2>1
  <2> QED BY <1>1, <1>3, <2>1, <2>2
<1> DEFINE h == [i \in 0..n |-> g[i]]
<1>8. \A i \in 0..n : g[i] \in Seq(Nat)
  BY <1>6
<1>9. h \in [0..n -> Seq(Nat)] /\ h[0] = <<>>
  BY <1>3, <1>8
<1>10. ASSUME NEW i \in 1..n PROVE h[i] = StackStep(d[i], h[i - 1], i)
  <2>1. i \in 0..n /\ i - 1 \in 0..n
    OBVIOUS
  <2>2. h[i] = g[i] /\ h[i - 1] = g[i - 1]
    BY <2>1
  <2> HIDE DEF h
  <2> QED BY <1>7, <2>2
<1> HIDE DEF h
<1>11. IsOpenRun(h, d, n)
  BY <1>9, <1>10, OpenRunIs
<1> QED BY <1>11

LEMMA OpenRunUnique ==
  ASSUME NEW d, NEW n \in Nat, NEW m \in Nat, m <= n, NEW f, NEW g,
         IsOpenRun(f, d, n), IsOpenRun(g, d, m)
  PROVE  \A i \in 0..m : f[i] = g[i]
<1> DEFINE P == {i \in Nat : i <= m => f[i] = g[i]}
<1>1. f[0] = <<>> /\ \A i \in 1..n : f[i] = StackStep(d[i], f[i - 1], i)
  BY OpenRunSteps
<1>2. g[0] = <<>> /\ \A i \in 1..m : g[i] = StackStep(d[i], g[i - 1], i)
  BY OpenRunSteps
<1>3. 0 \in P
  BY <1>1, <1>2
<1>4. ASSUME NEW i \in Nat, i \in P PROVE i + 1 \in P
  <2> SUFFICES ASSUME i + 1 <= m PROVE f[i + 1] = g[i + 1]
    OBVIOUS
  <2>1. f[i] = g[i]
    BY <1>4
  <2>2. i + 1 \in 1..n /\ i + 1 \in 1..m /\ (i + 1) - 1 = i
    OBVIOUS
  <2> QED BY <1>1, <1>2, <2>1, <2>2
<1>5. \A i \in Nat : i \in P
  <2> HIDE DEF P
  <2> QED BY <1>3, <1>4, Induct
<1> QED BY <1>5

LEMMA OpenChosen ==
  ASSUME NEW d, NEW n \in Nat
  PROVE  \E f : IsOpenRun(f, d, n) /\ RdOpenIn(d, n) = f[n]
<1>1. RdOpenIn(d, n) = (CHOOSE f : IsOpenRun(f, d, n))[n]
  BY Zenon DEF RdOpenIn, IsOpenRun
<1>2. IsOpenRun(CHOOSE f : IsOpenRun(f, d, n), d, n)
  BY OpenRunExists, Zenon
<1> QED BY <1>1, <1>2

LEMMA OpenStep ==
  ASSUME NEW d, NEW n \in Nat
  PROVE  /\ RdOpenIn(d, 0) = <<>>
         /\ RdOpenIn(d, n) \in Seq(Nat)
         /\ RdOpenIn(d, n + 1) = StackStep(d[n + 1], RdOpenIn(d, n), n + 1)
<1>1. PICK f : IsOpenRun(f, d, n) /\ RdOpenIn(d, n) = f[n]
  BY OpenChosen
<1>2. PICK g : IsOpenRun(g, d, n + 1) /\ RdOpenIn(d, n + 1) = g[n + 1]
  <2>1. n + 1 \in Nat
    OBVIOUS
  <2> QED BY <2>1, OpenChosen
<1>3. PICK z : IsOpenRun(z, d, 0) /\ RdOpenIn(d, 0) = z[0]
  BY OpenChosen
<1>4. z[0] = <<>>
  BY <1>3, OpenRunSteps
<1>5. f[n] \in Seq(Nat)
  BY <1>1, OpenRunTyped
<1>6. g[n] = f[n]
  <2>1. n + 1 \in Nat /\ n <= n + 1 /\ n \in 0..n
    OBVIOUS
  <2> QED BY <1>1, <1>2, <2>1, OpenRunUnique
<1>7. g[n + 1] = StackStep(d[n + 1], g[n], n + 1)
  <2>1. n + 1 \in Nat /\ n + 1 \in 1..(n + 1) /\ (n + 1) - 1 = n
    OBVIOUS
  <2> QED BY <1>2, <2>1, OpenRunSteps
<1> QED BY <1>1, <1>2, <1>3, <1>4, <1>5, <1>6, <1>7

-----------------------------------------------------------------------------
(* Documents: every end closes an element.                                 *)
IsDoc(d) ==
  /\ d \in Seq(RdElements \cup {"end", "text", "misc"}) /\ d # <<>>
  /\ \A i \in 1..Len(d) : d[i] \in {"end", "text"} => RdOpenIn(d, i - 1) # <<>>
  /\ RdOpenIn(d, Len(d)) = <<>>

(* The elements open after i tokens, as a set.                             *)
Opn(d, i) == {RdOpenIn(d, i)[k] : k \in 1..Len(RdOpenIn(d, i))}

LEMMA OpenStart ==
  ASSUME NEW d, NEW n \in Nat, d[n + 1] = "start"
  PROVE  RdOpenIn(d, n + 1) = Append(RdOpenIn(d, n), n + 1)
BY OpenStep DEF StackStep

LEMMA OpenEnd ==
  ASSUME NEW d, NEW n \in Nat, d[n + 1] = "end"
  PROVE  RdOpenIn(d, n + 1) = SubSeq(RdOpenIn(d, n), 1, Len(RdOpenIn(d, n)) - 1)
BY OpenStep DEF StackStep

LEMMA OpenOther ==
  ASSUME NEW d, NEW n \in Nat, d[n + 1] \notin {"start", "end"}
  PROVE  RdOpenIn(d, n + 1) = RdOpenIn(d, n)
BY OpenStep DEF StackStep

LEMMA OpenTyped ==
  ASSUME NEW d, NEW n \in Nat
  PROVE  RdOpenIn(d, n) \in Seq(Nat) /\ Len(RdOpenIn(d, n)) \in Nat /\ RdOpenIn(d, 0) = <<>>
BY OpenStep

(* The k-th open element was opened when the first k - 1 were open.        *)
Level(d, i, k) ==
  LET s == RdOpenIn(d, i)
      x == s[k]
      r == RdOpenIn(d, x - 1)
  IN  /\ x \in 1..i /\ d[x] = "start"
      /\ Len(r) = k - 1 /\ \A j \in 1..(k - 1) : r[j] = s[j]

LEMMA LevelKept ==
  ASSUME NEW d, NEW i \in Nat, NEW k \in Nat \ {0}, Level(d, i, k),
         \A j \in 1..k : RdOpenIn(d, i + 1)[j] = RdOpenIn(d, i)[j]
  PROVE  Level(d, i + 1, k)
<1>1. PICK s, t, x : s = RdOpenIn(d, i) /\ t = RdOpenIn(d, i + 1) /\ x = s[k]
  OBVIOUS
<1>2. t[k] = x /\ \A j \in 1..(k - 1) : t[j] = s[j]
  BY <1>1
<1>3. /\ x \in 1..i /\ d[x] = "start"
      /\ Len(RdOpenIn(d, x - 1)) = k - 1 /\ \A j \in 1..(k - 1) : RdOpenIn(d, x - 1)[j] = s[j]
  BY <1>1 DEF Level
<1>4. x \in 1..(i + 1)
  BY <1>3
<1> QED BY <1>1, <1>2, <1>3, <1>4 DEF Level

LEMMA Levels ==
  ASSUME NEW d, NEW n \in Nat
  PROVE  \A k \in 1..Len(RdOpenIn(d, n)) : Level(d, n, k)
<1> DEFINE P == {i \in Nat : \A k \in 1..Len(RdOpenIn(d, i)) : Level(d, i, k)}
<1>1. 0 \in P
  <2>1. 1..Len(RdOpenIn(d, 0)) = {}
    BY OpenTyped
  <2> QED BY <2>1
<1>2. ASSUME NEW i \in Nat, i \in P PROVE i + 1 \in P
  <2> SUFFICES ASSUME NEW k \in 1..Len(RdOpenIn(d, i + 1)) PROVE Level(d, i + 1, k)
    OBVIOUS
  <2>1. PICK s \in Seq(Nat) : s = RdOpenIn(d, i) /\ Len(s) \in Nat
    BY OpenTyped
  <2>2. PICK t \in Seq(Nat) : t = RdOpenIn(d, i + 1) /\ Len(t) \in Nat
    <3>1. i + 1 \in Nat
      OBVIOUS
    <3> QED BY <3>1, OpenTyped
  <2>3. k \in Nat \ {0} /\ k \in 1..Len(t)
    BY <2>2
  <2>4. ASSUME k <= Len(s), \A j \in 1..k : t[j] = s[j] PROVE Level(d, i + 1, k)
    <3>1. Level(d, i, k)
      BY <1>2, <2>1, <2>3, <2>4
    <3>2. \A j \in 1..k : RdOpenIn(d, i + 1)[j] = RdOpenIn(d, i)[j]
      BY <2>1, <2>2, <2>4
    <3> QED BY <2>3, <3>1, <3>2, LevelKept
  <2>5. CASE d[i + 1] = "start"
    <3>1. t = Append(s, i + 1)
      BY <2>1, <2>2, <2>5, OpenStart
    <3>2. Len(t) = Len(s) + 1 /\ t[Len(s) + 1] = i + 1 /\ \A j \in 1..Len(s) : t[j] = s[j]
      BY <3>1, <2>1
    <3>3. CASE k <= Len(s)
      <4>1. \A j \in 1..k : t[j] = s[j]
        BY <3>2, <3>3
      <4> QED BY <2>4, <3>3, <4>1
    <3>4. CASE k = Len(s) + 1
      <4>1. t[k] = i + 1 /\ (i + 1) - 1 = i /\ i + 1 \in 1..(i + 1) /\ k - 1 = Len(s)
        BY <3>2, <3>4, <2>1
      <4>2. Len(RdOpenIn(d, i)) = k - 1 /\ \A j \in 1..(k - 1) : RdOpenIn(d, i)[j] = t[j]
        BY <2>1, <3>2, <4>1
      <4> QED BY <2>2, <2>5, <4>1, <4>2 DEF Level
    <3>5. k <= Len(s) \/ k = Len(s) + 1
      BY <2>1, <2>3, <3>2
    <3> QED BY <3>3, <3>4, <3>5
  <2>6. CASE d[i + 1] = "end"
    <3>1. t = SubSeq(s, 1, Len(s) - 1)
      BY <2>1, <2>2, <2>6, OpenEnd
    <3>2. k <= Len(s) - 1 /\ \A j \in 1..k : t[j] = s[j]
      <4>1. CASE Len(s) = 0
        <5>1. t = <<>>
          BY <2>1, <3>1, <4>1
        <5> QED BY <2>3, <5>1
      <4>2. CASE Len(s) > 0
        <5>1. Len(s) - 1 \in 0..Len(s)
          BY <2>1, <4>2
        <5>2. \A j \in 1..(Len(s) - 1) : s[j] \in Nat
          BY <2>1, <5>1
        <5>3. PICK q : q = Len(s) - 1
          OBVIOUS
        <5>4. q \in Int /\ (1 <= q => q - 1 + 1 = q) /\ (\A j \in 1..q : 1 + j - 1 = j /\ j \in 1..(q - 1 + 1))
              /\ q >= 0 /\ t = SubSeq(s, 1, q)
          BY <3>1, <5>1, <5>3
        <5>5. /\ Len(SubSeq(s, 1, q)) = IF 1 <= q THEN q - 1 + 1 ELSE 0
              /\ \A j \in 1..(q - 1 + 1) : SubSeq(s, 1, q)[j] = s[1 + j - 1]
          BY <5>2, <5>3, <5>4, SubSeqProperties
        <5>6. Len(t) = q /\ \A j \in 1..q : t[j] = s[j]
          BY <5>4, <5>5
        <5> QED BY <2>3, <5>3, <5>6
      <4> QED BY <2>1, <4>1, <4>2
    <3> QED BY <2>1, <2>4, <3>2
  <2>7. CASE d[i + 1] \notin {"start", "end"}
    <3>1. t = s
      BY <2>1, <2>2, <2>7, OpenOther
    <3> QED BY <2>3, <2>4, <3>1
  <2> QED BY <2>5, <2>6, <2>7
<1> HIDE DEF P
<1>3. n \in P
  BY <1>1, <1>2, Induct
<1> QED BY <1>3 DEF P

LEMMA OpensTyped ==
  ASSUME NEW d, NEW n \in Nat, NEW x \in Opn(d, n)
  PROVE  x \in 1..n /\ d[x] = "start" /\ Opn(d, x - 1) \subseteq Opn(d, n)
<1>1. PICK k \in 1..Len(RdOpenIn(d, n)) : x = RdOpenIn(d, n)[k]
  BY DEF Opn
<1>2. /\ x \in 1..n /\ d[x] = "start"
      /\ Len(RdOpenIn(d, x - 1)) = k - 1
      /\ \A j \in 1..(k - 1) : RdOpenIn(d, x - 1)[j] = RdOpenIn(d, n)[j]
  BY <1>1, Levels DEF Level
<1>3. ASSUME NEW y \in Opn(d, x - 1) PROVE y \in Opn(d, n)
  <2>1. PICK j \in 1..(k - 1) : y = RdOpenIn(d, x - 1)[j]
    BY <1>2 DEF Opn
  <2>2. j \in 1..Len(RdOpenIn(d, n)) /\ y = RdOpenIn(d, n)[j]
    <3>1. Len(RdOpenIn(d, n)) \in Nat
      BY OpenTyped
    <3> QED BY <1>2, <2>1, <3>1
  <2> QED BY <2>2 DEF Opn
<1> QED BY <1>2, <1>3

(* The innermost open element.                                             *)
LEMMA TopIs ==
  ASSUME NEW d, NEW n \in Nat, RdOpenIn(d, n) # <<>>
  PROVE  LET p == RdTop(RdOpenIn(d, n))
         IN  /\ p \in Opn(d, n) /\ p \in 1..n /\ d[p] = "start"
             /\ \A x \in Opn(d, n) : x <= p
             /\ Opn(d, n) = Opn(d, p - 1) \cup {p}
             /\ RdOpenIn(d, n) = Append(RdOpenIn(d, p - 1), p)
             /\ Len(RdOpenIn(d, n)) = Len(RdOpenIn(d, p - 1)) + 1
<1>1. PICK s \in Seq(Nat) : s = RdOpenIn(d, n) /\ Len(s) \in Nat
  BY OpenTyped
<1>2. Len(s) # 0
  BY <1>1
<1>3. PICK p : p = s[Len(s)] /\ p = RdTop(RdOpenIn(d, n))
  BY <1>1, <1>2 DEF RdTop
<1>4. Len(s) \in 1..Len(s)
  BY <1>1, <1>2
<1>5. PICK r : r = RdOpenIn(d, p - 1)
  OBVIOUS
<1>6. p \in 1..n /\ d[p] = "start" /\ Len(r) = Len(s) - 1 /\ \A j \in 1..(Len(s) - 1) : r[j] = s[j]
  <2>1. Level(d, n, Len(s))
    BY <1>1, <1>4, Levels
  <2> QED BY <1>1, <1>3, <1>5, <2>1 DEF Level
<1>7. r \in Seq(Nat)
  <2>1. p - 1 \in Nat
    BY <1>6
  <2> QED BY <1>5, <2>1, OpenTyped
<1>8. s = Append(r, p)
  <2>0. p \in Nat /\ Len(s) - 1 = Len(r) /\ Len(r) + 1 = Len(s)
    BY <1>1, <1>6
  <2>00. /\ Append(r, p) \in Seq(Nat) /\ Len(Append(r, p)) = Len(r) + 1
         /\ \A i \in 1..Len(r) : Append(r, p)[i] = r[i]
         /\ Append(r, p)[Len(r) + 1] = p
    BY <1>7, <2>0, AppendProperties
  <2>1. Len(Append(r, p)) = Len(s) /\ Append(r, p) \in Seq(Nat)
    BY <2>0, <2>00
  <2>2. ASSUME NEW j \in 1..Len(s) PROVE s[j] = Append(r, p)[j]
    <3>1. CASE j = Len(s)
      BY <1>3, <2>0, <2>00, <3>1
    <3>2. CASE j # Len(s)
      <4>1. j \in 1..Len(r) /\ j \in 1..(Len(s) - 1)
        BY <1>1, <2>0, <3>2
      <4> QED BY <1>6, <2>00, <4>1
    <3> QED BY <3>1, <3>2
  <2> QED BY <1>1, <2>1, <2>2, SeqEqual
<1>9. Opn(d, n) = Opn(d, p - 1) \cup {p}
  <2>1. \A j : j \in 1..Len(s) <=> (j \in 1..Len(r) \/ j = Len(s))
    <3>1. Len(r) = Len(s) - 1 /\ Len(s) \in Nat /\ Len(s) # 0
      BY <1>1, <1>2, <1>6
    <3> QED BY <3>1
  <2>2. \A x : x \in Opn(d, n) <=> \E j \in 1..Len(s) : x = s[j]
    BY <1>1 DEF Opn
  <2>3. \A x : x \in Opn(d, p - 1) <=> \E j \in 1..Len(r) : x = r[j]
    BY <1>5 DEF Opn
  <2>4. \A j \in 1..Len(r) : r[j] = s[j]
    BY <1>6
  <2>5. ASSUME NEW x PROVE x \in Opn(d, n) <=> (x \in Opn(d, p - 1) \/ x = p)
    <3>1. x \in Opn(d, n) <=> \E j : (j \in 1..Len(r) \/ j = Len(s)) /\ x = s[j]
      BY <2>1, <2>2, Zenon
    <3>2. x \in Opn(d, p - 1) <=> \E j : j \in 1..Len(r) /\ x = s[j]
      BY <2>3, <2>4, Zenon
    <3> QED BY <1>3, <3>1, <3>2, Zenon
  <2> QED BY <2>5, Zenon
<1>10. \A x \in Opn(d, n) : x <= p
  <2>1. p - 1 \in Nat
    BY <1>6
  <2>2. \A x \in Opn(d, p - 1) : x \in 1..(p - 1)
    BY <2>1, OpensTyped
  <2> QED BY <1>6, <1>9, <2>2
<1> QED BY <1>1, <1>2, <1>3, <1>5, <1>6, <1>8, <1>9, <1>10

(* An end closes the innermost element.                                    *)
LEMMA EndCloses ==
  ASSUME NEW d, NEW n \in Nat, RdOpenIn(d, n) # <<>>, d[n + 1] = "end"
  PROVE  LET p == RdTop(RdOpenIn(d, n))
         IN  /\ p \in 1..n /\ p \in Opn(d, n)
             /\ RdOpenIn(d, n + 1) = RdOpenIn(d, p - 1)
             /\ Opn(d, n + 1) = Opn(d, p - 1)
<1>1. PICK p : p = RdTop(RdOpenIn(d, n))
  OBVIOUS
<1>2. PICK r : r = RdOpenIn(d, p - 1)
  OBVIOUS
<1>3. p \in 1..n /\ p \in Opn(d, n) /\ RdOpenIn(d, n) = Append(r, p) /\ Len(RdOpenIn(d, n)) = Len(r) + 1
  BY <1>1, <1>2, TopIs
<1>4. r \in Seq(Nat) /\ Len(r) \in Nat
  <2>1. p - 1 \in Nat
    BY <1>3
  <2> QED BY <1>2, <2>1, OpenTyped
<1>5. RdOpenIn(d, n + 1) = SubSeq(Append(r, p), 1, Len(r))
  <2>1. Len(r) + 1 - 1 = Len(r)
    BY <1>4
  <2>2. RdOpenIn(d, n + 1) = SubSeq(Append(r, p), 1, Len(r) + 1 - 1)
    <3>1. PICK s : s = RdOpenIn(d, n)
      OBVIOUS
    <3>2. RdOpenIn(d, n + 1) = SubSeq(s, 1, Len(s) - 1)
      BY <3>1, OpenEnd
    <3>3. s = Append(r, p) /\ Len(s) = Len(r) + 1
      BY <1>3, <3>1
    <3>4. Len(s) - 1 = Len(r) + 1 - 1
      BY <3>3
    <3> QED BY <3>2, <3>3, <3>4, Zenon
  <2> QED BY <2>1, <2>2
<1>6. SubSeq(Append(r, p), 1, Len(r)) = r
  <2>1. PICK s : s = Append(r, p)
    OBVIOUS
  <2>2. \A i \in 1..Len(r) : s[i] = r[i] /\ s[i] \in Nat
    <3>1. p \in Nat
      BY <1>3
    <3>2. \A i \in 1..Len(r) : s[i] = r[i]
      BY <1>4, <2>1, <3>1, AppendProperties
    <3>3. \A i \in 1..Len(r) : r[i] \in Nat
      BY <1>4
    <3> QED BY <3>2, <3>3
  <2>3. PICK q : q = Len(r)
    OBVIOUS
  <2>4. q \in Nat /\ q \in Int /\ 1 \in Int /\ q - 1 + 1 = q /\ \A i \in 1..q : 1 + i - 1 = i
    BY <1>4, <2>3
  <2>5. /\ SubSeq(s, 1, q) \in Seq(Nat)
        /\ Len(SubSeq(s, 1, q)) = IF 1 <= q THEN q - 1 + 1 ELSE 0
        /\ \A i \in 1..(q - 1 + 1) : SubSeq(s, 1, q)[i] = s[1 + i - 1]
    BY <2>2, <2>3, <2>4, SubSeqProperties
  <2>6. PICK t : t = SubSeq(s, 1, q)
    OBVIOUS
  <2>7. t \in Seq(Nat) /\ Len(t) = Len(r) /\ \A i \in 1..Len(t) : t[i] = r[i]
    BY <2>2, <2>3, <2>4, <2>5, <2>6
  <2>8. t = r
    BY <1>4, <2>7, SeqEqual
  <2> QED BY <2>1, <2>3, <2>6, <2>8
<1>7. RdOpenIn(d, n + 1) = RdOpenIn(d, p - 1)
  BY <1>2, <1>5, <1>6
<1>8. Opn(d, n + 1) = Opn(d, p - 1)
  BY <1>7 DEF Opn
<1> QED BY <1>1, <1>3, <1>7, <1>8

LEMMA OpnStart ==
  ASSUME NEW d, NEW n \in Nat, d[n + 1] = "start"
  PROVE  Opn(d, n + 1) = Opn(d, n) \cup {n + 1}
<1>1. RdOpenIn(d, n + 1) = Append(RdOpenIn(d, n), n + 1)
  BY OpenStart
<1>2. PICK s \in Seq(Nat) : s = RdOpenIn(d, n) /\ Len(s) \in Nat
  BY OpenTyped
<1>3. PICK t : t = Append(s, n + 1)
  OBVIOUS
<1>4. n + 1 \in Nat
  OBVIOUS
<1>5. /\ Len(t) = Len(s) + 1 /\ t[Len(s) + 1] = n + 1
      /\ \A i \in 1..Len(s) : t[i] = s[i]
  BY <1>2, <1>3, <1>4, AppendProperties
<1>6. \A j : j \in 1..Len(t) <=> (j \in 1..Len(s) \/ j = Len(s) + 1)
  BY <1>2, <1>5
<1>7. \A x : x \in Opn(d, n + 1) <=> \E j \in 1..Len(t) : x = t[j]
  BY <1>1, <1>2, <1>3 DEF Opn
<1>8. \A x : x \in Opn(d, n) <=> \E j \in 1..Len(s) : x = s[j]
  BY <1>2 DEF Opn
<1>9. ASSUME NEW x PROVE x \in Opn(d, n + 1) <=> (x \in Opn(d, n) \/ x = n + 1)
  <2>1. x \in Opn(d, n + 1) <=> \E j : (j \in 1..Len(s) \/ j = Len(s) + 1) /\ x = t[j]
    BY <1>6, <1>7, Zenon
  <2>2. x \in Opn(d, n) <=> \E j : j \in 1..Len(s) /\ x = t[j]
    <3>1. \A i \in 1..Len(s) : t[i] = s[i]
      BY <1>5
    <3>2. ASSUME x \in Opn(d, n) PROVE \E j : j \in 1..Len(s) /\ x = t[j]
      <4>1. PICK j \in 1..Len(s) : x = s[j]
        BY <1>8, <3>2
      <4> QED BY <3>1, <4>1
    <3>3. ASSUME NEW j \in 1..Len(s), x = t[j] PROVE x \in Opn(d, n)
      <4>1. x = s[j]
        BY <3>1, <3>3
      <4> QED BY <1>8, <4>1
    <3> QED BY <3>2, <3>3
  <2>3. t[Len(s) + 1] = n + 1
    BY <1>5
  <2> QED BY <2>1, <2>2, <2>3, SMT
<1> QED BY <1>9, Zenon

LEMMA OpnStep ==
  ASSUME NEW d, NEW n \in Nat
  PROVE  Opn(d, n + 1) \subseteq Opn(d, n) \cup {n + 1}
<1>1. CASE d[n + 1] = "start"
  BY <1>1, OpnStart
<1>2. CASE d[n + 1] \notin {"start", "end"}
  BY <1>2, OpenOther DEF Opn
<1>3. CASE d[n + 1] = "end" /\ RdOpenIn(d, n) # <<>>
  <2>1. PICK p : p \in Opn(d, n) /\ Opn(d, n + 1) = Opn(d, p - 1)
    BY <1>3, EndCloses
  <2> QED BY <2>1, OpensTyped
<1>4. CASE d[n + 1] = "end" /\ RdOpenIn(d, n) = <<>>
  <2>1. RdOpenIn(d, n + 1) = SubSeq(<<>>, 1, Len(<<>>) - 1)
    BY <1>4, OpenEnd
  <2>2. RdOpenIn(d, n + 1) = <<>>
    BY <2>1
  <2>3. Opn(d, n + 1) = {}
    BY <2>2 DEF Opn
  <2> QED BY <2>3
<1> QED BY <1>1, <1>2, <1>3, <1>4

(* An element that is open was open ever since it was opened.              *)
LEMMA OpenKept ==
  ASSUME NEW d, NEW n \in Nat, NEW x \in Opn(d, n), NEW j \in Nat, x <= j, j <= n
  PROVE  x \in Opn(d, j)
<1> DEFINE P == {i \in Nat : j <= i => (x \in Opn(d, i) => x \in Opn(d, j))}
<1>0. x \in Nat
  BY OpensTyped
<1>1. 0 \in P
  OBVIOUS
<1>2. ASSUME NEW i \in Nat, i \in P PROVE i + 1 \in P
  <2> SUFFICES ASSUME j <= i + 1, x \in Opn(d, i + 1) PROVE x \in Opn(d, j)
    OBVIOUS
  <2>1. CASE j = i + 1
    BY <2>1
  <2>2. CASE j <= i
    <3>1. x \in Opn(d, i)
      BY <1>0, <2>2, OpnStep
    <3> QED BY <1>2, <2>2, <3>1
  <2> QED BY <2>1, <2>2
<1> HIDE DEF P
<1>3. n \in P
  BY <1>1, <1>2, Induct
<1> QED BY <1>3 DEF P

-----------------------------------------------------------------------------
(* Nodes and events.                                                       *)
Node(d, i) == /\ d[i] \in {"start", "empty", "text", "misc"}
              /\ ~(d[i] = "text" /\ i > 1 /\ d[i - 1] = "text")

Event(d, i) == Node(d, i) \/ d[i] = "end"

Par(d, n) == RdTop(RdOpenIn(d, n - 1))
Anc(d, n) == Opn(d, n - 1)
Below(d, n) == {m \in 1..Len(d) : Node(d, m) /\ n \in Anc(d, m)}

LEMMA TokenKinds ==
  ASSUME NEW d, IsDoc(d), NEW i \in 1..Len(d)
  PROVE  d[i] \in {"start", "empty", "end", "text", "misc"}
BY DEF IsDoc, RdElements

(* What is no event is more text.                                          *)
LEMMA QuietText ==
  ASSUME NEW d, IsDoc(d), NEW i \in 1..Len(d), ~Event(d, i)
  PROVE  d[i] = "text" /\ i > 1 /\ d[i - 1] = "text"
BY TokenKinds DEF Event, Node

LEMMA QuietSame ==
  ASSUME NEW d, IsDoc(d), NEW a \in Nat, NEW b \in Nat, a <= b, b <= Len(d),
         \A i \in (a + 1)..b : ~Event(d, i)
  PROVE  RdOpenIn(d, b) = RdOpenIn(d, a)
<1> DEFINE P == {i \in Nat : a <= i /\ i <= b => RdOpenIn(d, i) = RdOpenIn(d, a)}
<1>0. Len(d) \in Nat
  BY DEF IsDoc
<1>1. 0 \in P
  OBVIOUS
<1>2. ASSUME NEW i \in Nat, i \in P PROVE i + 1 \in P
  <2> SUFFICES ASSUME a <= i + 1, i + 1 <= b PROVE RdOpenIn(d, i + 1) = RdOpenIn(d, a)
    OBVIOUS
  <2>1. CASE a = i + 1
    BY <2>1
  <2>2. CASE a <= i
    <3>1. i + 1 \in (a + 1)..b /\ i + 1 \in 1..Len(d)
      BY <1>0, <2>2
    <3>2. d[i + 1] = "text"
      BY <3>1, QuietText
    <3>3. RdOpenIn(d, i + 1) = RdOpenIn(d, i)
      BY <3>2, OpenOther
    <3> QED BY <1>2, <2>2, <3>3
  <2> QED BY <2>1, <2>2
<1> HIDE DEF P
<1>3. b \in P
  BY <1>1, <1>2, Induct
<1> QED BY <1>3 DEF P

(* The next event after a, if there is one up to b.                        *)
LEMMA NextEvent ==
  ASSUME NEW d, NEW a \in Nat, NEW b \in Nat,
         ~ \A i \in (a + 1)..b : ~Event(d, i)
  PROVE  \E e \in (a + 1)..b : Event(d, e) /\ \A i \in (a + 1)..(e - 1) : ~Event(d, i)
<1> DEFINE S == {i \in (a + 1)..b : Event(d, i)}
<1>1. S \in SUBSET Nat /\ S # {}
  OBVIOUS
<1>2. PICK e \in S : \A m \in S : e <= m
  BY <1>1, LeastNat
<1>3. \A i \in (a + 1)..(e - 1) : i \notin S /\ i \in (a + 1)..b
  BY <1>2
<1> QED BY <1>2, <1>3

(* After a node that is no start tag the same elements are open, and after *)
(* the end of an element those before it.                                  *)
LEMMA LeafSame ==
  ASSUME NEW d, NEW n \in Nat, n >= 1, d[n] \notin {"start", "end"}
  PROVE  RdOpenIn(d, n) = RdOpenIn(d, n - 1)
<1>1. n - 1 \in Nat /\ (n - 1) + 1 = n
  OBVIOUS
<1> QED BY <1>1, OpenOther

LEMMA EndSame ==
  ASSUME NEW d, IsDoc(d), NEW c \in 1..Len(d), d[c] = "end"
  PROVE  LET p == RdTop(RdOpenIn(d, c - 1))
         IN  /\ p \in 1..(c - 1) /\ p \in Opn(d, c - 1) /\ d[p] = "start"
             /\ RdOpenIn(d, c) = RdOpenIn(d, p - 1)
<1>0. RdOpenIn(d, c - 1) # <<>>
  BY DEF IsDoc
<1>1. PICK a : a = c - 1 /\ a \in Nat /\ a + 1 = c
  OBVIOUS
<1>2. RdOpenIn(d, a) # <<>> /\ d[a + 1] = "end"
  BY <1>0, <1>1
<1>3. PICK p : p = RdTop(RdOpenIn(d, a))
  OBVIOUS
<1>4. p \in 1..a /\ p \in Opn(d, a) /\ RdOpenIn(d, a + 1) = RdOpenIn(d, p - 1)
  BY <1>1, <1>2, <1>3, EndCloses
<1>5. d[p] = "start"
  BY <1>1, <1>2, <1>3, TopIs
<1> QED BY <1>1, <1>3, <1>4, <1>5

(* The parent of a node, and its ancestors.                                *)
LEMMA ParIs ==
  ASSUME NEW d, NEW n \in Nat, n >= 1
  PROVE  /\ Par(d, n) \in 0..(n - 1)
         /\ Par(d, n) = 0 => Anc(d, n) = {} /\ RdOpenIn(d, n - 1) = <<>>
         /\ Par(d, n) # 0 =>
              LET p == Par(d, n)
              IN  /\ p \in Anc(d, n) /\ d[p] = "start" /\ Anc(d, n) = Anc(d, p) \cup {p}
                  /\ Len(RdOpenIn(d, n - 1)) = Len(RdOpenIn(d, p - 1)) + 1
                  /\ \A x \in Anc(d, n) : x <= p
<1>1. PICK a : a = n - 1 /\ a \in Nat
  OBVIOUS
<1>2. CASE RdOpenIn(d, a) = <<>>
  <2>1. Par(d, n) = 0
    BY <1>1, <1>2 DEF Par, RdTop
  <2>2. Anc(d, n) = {}
    <3>1. Len(RdOpenIn(d, a)) = 0
      BY <1>2
    <3> QED BY <1>1, <3>1 DEF Anc, Opn
  <2> QED BY <1>1, <1>2, <2>1, <2>2
<1>3. CASE RdOpenIn(d, a) # <<>>
  <2>1. PICK p : p = RdTop(RdOpenIn(d, a))
    OBVIOUS
  <2>2. /\ p \in Opn(d, a) /\ p \in 1..a /\ d[p] = "start"
        /\ \A x \in Opn(d, a) : x <= p
        /\ Opn(d, a) = Opn(d, p - 1) \cup {p}
        /\ Len(RdOpenIn(d, a)) = Len(RdOpenIn(d, p - 1)) + 1
    BY <1>1, <1>3, <2>1, TopIs
  <2>3. Par(d, n) = p
    BY <1>1, <2>1 DEF Par
  <2> QED BY <1>1, <2>2, <2>3 DEF Anc
<1> QED BY <1>2, <1>3

LEMMA AncIs ==
  ASSUME NEW d, NEW n \in Nat, n >= 1, NEW x \in Anc(d, n)
  PROVE  x \in 1..(n - 1) /\ d[x] = "start" /\ Node(d, x) /\ Anc(d, x) \subseteq Anc(d, n)
<1>1. n - 1 \in Nat
  OBVIOUS
<1> QED BY <1>1, OpensTyped DEF Anc, Node

-----------------------------------------------------------------------------
(* Where the reader stands: at the event of a node n at token c, which is  *)
(* the node's own, or the end of the element.                              *)
PosAt(d, n, c) ==
  /\ c \in 1..Len(d)
  /\ \/ n = c /\ Node(d, c)
     \/ d[c] = "end" /\ n = RdTop(RdOpenIn(d, c - 1))

At(d, n, c, st) ==
  /\ PosAt(d, n, c)
  /\ st \in {"ELEMENT", "END", "BACKTRACK", "DONE", "ERROR"}
  /\ st = "ELEMENT" => c = n
  /\ st \in {"END", "BACKTRACK"} => c # n
  /\ st = "END" => c = n + 1
  /\ st = "DONE" => d[n] # "start"

Kids(d, live, n) == {m \in live : Par(d, m) = n}
Later(d, live, n) == {m \in live : Par(d, m) = Par(d, n) /\ m > n}

(* The tree: nodes the parser delivered, all of those after token c.       *)
Tree(d, pos, live, c) ==
  /\ pos \in 0..Len(d)
  /\ live \subseteq {m \in 1..pos : Node(d, m)}
  /\ {m \in (c + 1)..pos : Node(d, m)} \subseteq live

LEMMA FirstIs ==
  ASSUME NEW S \in SUBSET Nat, NEW n \in S, \A m \in S : n <= m
  PROVE  RdFirst(S) = n
<1>1. \A k \in S : (\A m \in S : k <= m) => k = n
  OBVIOUS
<1>2. S # {}
  OBVIOUS
<1> QED BY <1>1, <1>2 DEF RdFirst

LEMMA LastIs ==
  ASSUME NEW S \in SUBSET Nat, NEW n \in S, \A m \in S : n >= m
  PROVE  RdLast(S) = n
<1>1. \A k \in S : (\A m \in S : k >= m) => k = n
  OBVIOUS
<1>2. S # {}
  OBVIOUS
<1> QED BY <1>1, <1>2 DEF RdLast

LEMMA FirstOf ==
  ASSUME NEW S \in SUBSET Nat, S # {}
  PROVE  RdFirst(S) \in S /\ \A m \in S : RdFirst(S) <= m
<1>1. PICK n \in S : \A m \in S : n <= m
  BY LeastNat
<1>2. RdFirst(S) = n
  BY <1>1, FirstIs
<1> QED BY <1>1, <1>2

(* The first of a set of nodes, if there is one.                           *)
LEMMA FirstNone ==
  ASSUME NEW S \in SUBSET (Nat \ {0})
  PROVE  RdFirst(S) = 0 <=> S = {}
<1>1. CASE S = {}
  BY <1>1 DEF RdFirst
<1>2. CASE S # {}
  <2>1. S \in SUBSET Nat
    OBVIOUS
  <2>2. RdFirst(S) \in S
    BY <1>2, <2>1, FirstOf
  <2> QED BY <1>2, <2>2
<1> QED BY <1>1, <1>2

LEMMA TopStart ==
  ASSUME NEW d, NEW n \in Nat, n >= 1, d[n] = "start"
  PROVE  /\ RdTop(RdOpenIn(d, n)) = n /\ RdOpenIn(d, n) # <<>>
         /\ Len(RdOpenIn(d, n)) = Len(RdOpenIn(d, n - 1)) + 1
         /\ Opn(d, n) = Opn(d, n - 1) \cup {n}
<1>1. PICK a : a = n - 1 /\ a \in Nat /\ a + 1 = n
  OBVIOUS
<1>2. PICK s \in Seq(Nat) : s = RdOpenIn(d, a) /\ Len(s) \in Nat
  BY <1>1, OpenTyped
<1>3. RdOpenIn(d, n) = Append(s, n)
  BY <1>1, <1>2, OpenStart
<1>4. PICK t : t = Append(s, n)
  OBVIOUS
<1>5. Len(t) = Len(s) + 1 /\ t[Len(s) + 1] = n /\ t # <<>>
  BY <1>2, <1>4, AppendProperties
<1>6. RdTop(t) = n
  BY <1>5 DEF RdTop
<1>7. Opn(d, n) = Opn(d, n - 1) \cup {n}
  BY <1>1, OpnStart
<1> QED BY <1>1, <1>2, <1>3, <1>4, <1>5, <1>6, <1>7

(* An element that has ended is not open any more.                         *)
LEMMA Closed ==
  ASSUME NEW d, IsDoc(d), NEW c \in 1..Len(d), d[c] = "end", NEW j \in Nat, c <= j
  PROVE  RdTop(RdOpenIn(d, c - 1)) \notin Opn(d, j)
<1>1. PICK p : p = RdTop(RdOpenIn(d, c - 1))
  OBVIOUS
<1>2. p \in 1..(c - 1) /\ RdOpenIn(d, c) = RdOpenIn(d, p - 1)
  BY <1>1, EndSame
<1>3. Opn(d, c) = Opn(d, p - 1)
  BY <1>2 DEF Opn
<1> SUFFICES ASSUME p \in Opn(d, j) PROVE FALSE
  BY <1>1
<1>4. p <= c /\ c \in Nat /\ p - 1 \in Nat
  BY <1>2
<1>5. p \in Opn(d, p - 1)
  BY <1>3, <1>4, OpenKept
<1>6. p \in 1..(p - 1)
  BY <1>4, <1>5, OpensTyped
<1> QED BY <1>2, <1>6

LEMMA PosIs ==
  ASSUME NEW d, IsDoc(d), NEW n, NEW c, PosAt(d, n, c)
  PROVE  /\ c \in Nat /\ c <= Len(d) /\ Len(d) \in Nat
         /\ n \in 1..c /\ n \in Nat /\ n >= 1 /\ Node(d, n) /\ Event(d, c)
         /\ c # n => d[n] = "start" /\ d[c] = "end" /\ c > n /\ n \in Opn(d, c - 1)
                     /\ n = RdTop(RdOpenIn(d, c - 1))
         /\ ~(c = n /\ d[n] = "start") => RdOpenIn(d, c) = RdOpenIn(d, n - 1)
         /\ Opn(d, c) \subseteq Anc(d, n) \cup {n}
<1>0. Len(d) \in Nat /\ c \in Nat /\ c >= 1 /\ c <= Len(d)
  BY DEF IsDoc, PosAt
<1>1. CASE n = c /\ Node(d, c)
  <2>1. d[n] # "end"
    BY <1>1 DEF Node
  <2>2. ~(c = n /\ d[n] = "start") => RdOpenIn(d, c) = RdOpenIn(d, n - 1)
    BY <1>0, <1>1, <2>1, LeafSame
  <2>3. Opn(d, c) \subseteq Anc(d, n) \cup {n}
    <3>1. n - 1 \in Nat /\ (n - 1) + 1 = n
      BY <1>0, <1>1
    <3> QED BY <1>1, <3>1, OpnStep DEF Anc
  <2> QED BY <1>0, <1>1, <2>2, <2>3 DEF Event
<1>2. CASE d[c] = "end" /\ n = RdTop(RdOpenIn(d, c - 1))
  <2>1. c \in 1..Len(d)
    BY DEF PosAt
  <2>2. n \in 1..(c - 1) /\ n \in Opn(d, c - 1) /\ d[n] = "start" /\ RdOpenIn(d, c) = RdOpenIn(d, n - 1)
    BY <1>2, <2>1, EndSame
  <2>3. Opn(d, c) = Anc(d, n)
    BY <2>2 DEF Opn, Anc
  <2> QED BY <1>0, <1>2, <2>2, <2>3 DEF Event, Node
<1> QED BY <1>1, <1>2 DEF PosAt

(* A later sibling comes after the end of the element.                     *)
LEMMA SiblingAfter ==
  ASSUME NEW d, IsDoc(d), NEW n, NEW c, PosAt(d, n, c), NEW m \in Nat, Node(d, m), m > n,
         Par(d, m) = Par(d, n)
  PROVE  m > c /\ n \notin Anc(d, m)
<1>0. c \in Nat /\ n \in Nat /\ n >= 1 /\ n <= c
  BY PosIs
<1>1. ASSUME n \in Anc(d, m) PROVE FALSE
  <2>1. Par(d, m) # 0 /\ n <= Par(d, m)
    BY <1>0, <1>1, ParIs
  <2>2. Par(d, n) \in 0..(n - 1)
    BY <1>0, ParIs
  <2> QED BY <1>0, <2>1, <2>2
<1>2. ASSUME m <= c PROVE FALSE
  <2>1. c # n
    BY <1>0, <1>2
  <2>2. d[c] = "end" /\ n \in Opn(d, c - 1)
    BY <2>1, PosIs
  <2>3. m # c
    BY <2>2 DEF Node
  <2>4. c - 1 \in Nat /\ m - 1 \in Nat /\ n <= m - 1 /\ m - 1 <= c - 1
    BY <1>0, <1>2
  <2>5. n \in Opn(d, m - 1)
    BY <2>2, <2>4, OpenKept
  <2> QED BY <1>1, <2>5 DEF Anc
<1> QED BY <1>0, <1>1, <1>2

(* The child the reader goes down to.                                      *)
LEMMA ToChild ==
  ASSUME NEW d, IsDoc(d), NEW n, NEW c, NEW st, At(d, n, c, st), st \notin {"BACKTRACK", "ERROR"},
         NEW pos, NEW live, Tree(d, pos, live, c), Kids(d, live, n) # {}
  PROVE  /\ c = n /\ d[n] = "start" /\ n + 1 \in live /\ Node(d, n + 1)
         /\ Par(d, n + 1) = n /\ RdFirst(Kids(d, live, n)) = n + 1
<1>0. PosAt(d, n, c) /\ Len(d) \in Nat
  BY DEF At, IsDoc
<1>00. c \in Nat /\ n \in Nat /\ n >= 1 /\ n <= c /\ c <= Len(d) /\ Node(d, n)
  BY <1>0, PosIs
<1>1. pos \in Nat /\ pos <= Len(d) /\ \A m \in live : m \in Nat /\ 1 <= m /\ m <= pos /\ Node(d, m)
  BY <1>0 DEF Tree
<1>2. PICK m \in live : Par(d, m) = n
  BY DEF Kids
<1>3. n \in Anc(d, m) /\ d[n] = "start" /\ n <= m - 1
  BY <1>00, <1>1, <1>2, ParIs
<1>4. c = n
  <2>1. SUFFICES ASSUME c # n PROVE FALSE
    OBVIOUS
  <2>2. st = "END" /\ c = n + 1
    BY <1>3, <2>1 DEF At
  <2>3. d[c] = "end" /\ n = RdTop(RdOpenIn(d, c - 1)) /\ c \in 1..Len(d)
    BY <1>0, <1>00, <2>1, PosIs
  <2>4. m # c
    BY <1>1, <2>3 DEF Node
  <2>5. c <= m - 1 /\ m - 1 \in Nat
    BY <1>00, <1>1, <1>3, <2>2, <2>4
  <2>6. n \notin Opn(d, m - 1)
    BY <2>3, <2>5, Closed
  <2> QED BY <1>3, <2>6 DEF Anc
<1>5. RdTop(RdOpenIn(d, n)) = n
  BY <1>00, <1>3, TopStart
<1>6. n + 1 \in 1..Len(d) /\ n + 1 <= pos /\ (n + 1) - 1 = n /\ n + 1 <= m
  BY <1>00, <1>1, <1>2, <1>3
<1>7. d[n + 1] # "end"
  <2> SUFFICES ASSUME d[n + 1] = "end" PROVE FALSE
    OBVIOUS
  <2>1. m # n + 1
    BY <1>1 DEF Node
  <2>2. n + 1 <= m - 1 /\ m - 1 \in Nat
    BY <1>00, <1>1, <1>6, <2>1
  <2>3. n \notin Opn(d, m - 1)
    BY <1>5, <1>6, <2>2, Closed
  <2> QED BY <1>3, <2>3 DEF Anc
<1>8. Node(d, n + 1)
  <2>1. Event(d, n + 1)
    BY <1>3, <1>6, QuietText
  <2> QED BY <1>7, <2>1 DEF Event
<1>9. n + 1 \in live
  <2>1. n + 1 \in (c + 1)..pos
    BY <1>00, <1>1, <1>4, <1>6
  <2> QED BY <1>8, <2>1 DEF Tree
<1>10. Par(d, n + 1) = n
  BY <1>5, <1>6 DEF Par
<1>11. RdFirst(Kids(d, live, n)) = n + 1
  <2>1. n + 1 \in Kids(d, live, n)
    BY <1>9, <1>10 DEF Kids
  <2>2. \A k \in Kids(d, live, n) : k \in Nat /\ n + 1 <= k
    <3>1. ASSUME NEW k \in Kids(d, live, n) PROVE k \in Nat /\ n + 1 <= k
      <4>1. k \in live /\ Par(d, k) = n
        BY DEF Kids
      <4>2. k \in Nat /\ k >= 1
        BY <1>1, <4>1
      <4>3. n \in 0..(k - 1)
        BY <4>1, <4>2, ParIs
      <4> QED BY <4>2, <4>3
    <3> QED BY <3>1
  <2>3. Kids(d, live, n) \in SUBSET Nat
    BY <2>2
  <2> QED BY <2>1, <2>2, <2>3, FirstIs
<1> QED BY <1>3, <1>4, <1>8, <1>9, <1>10, <1>11

(* An element without children ends with the next token.                   *)
LEMMA ToEmptyEnd ==
  ASSUME NEW d, IsDoc(d), NEW n, PosAt(d, n, n), d[n] = "start",
         NEW pos, NEW live, Tree(d, pos, live, n), pos > n, Kids(d, live, n) = {}
  PROVE  n + 1 \in 1..pos /\ PosAt(d, n, n + 1) /\ d[n + 1] = "end"
<1>0. n \in Nat /\ n >= 1 /\ Len(d) \in Nat
  BY PosIs
<1>1. pos \in Nat /\ pos <= Len(d)
  BY <1>0 DEF Tree
<1>2. n + 1 \in 1..Len(d) /\ n + 1 \in (n + 1)..pos /\ (n + 1) - 1 = n /\ n + 1 \in 1..pos
  BY <1>0, <1>1
<1>3. RdTop(RdOpenIn(d, n)) = n
  BY <1>0, TopStart
<1>4. ~Node(d, n + 1)
  <2> SUFFICES ASSUME Node(d, n + 1) PROVE FALSE
    OBVIOUS
  <2>1. n + 1 \in live
    BY <1>2 DEF Tree
  <2>2. Par(d, n + 1) = n
    BY <1>2, <1>3 DEF Par
  <2> QED BY <2>1, <2>2 DEF Kids
<1>5. d[n + 1] = "end"
  <2>1. Event(d, n + 1)
    BY <1>2, QuietText
  <2> QED BY <1>4, <2>1 DEF Event
<1> QED BY <1>2, <1>3, <1>5 DEF PosAt

(* The reader leaves a node: the next event is a sibling, or the end of    *)
(* the parent.                                                             *)
LEMMA Leaves ==
  ASSUME NEW d, IsDoc(d), NEW n, NEW c, PosAt(d, n, c), ~(c = n /\ d[n] = "start"),
         NEW pos, NEW live, Tree(d, pos, live, c),
         NEW e \in (c + 1)..pos, Event(d, e), \A i \in (c + 1)..(e - 1) : ~Event(d, i)
  PROVE  /\ RdOpenIn(d, e - 1) = RdOpenIn(d, n - 1)
         /\ Node(d, e) => /\ Par(d, e) = Par(d, n) /\ e \in live
                          /\ RdFirst(Later(d, live, n)) = e
                          /\ PosAt(d, e, e)
         /\ ~Node(d, e) => /\ Par(d, n) # 0 /\ PosAt(d, Par(d, n), e) /\ d[e] = "end"
                           /\ Later(d, live, n) = {}
<1>0. c \in Nat /\ n \in Nat /\ n >= 1 /\ Len(d) \in Nat /\ n <= c
  BY PosIs
<1>1. pos \in Nat /\ pos <= Len(d) /\ \A m \in live : m \in Nat /\ 1 <= m /\ m <= pos /\ Node(d, m)
  BY <1>0 DEF Tree
<1>2. e \in 1..Len(d) /\ e - 1 \in Nat /\ c <= e - 1 /\ e - 1 <= Len(d) /\ e > n
  BY <1>0, <1>1
<1>3. RdOpenIn(d, e - 1) = RdOpenIn(d, n - 1)
  <2>1. RdOpenIn(d, e - 1) = RdOpenIn(d, c)
    BY <1>0, <1>2, QuietSame
  <2>2. RdOpenIn(d, c) = RdOpenIn(d, n - 1)
    BY PosIs
  <2> QED BY <2>1, <2>2
<1>4. RdTop(RdOpenIn(d, e - 1)) = Par(d, n) /\ Par(d, e) = Par(d, n)
  BY <1>3 DEF Par
<1>5. ASSUME NEW m \in Later(d, live, n) PROVE m \in live /\ m \in Nat /\ m >= e /\ Node(d, m) /\ Par(d, m) = Par(d, n)
  <2>1. m \in live /\ Par(d, m) = Par(d, n) /\ m > n
    BY DEF Later
  <2>2. m \in Nat /\ Node(d, m)
    BY <1>1, <2>1
  <2>3. m > c
    BY <2>1, <2>2, SiblingAfter
  <2>4. Event(d, m)
    BY <2>2 DEF Event
  <2>5. ~(m \in (c + 1)..(e - 1))
    BY <2>4
  <2> QED BY <1>0, <1>2, <2>1, <2>2, <2>3, <2>5
<1>6. ASSUME Node(d, e) PROVE e \in live /\ RdFirst(Later(d, live, n)) = e /\ PosAt(d, e, e)
  <2>1. e \in live
    BY <1>6 DEF Tree
  <2>2. e \in Later(d, live, n)
    BY <1>2, <1>4, <2>1 DEF Later
  <2>3. Later(d, live, n) \in SUBSET Nat /\ \A m \in Later(d, live, n) : e <= m
    BY <1>2, <1>5
  <2>4. RdFirst(Later(d, live, n)) = e
    BY <2>2, <2>3, FirstIs
  <2> QED BY <1>2, <1>6, <2>1, <2>4 DEF PosAt
<1>7. ASSUME ~Node(d, e) PROVE Par(d, n) # 0 /\ PosAt(d, Par(d, n), e) /\ d[e] = "end" /\ Later(d, live, n) = {}
  <2>1. d[e] = "end"
    BY <1>7 DEF Event
  <2>2. Par(d, n) # 0 /\ PosAt(d, Par(d, n), e)
    <3>1. RdTop(RdOpenIn(d, e - 1)) \in 1..(e - 1)
      BY <1>2, <2>1, EndSame
    <3> QED BY <1>2, <1>4, <2>1, <3>1 DEF PosAt
  <2>3. ASSUME NEW m \in Later(d, live, n) PROVE FALSE
    <3>1. m \in live /\ m \in Nat /\ m >= e /\ Node(d, m) /\ Par(d, m) = Par(d, n)
      BY <1>5, <2>3
    <3>2. m # e
      BY <1>7, <3>1
    <3>3. m - 1 \in Nat /\ e <= m - 1 /\ m >= 1
      BY <1>2, <3>1, <3>2
    <3>4. Par(d, m) \in Anc(d, m)
      BY <2>2, <3>1, <3>3, ParIs
    <3>5. Par(d, n) \notin Opn(d, m - 1)
      BY <1>2, <1>4, <2>1, <3>3, Closed
    <3> QED BY <3>1, <3>4, <3>5 DEF Anc
  <2> QED BY <2>1, <2>2, <2>3
<1> QED BY <1>3, <1>4, <1>6, <1>7

(* Nothing has come after the node yet.                                    *)
LEMMA Stays ==
  ASSUME NEW d, IsDoc(d), NEW n, NEW c, PosAt(d, n, c), ~(c = n /\ d[n] = "start"),
         NEW pos, NEW live, Tree(d, pos, live, c), c <= pos,
         \A i \in (c + 1)..pos : ~Event(d, i)
  PROVE  /\ Later(d, live, n) = {}
         /\ \A q \in c..pos : RdOpenIn(d, q) = RdOpenIn(d, n - 1)
         /\ Par(d, n) = 0 => pos = c
<1>0. c \in Nat /\ n \in Nat /\ n >= 1 /\ Len(d) \in Nat /\ n <= c
  BY PosIs
<1>1. pos \in Nat /\ pos <= Len(d) /\ \A m \in live : m \in Nat /\ 1 <= m /\ m <= pos /\ Node(d, m)
  BY <1>0 DEF Tree
<1>2. ASSUME NEW m \in Later(d, live, n) PROVE FALSE
  <2>1. m \in live /\ Par(d, m) = Par(d, n) /\ m > n
    BY DEF Later
  <2>2. m \in Nat /\ Node(d, m) /\ m <= pos
    BY <1>1, <2>1
  <2>3. m > c
    BY <2>1, <2>2, SiblingAfter
  <2>4. m \in (c + 1)..pos
    BY <1>0, <1>1, <2>2, <2>3
  <2> QED BY <2>2, <2>4 DEF Event
<1>3. RdOpenIn(d, c) = RdOpenIn(d, n - 1)
  BY PosIs
<1>4. ASSUME NEW q \in c..pos PROVE RdOpenIn(d, q) = RdOpenIn(d, n - 1)
  <2>1. q \in Nat /\ c <= q /\ q <= Len(d) /\ \A i \in (c + 1)..q : i \in (c + 1)..pos
    BY <1>0, <1>1
  <2>2. \A i \in (c + 1)..q : ~Event(d, i)
    BY <2>1
  <2>3. RdOpenIn(d, q) = RdOpenIn(d, c)
    BY <1>0, <2>1, <2>2, QuietSame
  <2> QED BY <1>3, <2>3
<1>5. ASSUME Par(d, n) = 0, pos # c PROVE FALSE
  <2>1. RdOpenIn(d, c) = <<>>
    BY <1>0, <1>3, <1>5, ParIs
  <2>2. c + 1 \in 1..Len(d) /\ c + 1 \in (c + 1)..pos /\ (c + 1) - 1 = c
    BY <1>0, <1>1, <1>5
  <2>3. d[c + 1] = "text"
    BY <2>2, QuietText
  <2> QED BY <2>1, <2>2, <2>3 DEF IsDoc
<1> QED BY <1>2, <1>4, <1>5

-----------------------------------------------------------------------------
(* The nodes of the tree that the reader, the parser and the application   *)
(* hold.                                                                   *)
KeptOf(d, kept) == kept \cup UNION {Anc(d, x) : x \in kept}
Around(d, n) == {n} \cup Anc(d, n)
Holds(d, kept, x) == x \in KeptOf(d, kept) \/ Anc(d, x) \cap kept # {}
Freed(d, live, n) == live \ ({n} \cup Below(d, n))

(* A node stays with its ancestors, and one that is preserved stays.       *)
Forest(d, pos, live, kept) ==
  /\ pos \in 0..Len(d)
  /\ live \subseteq {m \in 1..pos : Node(d, m)}
  /\ kept \subseteq live
  /\ \A x \in live : Anc(d, x) \subseteq live

(* The level of preserves counts the preserved elements around the reader, *)
(* or more; when it does not count more, nothing is left behind that is    *)
(* not preserved.                                                          *)
Level0(d, live, kept, P, n, c) ==
  P = Cardinality(kept \cap Around(d, n)) =>
    \A x \in live : x > c \/ x \in Around(d, n) \/ Holds(d, kept, x)

Memory(d, pos, live, kept, held, P, n, c) ==
  /\ kept \subseteq 1..c /\ held \subseteq kept
  /\ \A h \in held : {m \in Below(d, h) : m <= pos} \subseteq live
  /\ P \in Nat /\ P >= Cardinality(kept \cap Around(d, n))
  /\ Level0(d, live, kept, P, n, c)

LEMMA FreedForest ==
  ASSUME NEW d, NEW pos, NEW live, NEW kept, NEW n, Forest(d, pos, live, kept),
         Len(d) \in Nat, n \notin KeptOf(d, kept)
  PROVE  Forest(d, pos, Freed(d, live, n), kept)
<1>1. \A x \in live : x \in Nat /\ x >= 1 /\ x \in 1..Len(d) /\ Node(d, x)
  BY DEF Forest
<1>2. ASSUME NEW x \in kept PROVE x \in Freed(d, live, n)
  <2>1. x \in live /\ x # n
    BY DEF Forest, KeptOf
  <2>2. n \notin Anc(d, x)
    BY DEF KeptOf
  <2> QED BY <2>1, <2>2 DEF Freed, Below
<1>3. ASSUME NEW x \in Freed(d, live, n), NEW y \in Anc(d, x) PROVE y \in Freed(d, live, n)
  <2>1. x \in live /\ ~(x \in Below(d, n))
    BY DEF Freed
  <2>2. n \notin Anc(d, x)
    BY <1>1, <2>1 DEF Below
  <2>3. y \in live /\ y # n
    BY <2>1, <2>2 DEF Forest
  <2>4. Anc(d, y) \subseteq Anc(d, x)
    BY <1>1, <2>1, AncIs
  <2>5. y \notin Below(d, n)
    BY <2>2, <2>4 DEF Below
  <2> QED BY <2>3, <2>5 DEF Freed
<1>4. Freed(d, live, n) \subseteq live
  BY DEF Freed
<1> QED BY <1>2, <1>3, <1>4 DEF Forest

LEMMA KeptFinite ==
  ASSUME NEW kept, NEW c \in Nat, kept \subseteq 1..c, NEW A
  PROVE  IsFiniteSet(kept \cap A) /\ Cardinality(kept \cap A) \in Nat
<1>1. IsFiniteSet(1..c)
  BY FS_Interval
<1>2. IsFiniteSet(kept \cap A)
  BY <1>1, FS_Subset
<1> QED BY <1>2, FS_CardinalityType

(* The count changes by one with a preserved node.                         *)
LEMMA CountNode ==
  ASSUME NEW kept, NEW c \in Nat, kept \subseteq 1..c, NEW A, NEW n, n \notin A
  PROVE  Cardinality(kept \cap ({n} \cup A)) =
           Cardinality(kept \cap A) + (IF n \in kept THEN 1 ELSE 0)
<1>1. IsFiniteSet(kept \cap A) /\ Cardinality(kept \cap A) \in Nat
  BY KeptFinite
<1>2. CASE n \in kept
  <2>1. kept \cap ({n} \cup A) = (kept \cap A) \cup {n}
    BY <1>2
  <2>2. n \notin kept \cap A
    OBVIOUS
  <2>3. Cardinality((kept \cap A) \cup {n}) = Cardinality(kept \cap A) + 1
    BY <1>1, <2>2, FS_AddElement
  <2> QED BY <1>2, <2>1, <2>3
<1>3. CASE n \notin kept
  <2>1. kept \cap ({n} \cup A) = kept \cap A
    BY <1>3
  <2>2. PICK q \in Nat : q = Cardinality(kept \cap A)
    BY <1>1
  <2>3. q + 0 = q
    OBVIOUS
  <2> QED BY <1>3, <2>1, <2>2, <2>3
<1> QED BY <1>2, <1>3

LEMMA CountSome ==
  ASSUME NEW kept, NEW c \in Nat, kept \subseteq 1..c, NEW A
  PROVE  Cardinality(kept \cap A) # 0 <=> kept \cap A # {}
<1>1. IsFiniteSet(kept \cap A)
  BY KeptFinite
<1> QED BY <1>1, FS_EmptySet

LEMMA NotOwnAncestor ==
  ASSUME NEW d, NEW n \in Nat, n >= 1
  PROVE  n \notin Anc(d, n)
<1> SUFFICES ASSUME n \in Anc(d, n) PROVE FALSE
  OBVIOUS
<1>1. n \in 1..(n - 1)
  BY AncIs
<1> QED BY <1>1

(* The reader leaves n at c for n2 at c2, and frees n unless something is  *)
(* preserved.                                                              *)
LeavesFor(d, pos, live, n, c, n2, c2) ==
  /\ PosAt(d, n2, c2) /\ c < c2 /\ c2 <= pos
  /\ n2 \in live /\ n2 # n /\ n \notin Anc(d, n2) /\ n \notin Opn(d, c2)
  /\ \A i \in (c + 1)..(c2 - 1) : ~Node(d, i)
  /\ Node(d, c2) => c2 \in Around(d, n2)
  /\ Around(d, n2) \ {c2} = Anc(d, n)

Frees(d, kept, P, n, live, P2, live2) ==
  /\ P2 = IF P > 0 /\ n \in kept THEN P - 1 ELSE P
  /\ live2 = IF P2 = 0 /\ n \notin KeptOf(d, kept) THEN Freed(d, live, n) ELSE live

LEMMA LeaveNode ==
  ASSUME NEW d, IsDoc(d), NEW n, NEW c, PosAt(d, n, c), NEW pos, NEW live, NEW kept, NEW held, NEW P,
         Tree(d, pos, live, c), Forest(d, pos, live, kept), n \in live,
         Memory(d, pos, live, kept, held, P, n, c),
         NEW n2, NEW c2, LeavesFor(d, pos, live, n, c, n2, c2),
         NEW P2, NEW live2, Frees(d, kept, P, n, live, P2, live2)
  PROVE  /\ Tree(d, pos, live2, c2) /\ Forest(d, pos, live2, kept) /\ n2 \in live2
         /\ Memory(d, pos, live2, kept, held, P2, n2, c2)
<1>a. /\ PosAt(d, n2, c2) /\ c < c2 /\ c2 <= pos
      /\ n2 \in live /\ n2 # n /\ n \notin Anc(d, n2) /\ n \notin Opn(d, c2)
      /\ \A i \in (c + 1)..(c2 - 1) : ~Node(d, i)
      /\ Node(d, c2) => c2 \in Around(d, n2)
      /\ Around(d, n2) \ {c2} = Anc(d, n)
  BY DEF LeavesFor
<1>b. /\ P2 = IF P > 0 /\ n \in kept THEN P - 1 ELSE P
      /\ live2 = IF P2 = 0 /\ n \notin KeptOf(d, kept) THEN Freed(d, live, n) ELSE live
  BY DEF Frees
<1>0. /\ c \in Nat /\ n \in Nat /\ n >= 1 /\ n <= c /\ Len(d) \in Nat
      /\ c2 \in Nat /\ n2 \in Nat /\ n2 >= 1 /\ n2 <= c2
  BY <1>a, PosIs
<1>1. pos \in Nat /\ pos <= Len(d) /\ \A x \in live : x \in Nat /\ x >= 1 /\ x <= pos /\ Node(d, x)
  BY <1>0 DEF Tree
<1>2. /\ kept \subseteq 1..c /\ held \subseteq kept /\ P \in Nat
      /\ \A h \in held : {m \in Below(d, h) : m <= pos} \subseteq live
      /\ P >= Cardinality(kept \cap Around(d, n)) /\ Level0(d, live, kept, P, n, c)
  BY DEF Memory
<1>3. c2 \notin kept
  BY <1>0, <1>2, <1>a
<1>4. kept \cap Around(d, n2) = kept \cap Anc(d, n)
  BY <1>3, <1>a
<1>5. PICK K2 \in Nat : K2 = Cardinality(kept \cap Anc(d, n)) /\ (K2 # 0 <=> kept \cap Anc(d, n) # {})
  BY <1>0, <1>2, KeptFinite, CountSome
<1>6. Cardinality(kept \cap Around(d, n)) = K2 + (IF n \in kept THEN 1 ELSE 0)
  <2>1. n \notin Anc(d, n)
    BY <1>0, NotOwnAncestor
  <2>2. Cardinality(kept \cap ({n} \cup Anc(d, n))) =
          Cardinality(kept \cap Anc(d, n)) + (IF n \in kept THEN 1 ELSE 0)
    BY <1>0, <1>2, <2>1, CountNode
  <2> QED BY <1>5, <2>2 DEF Around
<1>7. P2 \in Nat /\ P2 >= K2 /\ (P2 = K2 => P = Cardinality(kept \cap Around(d, n)))
  BY <1>2, <1>5, <1>6, <1>b
<1>8. Cardinality(kept \cap Around(d, n2)) = K2
  BY <1>4, <1>5
<1>9. live2 \subseteq live
  BY <1>b DEF Freed
<1>10. Forest(d, pos, live2, kept)
  BY <1>0, <1>b, FreedForest
<1>11. ASSUME NEW x \in live, x \notin live2
       PROVE P2 = 0 /\ n \notin KeptOf(d, kept) /\ (x = n \/ n \in Anc(d, x))
  BY <1>11, <1>b DEF Freed, Below
<1>12. n2 \in live2
  BY <1>11, <1>a
<1>13. ASSUME NEW m \in (c2 + 1)..pos, Node(d, m) PROVE m \in live2
  <2>1. m \in (c + 1)..pos
    BY <1>0, <1>1, <1>a
  <2>2. m \in live
    BY <1>13, <2>1 DEF Tree
  <2>3. m - 1 \in Nat /\ n <= c2 /\ c2 <= m - 1 /\ m # n
    BY <1>0, <1>1, <1>a
  <2>4. n \notin Anc(d, m)
    BY <1>0, <1>a, <2>3, OpenKept DEF Anc
  <2> QED BY <1>11, <2>2, <2>3, <2>4
<1>14. Tree(d, pos, live2, c2)
  BY <1>9, <1>13 DEF Tree
<1>15. ASSUME NEW h \in held, NEW m \in Below(d, h), m <= pos PROVE m \in live2
  <2>1. m \in live
    BY <1>2, <1>15
  <2>2. h \in kept /\ h \in Anc(d, m) /\ m \in Nat /\ m >= 1
    BY <1>2 DEF Below
  <2>3. SUFFICES ASSUME m \notin live2 PROVE FALSE
    OBVIOUS
  <2>4. P2 = 0 /\ n \notin KeptOf(d, kept) /\ (m = n \/ n \in Anc(d, m))
    BY <1>11, <2>1, <2>3
  <2>5. kept \cap Anc(d, n) = {}
    BY <1>5, <1>7, <2>4
  <2>6. h \notin Anc(d, n)
    BY <2>2, <2>5
  <2>7. n \in Anc(d, m) /\ h # n
    BY <2>2, <2>4, <2>6 DEF KeptOf
  <2>8. h \in 1..(m - 1) /\ n \in 1..(m - 1)
    BY <2>2, <2>7, AncIs
  <2>9. m - 1 \in Nat /\ h - 1 \in Nat /\ n - 1 \in Nat
    BY <2>2, <2>8
  <2>10. CASE h < n
    <3>1. h <= n - 1 /\ n - 1 <= m - 1
      BY <1>0, <2>2, <2>8, <2>10
    <3>2. h \in Opn(d, n - 1)
      BY <2>2, <2>9, <3>1, OpenKept DEF Anc
    <3> QED BY <2>6, <3>2 DEF Anc
  <2>11. CASE n < h
    <3>1. n <= h - 1 /\ h - 1 <= m - 1
      BY <1>0, <2>2, <2>8, <2>11
    <3>2. n \in Opn(d, h - 1)
      BY <2>7, <2>9, <3>1, OpenKept DEF Anc
    <3> QED BY <2>2, <2>4, <3>2 DEF KeptOf, Anc
  <2> QED BY <2>7, <2>8, <2>10, <2>11
<1>16. ASSUME P2 = K2, NEW x \in live2 PROVE x > c2 \/ x \in Around(d, n2) \/ Holds(d, kept, x)
  <2>1. x > c \/ x \in Around(d, n) \/ Holds(d, kept, x)
    BY <1>2, <1>7, <1>9, <1>16 DEF Level0
  <2>2. CASE x > c
    <3>1. x \in Nat /\ Node(d, x)
      BY <1>1, <1>9
    <3>2. x > c2 \/ x = c2
      <4>1. ~(x \in (c + 1)..(c2 - 1))
        BY <1>a, <3>1
      <4> QED BY <1>0, <2>2, <3>1, <4>1
    <3> QED BY <1>a, <3>1, <3>2
  <2>3. CASE x \in Anc(d, n)
    BY <1>a, <2>3
  <2>4. CASE x = n
    <3>1. CASE n \in KeptOf(d, kept)
      BY <2>4, <3>1 DEF Holds
    <3>2. CASE n \notin KeptOf(d, kept)
      <4>1. P2 # 0
        BY <1>b, <2>4, <3>2 DEF Freed
      <4>2. kept \cap Anc(d, n) # {}
        BY <1>5, <1>16, <4>1
      <4> QED BY <2>4, <4>2 DEF Holds
    <3> QED BY <3>1, <3>2
  <2> QED BY <2>1, <2>2, <2>3, <2>4 DEF Around
<1>17. Level0(d, live2, kept, P2, n2, c2)
  BY <1>8, <1>16 DEF Level0
<1>18. kept \subseteq 1..c2
  BY <1>0, <1>2, <1>a
<1> QED BY <1>2, <1>7, <1>8, <1>10, <1>12, <1>14, <1>15, <1>17, <1>18 DEF Memory

(* The reader goes down to the first child.                                *)
LEMMA EnterNode ==
  ASSUME NEW d, IsDoc(d), NEW n, PosAt(d, n, n), NEW pos, NEW live, NEW kept, NEW held, NEW P,
         Tree(d, pos, live, n), Memory(d, pos, live, kept, held, P, n, n),
         Par(d, n + 1) = n
  PROVE  /\ Tree(d, pos, live, n + 1)
         /\ Memory(d, pos, live, kept, held, P, n + 1, n + 1)
<1>0. n \in Nat /\ n >= 1 /\ n + 1 \in Nat /\ n + 1 >= 1
  BY PosIs
<1>1. pos \in Nat /\ \A x \in live : x \in Nat
  BY DEF Tree, IsDoc
<1>2. Anc(d, n + 1) = Around(d, n)
  <2>1. Anc(d, n + 1) = Anc(d, n) \cup {n}
    BY <1>0, ParIs
  <2> QED BY <2>1 DEF Around
<1>3. kept \subseteq 1..n /\ n + 1 \notin kept
  BY <1>0 DEF Memory
<1>4. kept \cap Around(d, n + 1) = kept \cap Around(d, n)
  BY <1>2, <1>3 DEF Around
<1>5. \A x \in live : x > n => x > n + 1 \/ x \in Around(d, n + 1)
  BY <1>0, <1>1 DEF Around
<1>6. Around(d, n) \subseteq Around(d, n + 1)
  BY <1>2 DEF Around
<1>7. Level0(d, live, kept, P, n + 1, n + 1)
  BY <1>4, <1>5, <1>6 DEF Level0, Memory
<1>8. kept \subseteq 1..(n + 1)
  BY <1>0, <1>3
<1>9. \A m \in ((n + 1) + 1)..pos : m \in (n + 1)..pos
  BY <1>0, <1>1
<1>10. Tree(d, pos, live, n + 1)
  BY <1>9 DEF Tree
<1> QED BY <1>4, <1>7, <1>8, <1>10 DEF Memory

(* The reader goes on to the end of an element without children.           *)
LEMMA EndNode ==
  ASSUME NEW d, IsDoc(d), NEW n, PosAt(d, n, n), NEW pos, NEW live, NEW kept, NEW held, NEW P,
         Tree(d, pos, live, n), Memory(d, pos, live, kept, held, P, n, n),
         d[n + 1] = "end"
  PROVE  /\ Tree(d, pos, live, n + 1)
         /\ Memory(d, pos, live, kept, held, P, n, n + 1)
<1>0. n \in Nat /\ n >= 1
  BY PosIs
<1>1. pos \in Nat /\ \A x \in live : x \in Nat /\ Node(d, x)
  BY DEF Tree, IsDoc
<1>2. ~Node(d, n + 1)
  BY DEF Node
<1>3. \A x \in live : x > n => x > n + 1
  BY <1>0, <1>1, <1>2
<1>4. Level0(d, live, kept, P, n, n + 1)
  BY <1>3 DEF Level0, Memory
<1>5. kept \subseteq 1..(n + 1)
  BY <1>0 DEF Memory
<1>6. \A m \in ((n + 1) + 1)..pos : m \in (n + 1)..pos
  BY <1>0, <1>1
<1>7. Tree(d, pos, live, n + 1)
  BY <1>6 DEF Tree
<1> QED BY <1>4, <1>5, <1>7 DEF Memory

(* The open elements of the parser are in the tree.                        *)
LEMMA OpenLive ==
  ASSUME NEW d, IsDoc(d), NEW n, NEW c, PosAt(d, n, c), NEW pos, NEW live, NEW kept, c <= pos,
         Tree(d, pos, live, c), Forest(d, pos, live, kept), n \in live
  PROVE  Opn(d, pos) \subseteq live
<1>0. c \in Nat /\ Opn(d, c) \subseteq Anc(d, n) \cup {n} /\ Len(d) \in Nat
  BY PosIs
<1>1. pos \in Nat
  BY <1>0 DEF Tree
<1>2. ASSUME NEW x \in Opn(d, pos) PROVE x \in live
  <2>1. x \in 1..pos /\ Node(d, x)
    BY <1>1, OpensTyped DEF Node
  <2>2. CASE x > c
    <3>1. x \in (c + 1)..pos
      BY <1>0, <1>1, <2>1, <2>2
    <3> QED BY <2>1, <3>1 DEF Tree
  <2>3. CASE x <= c
    <3>1. x \in Opn(d, c)
      BY <1>0, <1>1, <2>3, OpenKept
    <3> QED BY <1>0, <3>1 DEF Forest
  <2> QED BY <1>0, <2>1, <2>2, <2>3
<1> QED BY <1>2

(* The parser delivers more tokens.                                        *)
Delivered(d, pos, pos2, live) == live \cup {m \in (pos + 1)..pos2 : Node(d, m)}

LEMMA DeliverForest ==
  ASSUME NEW d, IsDoc(d), NEW pos, NEW live, NEW kept, Forest(d, pos, live, kept),
         Opn(d, pos) \subseteq live, NEW pos2 \in pos..Len(d)
  PROVE  Forest(d, pos2, Delivered(d, pos, pos2, live), kept)
<1>0. pos \in Nat /\ pos2 \in Nat /\ pos <= pos2 /\ pos2 <= Len(d) /\ Len(d) \in Nat
  BY DEF Forest, IsDoc
<1>1. ASSUME NEW x \in Delivered(d, pos, pos2, live), NEW y \in Anc(d, x)
      PROVE y \in Delivered(d, pos, pos2, live)
  <2>1. CASE x \in live
    BY <2>1 DEF Forest, Delivered
  <2>2. CASE x \notin live
    <3>1. x \in (pos + 1)..pos2
      BY <2>2 DEF Delivered
    <3>2. x \in Nat /\ x >= 1 /\ x - 1 \in Nat /\ pos <= x - 1
      BY <1>0, <3>1
    <3>3. y \in 1..(x - 1) /\ Node(d, y)
      BY <3>2, AncIs
    <3>4. CASE y > pos
      <4>1. y \in (pos + 1)..pos2
        BY <1>0, <3>1, <3>3, <3>4
      <4> QED BY <3>3, <4>1 DEF Delivered
    <3>5. CASE y <= pos
      <4>1. y \in Opn(d, pos)
        BY <1>0, <3>2, <3>5, OpenKept DEF Anc
      <4> QED BY <4>1 DEF Delivered
    <3> QED BY <1>0, <3>3, <3>4, <3>5
  <2> QED BY <2>1, <2>2
<1>2. ASSUME NEW x \in Delivered(d, pos, pos2, live) PROVE x \in 1..pos2 /\ Node(d, x)
  <2>1. CASE x \in live
    BY <1>0, <2>1 DEF Forest
  <2>2. CASE x \notin live
    BY <1>0, <2>2 DEF Delivered
  <2> QED BY <2>1, <2>2
<1>3. kept \subseteq Delivered(d, pos, pos2, live)
  BY DEF Forest, Delivered
<1>4. pos2 \in 0..Len(d)
  BY <1>0
<1> QED BY <1>1, <1>2, <1>3, <1>4 DEF Forest

LEMMA DeliverTree ==
  ASSUME NEW d, IsDoc(d), NEW pos, NEW live, NEW c \in Nat, Tree(d, pos, live, c),
         NEW pos2 \in pos..Len(d)
  PROVE  Tree(d, pos2, Delivered(d, pos, pos2, live), c)
<1>0. pos \in Nat /\ pos2 \in Nat /\ pos <= pos2 /\ pos2 <= Len(d) /\ Len(d) \in Nat
  BY DEF Tree, IsDoc
<1>1. ASSUME NEW x \in Delivered(d, pos, pos2, live) PROVE x \in 1..pos2 /\ Node(d, x)
  <2>1. CASE x \in live
    BY <1>0, <2>1 DEF Tree
  <2>2. CASE x \notin live
    BY <1>0, <2>2 DEF Delivered
  <2> QED BY <2>1, <2>2
<1>2. ASSUME NEW x \in (c + 1)..pos2, Node(d, x) PROVE x \in Delivered(d, pos, pos2, live)
  <2>1. CASE x <= pos
    <3>1. x \in (c + 1)..pos
      BY <1>0, <2>1
    <3> QED BY <1>2, <3>1 DEF Tree, Delivered
  <2>2. CASE x > pos
    <3>1. x \in (pos + 1)..pos2
      BY <1>0, <2>2
    <3> QED BY <1>2, <3>1 DEF Delivered
  <2> QED BY <1>0, <2>1, <2>2
<1>3. pos2 \in 0..Len(d)
  BY <1>0
<1> QED BY <1>1, <1>2, <1>3 DEF Tree

LEMMA DeliverMemory ==
  ASSUME NEW d, IsDoc(d), NEW pos, NEW live, NEW kept, NEW held, NEW P, NEW n, NEW c \in Nat, c <= pos,
         Tree(d, pos, live, c), Memory(d, pos, live, kept, held, P, n, c),
         NEW pos2 \in pos..Len(d)
  PROVE  Memory(d, pos2, Delivered(d, pos, pos2, live), kept, held, P, n, c)
<1>0. pos \in Nat /\ pos2 \in Nat /\ pos <= pos2 /\ pos2 <= Len(d) /\ Len(d) \in Nat
  BY DEF Tree, IsDoc
<1>1. ASSUME NEW h \in held, NEW m \in Below(d, h), m <= pos2
      PROVE m \in Delivered(d, pos, pos2, live)
  <2>1. m \in Nat /\ Node(d, m)
    BY <1>0 DEF Below
  <2>2. CASE m <= pos
    BY <2>2 DEF Memory, Delivered
  <2>3. CASE m > pos
    <3>1. m \in (pos + 1)..pos2
      BY <1>0, <1>1, <2>1, <2>3
    <3> QED BY <2>1, <3>1 DEF Delivered
  <2> QED BY <1>0, <2>1, <2>2, <2>3
<1>2. \A x \in Delivered(d, pos, pos2, live) : x \in live \/ x > c
  BY <1>0 DEF Delivered
<1>3. Level0(d, Delivered(d, pos, pos2, live), kept, P, n, c)
  BY <1>2 DEF Memory, Level0
<1> QED BY <1>1, <1>3 DEF Memory

(* The application preserves the node the reader stands at.                *)
LEMMA PreserveNode ==
  ASSUME NEW d, IsDoc(d), NEW pos, NEW live, NEW kept, NEW held, NEW P, NEW n, NEW c, PosAt(d, n, c),
         Tree(d, pos, live, c), Forest(d, pos, live, kept), n \in live,
         Memory(d, pos, live, kept, held, P, n, c),
         NEW held2, held2 = held \/ (c = n /\ held2 = held \cup {n})
  PROVE  /\ Forest(d, pos, live, kept \cup {n})
         /\ Memory(d, pos, live, kept \cup {n}, held2, P + 1, n, c)
<1>0. c \in Nat /\ n \in Nat /\ n >= 1 /\ n <= c
  BY PosIs
<1>1. Forest(d, pos, live, kept \cup {n})
  BY DEF Forest
<1>2. PICK k2 : k2 = kept \cup {n}
  OBVIOUS
<1>3. kept \subseteq 1..c /\ P \in Nat /\ P >= Cardinality(kept \cap Around(d, n))
  BY DEF Memory
<1>4. k2 \subseteq 1..c /\ held2 \subseteq k2
  <2>1. n \in 1..c
    BY <1>0
  <2>2. held \subseteq kept
    BY DEF Memory
  <2> QED BY <1>2, <1>3, <2>1, <2>2
<1>5. ASSUME NEW h \in held2, NEW m \in Below(d, h), m <= pos PROVE m \in live
  <2>1. CASE h \in held
    BY <1>5, <2>1 DEF Memory
  <2>2. CASE h \notin held
    <3>1. h = n /\ c = n
      BY <2>2
    <3>2. m \in Nat /\ m >= 1 /\ Node(d, m) /\ n \in Anc(d, m)
      BY <3>1 DEF Below
    <3>3. n \in 1..(m - 1)
      BY <3>2, AncIs
    <3>4. pos \in Nat
      BY DEF Tree, IsDoc
    <3>5. m \in (c + 1)..pos
      BY <1>5, <3>1, <3>2, <3>3, <3>4
    <3> QED BY <3>2, <3>5 DEF Tree
  <2> QED BY <2>1, <2>2
<1>6. PICK K \in Nat : K = Cardinality(kept \cap Anc(d, n))
  BY <1>0, <1>3, KeptFinite
<1>7. k2 \cap Anc(d, n) = kept \cap Anc(d, n)
  BY <1>0, <1>2, NotOwnAncestor
<1>8. Cardinality(kept \cap Around(d, n)) = K + (IF n \in kept THEN 1 ELSE 0)
  <2>1. n \notin Anc(d, n)
    BY <1>0, NotOwnAncestor
  <2>2. Cardinality(kept \cap ({n} \cup Anc(d, n))) =
          Cardinality(kept \cap Anc(d, n)) + (IF n \in kept THEN 1 ELSE 0)
    BY <1>0, <1>3, <2>1, CountNode
  <2> QED BY <1>6, <2>2 DEF Around
<1>9. Cardinality(k2 \cap Around(d, n)) = K + 1
  <2>1. n \in k2 /\ n \notin Anc(d, n)
    BY <1>0, <1>2, NotOwnAncestor
  <2>2. Cardinality(k2 \cap ({n} \cup Anc(d, n))) =
           Cardinality(k2 \cap Anc(d, n)) + (IF n \in k2 THEN 1 ELSE 0)
    BY <1>0, <1>4, <2>1, CountNode
  <2> QED BY <1>6, <1>7, <2>1, <2>2 DEF Around
<1>10. P + 1 = K + 1 => P = Cardinality(kept \cap Around(d, n))
  BY <1>3, <1>6, <1>8
<1>11. \A x : Holds(d, kept, x) => Holds(d, k2, x)
  BY <1>2 DEF Holds, KeptOf
<1>12. Level0(d, live, k2, P + 1, n, c)
  BY <1>9, <1>10, <1>11 DEF Level0, Memory
<1>13. P + 1 \in Nat /\ P + 1 >= K + 1
  BY <1>3, <1>6, <1>8
<1>14. Memory(d, pos, live, k2, held2, P + 1, n, c)
  BY <1>4, <1>5, <1>9, <1>12, <1>13 DEF Memory
<1> QED BY <1>1, <1>2, <1>14

-----------------------------------------------------------------------------
(* The events of a document, in order.                                     *)
Pieces(d, n, pos) == Cardinality({i \in n..pos : \A j \in n..i : d[j] = "text"})

EventAt(d, i) ==
  LET n == IF d[i] = "end" THEN RdTop(RdOpenIn(d, i - 1)) ELSE i
  IN  <<n, d[i] = "end", Len(RdOpenIn(d, n - 1)),
        IF d[n] = "text" THEN Pieces(d, n, Len(d)) ELSE 0>>

Count(d, i) == Cardinality({j \in 1..i : Event(d, j)})

IsEventRun(f) ==
  f = [i \in 0..Len(rdDoc) |->
         IF i = 0 THEN <<>>
         ELSE IF RdNodeAt(i) \/ rdDoc[i] = "end" THEN Append(f[i - 1], RdEventAt(i))
         ELSE f[i - 1]]

EventStep(d, s, i) == IF Event(d, i) THEN Append(s, EventAt(d, i)) ELSE s

LEMMA CountStep ==
  ASSUME NEW d, NEW i \in Nat
  PROVE  /\ Count(d, 0) = 0 /\ Count(d, i) \in Nat
         /\ Count(d, i + 1) = IF Event(d, i + 1) THEN Count(d, i) + 1 ELSE Count(d, i)
<1> DEFINE S(k) == {j \in 1..k : Event(d, j)}
<1>1. IsFiniteSet(S(i)) /\ Cardinality(S(i)) \in Nat
  <2>1. IsFiniteSet(1..i) /\ S(i) \subseteq 1..i
    BY FS_Interval
  <2>2. IsFiniteSet(S(i))
    BY <2>1, FS_Subset
  <2> QED BY <2>2, FS_CardinalityType
<1>2. S(0) = {}
  OBVIOUS
<1>3. i + 1 \notin S(i)
  OBVIOUS
<1>4. S(i + 1) = IF Event(d, i + 1) THEN S(i) \cup {i + 1} ELSE S(i)
  <2>1. \A j : j \in 1..(i + 1) <=> (j \in 1..i \/ j = i + 1)
    OBVIOUS
  <2> QED BY <2>1
<1>5. Count(d, 0) = 0 /\ Count(d, i) = Cardinality(S(i)) /\ Count(d, i + 1) = Cardinality(S(i + 1))
  BY <1>2, FS_EmptySet DEF Count
<1> HIDE DEF S
<1>6. Cardinality(S(i) \cup {i + 1}) = Cardinality(S(i)) + 1
  BY <1>1, <1>3, FS_AddElement
<1> QED BY <1>1, <1>4, <1>5, <1>6

LEMMA CountQuiet ==
  ASSUME NEW d, NEW a \in Nat, NEW b \in Nat, a <= b, \A i \in (a + 1)..b : ~Event(d, i)
  PROVE  Count(d, b) = Count(d, a)
<1>1. {j \in 1..b : Event(d, j)} = {j \in 1..a : Event(d, j)}
  <2>1. \A j \in 1..b : j \in 1..a \/ j \in (a + 1)..b
    OBVIOUS
  <2>2. \A j \in 1..a : j \in 1..b
    OBVIOUS
  <2> QED BY <2>1, <2>2
<1> QED BY <1>1 DEF Count

LEMMA CountNext ==
  ASSUME NEW d, NEW a \in Nat, NEW e \in Nat, a < e, Event(d, e),
         \A i \in (a + 1)..(e - 1) : ~Event(d, i)
  PROVE  Count(d, e) = Count(d, a) + 1
<1>1. PICK b \in Nat : b = e - 1 /\ b + 1 = e /\ a <= b
  OBVIOUS
<1>2. Count(d, b) = Count(d, a)
  BY <1>1, CountQuiet
<1> QED BY <1>1, <1>2, CountStep

LEMMA SameNode ==
  ASSUME NEW i
  PROVE  /\ RdNodeAt(i) <=> Node(rdDoc, i)
         /\ (RdNodeAt(i) \/ rdDoc[i] = "end") <=> Event(rdDoc, i)
         /\ RdEventAt(i) = EventAt(rdDoc, i)
<1>1. RdNodeAt(i) <=> Node(rdDoc, i)
  BY DEF RdNodeAt, Node
<1>2. RdEventAt(i) = EventAt(rdDoc, i)
  BY Zenon DEF RdEventAt, EventAt, RdOpen, RdPieces, Pieces
<1> QED BY <1>1, <1>2 DEF Event

LEMMA EventRunSteps ==
  ASSUME NEW f, Len(rdDoc) \in Nat, IsEventRun(f)
  PROVE  /\ f[0] = <<>>
         /\ \A i \in 1..Len(rdDoc) : f[i] = EventStep(rdDoc, f[i - 1], i)
<1> DEFINE G(i) == IF i = 0 THEN <<>>
                   ELSE IF RdNodeAt(i) \/ rdDoc[i] = "end" THEN Append(f[i - 1], RdEventAt(i))
                   ELSE f[i - 1]
<1>1. f = [i \in 0..Len(rdDoc) |-> G(i)]
  BY Zenon DEF IsEventRun
<1> HIDE DEF G
<1>2. \A i \in 0..Len(rdDoc) : f[i] = G(i)
  BY <1>1
<1>3. G(0) = <<>>
  BY DEF G
<1>4. ASSUME NEW i \in 1..Len(rdDoc) PROVE G(i) = EventStep(rdDoc, f[i - 1], i)
  <2>1. i # 0
    OBVIOUS
  <2> QED BY <2>1, SameNode DEF G, EventStep
<1> QED BY <1>2, <1>3, <1>4

LEMMA EventRunIs ==
  ASSUME NEW g, NEW X, Len(rdDoc) \in Nat, g \in [0..Len(rdDoc) -> X], g[0] = <<>>,
         \A i \in 1..Len(rdDoc) : g[i] = EventStep(rdDoc, g[i - 1], i)
  PROVE  IsEventRun(g)
<1> DEFINE G(i) == IF i = 0 THEN <<>>
                   ELSE IF RdNodeAt(i) \/ rdDoc[i] = "end" THEN Append(g[i - 1], RdEventAt(i))
                   ELSE g[i - 1]
<1>1. ASSUME NEW i \in 0..Len(rdDoc) PROVE g[i] = G(i)
  <2>1. CASE i = 0
    BY <2>1
  <2>2. CASE i # 0
    <3>1. g[i] = EventStep(rdDoc, g[i - 1], i)
      BY <2>2
    <3>2. G(i) = IF RdNodeAt(i) \/ rdDoc[i] = "end" THEN Append(g[i - 1], RdEventAt(i)) ELSE g[i - 1]
      BY <2>2
    <3> HIDE DEF G
    <3> QED BY <3>1, <3>2, SameNode DEF EventStep
  <2> QED BY <2>1, <2>2
<1> HIDE DEF G
<1>2. g = [i \in 0..Len(rdDoc) |-> G(i)]
  BY <1>1
<1> QED BY <1>2, Zenon DEF IsEventRun, G

LEMMA EventRunExists ==
  ASSUME Len(rdDoc) \in Nat
  PROVE  \E f : IsEventRun(f)
<1>1. PICK N \in Nat : N = Len(rdDoc)
  OBVIOUS
<1> DEFINE X == {EventAt(rdDoc, i) : i \in Nat}
           F == [x \in Nat \X Seq(X) |-> EventStep(rdDoc, x[2], x[1])]
<1>2. \A i \in Nat, s \in Seq(X) : F[<<i, s>>] = EventStep(rdDoc, s, i)
  OBVIOUS
<1>3. \A i \in Nat, s \in Seq(X) : EventStep(rdDoc, s, i) \in Seq(X)
  <2>1. ASSUME NEW i \in Nat, NEW s \in Seq(X) PROVE EventStep(rdDoc, s, i) \in Seq(X)
    <3>1. EventAt(rdDoc, i) \in X
      OBVIOUS
    <3> HIDE DEF X
    <3>2. Append(s, EventAt(rdDoc, i)) \in Seq(X)
      BY <3>1
    <3> QED BY <3>2 DEF EventStep
  <2> QED BY <2>1
<1> HIDE DEF X, F
<1>4. PICK g : IsRun(g, <<>>, F, N)
  BY RunExists
<1>5. DOMAIN g = 0..N /\ g[0] = <<>> /\ \A i \in 1..N : g[i] = F[<<i, g[i - 1]>>]
  BY <1>4 DEF IsRun
<1> DEFINE P == {i \in Nat : i <= N => g[i] \in Seq(X)}
<1>6. 0 \in P
  <2>1. g[0] \in Seq(X)
    BY <1>5
  <2> QED BY <2>1
<1>7. ASSUME NEW i \in Nat, i \in P PROVE i + 1 \in P
  <2> SUFFICES ASSUME i + 1 <= N PROVE g[i + 1] \in Seq(X)
    OBVIOUS
  <2>1. g[i] \in Seq(X)
    BY <1>7
  <2>2. i + 1 \in 1..N /\ (i + 1) - 1 = i /\ i + 1 \in Nat
    OBVIOUS
  <2>3. g[i + 1] = EventStep(rdDoc, g[i], i + 1)
    BY <1>2, <1>5, <2>1, <2>2
  <2> QED BY <1>3, <2>1, <2>2, <2>3
<1>8. \A i \in Nat : i \in P
  <2> HIDE DEF P
  <2> QED BY <1>6, <1>7, Induct
<1>9. ASSUME NEW i \in 1..N PROVE g[i] = EventStep(rdDoc, g[i - 1], i)
  <2>1. i - 1 \in Nat /\ i - 1 <= N /\ i \in Nat
    OBVIOUS
  <2>2. g[i - 1] \in Seq(X)
    BY <1>8, <2>1
  <2> QED BY <1>2, <1>5, <2>1, <2>2
<1> DEFINE h == [i \in 0..N |-> g[i]]
<1>10. \A i \in 0..N : g[i] \in Seq(X)
  BY <1>8
<1>11. h \in [0..N -> Seq(X)] /\ h[0] = <<>>
  BY <1>5, <1>10
<1>12. ASSUME NEW i \in 1..N PROVE h[i] = EventStep(rdDoc, h[i - 1], i)
  <2>1. i \in 0..N /\ i - 1 \in 0..N
    OBVIOUS
  <2>2. h[i] = g[i] /\ h[i - 1] = g[i - 1]
    BY <2>1
  <2> HIDE DEF h
  <2> QED BY <1>9, <2>2
<1> HIDE DEF h
<1>13. IsEventRun(h)
  BY <1>1, <1>11, <1>12, EventRunIs
<1> QED BY <1>13

(* The event of token j is the Count(j)-th.                                *)
LEMMA EventsAre ==
  ASSUME IsDoc(rdDoc)
  PROVE  /\ Len(RdEvents) = Count(rdDoc, Len(rdDoc))
         /\ \A j \in 1..Len(rdDoc) : Event(rdDoc, j) =>
              Count(rdDoc, j) \in 1..Len(RdEvents) /\ RdEvents[Count(rdDoc, j)] = EventAt(rdDoc, j)
<1>0. PICK d : d = rdDoc
  OBVIOUS
<1>00. PICK N \in Nat : N = Len(rdDoc)
  BY DEF IsDoc
<1>1. PICK f : IsEventRun(f) /\ RdEvents = f[N]
  <2>1. RdEvents = (CHOOSE f : IsEventRun(f))[N]
    BY <1>00, Zenon DEF RdEvents, IsEventRun
  <2>2. IsEventRun(CHOOSE f : IsEventRun(f))
    BY <1>00, EventRunExists, Zenon
  <2> QED BY <2>1, <2>2
<1>2. f[0] = <<>> /\ \A i \in 1..N : f[i] = EventStep(d, f[i - 1], i)
  BY <1>0, <1>00, <1>1, EventRunSteps
<1> DEFINE X == {EventAt(d, i) : i \in Nat}
           Q(i) == /\ f[i] \in Seq(X) /\ Len(f[i]) = Count(d, i)
                   /\ \A j \in 1..i : Event(d, j) =>
                        Count(d, j) \in 1..Len(f[i]) /\ f[i][Count(d, j)] = EventAt(d, j)
           P == {i \in Nat : i <= N => Q(i)}
<1>3. 0 \in P
  <2>1. f[0] \in Seq(X) /\ Len(f[0]) = 0
    BY <1>2
  <2>2. Count(d, 0) = 0
    BY CountStep
  <2> QED BY <2>1, <2>2
<1>4. ASSUME NEW i \in Nat, i \in P PROVE i + 1 \in P
  <2> SUFFICES ASSUME i + 1 <= N PROVE Q(i + 1)
    OBVIOUS
  <2>1. Q(i)
    BY <1>4
  <2>2. i + 1 \in 1..N /\ (i + 1) - 1 = i /\ i + 1 \in Nat
    OBVIOUS
  <2>3. f[i + 1] = EventStep(d, f[i], i + 1)
    BY <1>2, <2>2
  <2>4. Count(d, i) \in Nat /\ Count(d, i + 1) = IF Event(d, i + 1) THEN Count(d, i) + 1 ELSE Count(d, i)
    BY CountStep
  <2>5. EventAt(d, i + 1) \in X
    BY <2>2
  <2>6. PICK s \in Seq(X) : s = f[i]
    BY <2>1
  <2>7. \A j \in 1..(i + 1) : j \in 1..i \/ j = i + 1
    OBVIOUS
  <2> HIDE DEF X
  <2>8. CASE Event(d, i + 1)
    <3>1. f[i + 1] = Append(s, EventAt(d, i + 1))
      BY <2>3, <2>6, <2>8 DEF EventStep
    <3>2. PICK t : t = Append(s, EventAt(d, i + 1))
      OBVIOUS
    <3>3. /\ t \in Seq(X) /\ Len(t) = Len(s) + 1
          /\ \A k \in 1..Len(s) : t[k] = s[k]
          /\ t[Len(s) + 1] = EventAt(d, i + 1)
      BY <2>5, <2>6, <3>2, AppendProperties
    <3>4. Len(s) = Count(d, i) /\ Len(s) \in Nat /\ Count(d, i + 1) = Len(s) + 1
      BY <2>1, <2>4, <2>6, <2>8
    <3>5. ASSUME NEW j \in 1..(i + 1), Event(d, j)
          PROVE Count(d, j) \in 1..Len(t) /\ t[Count(d, j)] = EventAt(d, j)
      <4>1. CASE j \in 1..i
        <5>1. Count(d, j) \in 1..Len(s) /\ s[Count(d, j)] = EventAt(d, j)
          BY <2>1, <2>6, <3>5, <4>1
        <5>2. Count(d, j) \in 1..Len(t)
          BY <3>3, <3>4, <5>1
        <5> QED BY <3>3, <5>1, <5>2
      <4>2. CASE j = i + 1
        <5>1. Len(s) + 1 \in 1..Len(t)
          BY <3>3, <3>4
        <5> QED BY <3>3, <3>4, <4>2, <5>1
      <4> QED BY <2>7, <4>1, <4>2
    <3> QED BY <3>1, <3>2, <3>3, <3>4, <3>5
  <2>9. CASE ~Event(d, i + 1)
    <3>1. f[i + 1] = f[i]
      BY <2>3, <2>9 DEF EventStep
    <3> QED BY <2>1, <2>4, <2>7, <2>9, <3>1
  <2> QED BY <2>8, <2>9
<1>5. \A i \in Nat : i \in P
  <2> HIDE DEF P
  <2> QED BY <1>3, <1>4, Induct
<1>6. Q(N)
  BY <1>5
<1> QED BY <1>0, <1>00, <1>1, <1>6

-----------------------------------------------------------------------------
(* Text is complete once something else has come, or everything.           *)
LEMMA TextDone ==
  ASSUME NEW d, NEW n \in Nat, NEW pos \in Nat, Len(d) \in Nat, pos <= Len(d),
         pos = Len(d) \/ \E t \in n..pos : d[t] # "text"
  PROVE  Pieces(d, n, pos) = Pieces(d, n, Len(d))
<1>1. CASE pos = Len(d)
  BY <1>1
<1>2. CASE \E t \in n..pos : d[t] # "text"
  <2>1. PICK t \in n..pos : d[t] # "text"
    BY <1>2
  <2>2. \A i \in n..Len(d) : (\A j \in n..i : d[j] = "text") => i \in n..pos
    <3>1. ASSUME NEW i \in n..Len(d), \A j \in n..i : d[j] = "text" PROVE i \in n..pos
      <4>1. t \notin n..i
        BY <2>1, <3>1
      <4> QED BY <4>1
    <3> QED BY <3>1
  <2>3. \A i \in n..pos : i \in n..Len(d)
    OBVIOUS
  <2>4. {i \in n..pos : \A j \in n..i : d[j] = "text"} = {i \in n..Len(d) : \A j \in n..i : d[j] = "text"}
    BY <2>2, <2>3
  <2> QED BY <2>4 DEF Pieces
<1> QED BY <1>1, <1>2

LEMMA TextBefore ==
  ASSUME NEW d, NEW n \in Nat, n >= 1, NEW pos \in Nat, NEW m \in Nat, Node(d, m), m > n, m <= pos
  PROVE  \E t \in n..pos : d[t] # "text"
<1>1. CASE d[m] # "text"
  <2>1. m \in n..pos
    OBVIOUS
  <2> QED BY <1>1, <2>1
<1>2. CASE d[m] = "text"
  <2>1. m - 1 \in n..pos /\ m > 1
    OBVIOUS
  <2>2. d[m - 1] # "text"
    BY <1>2, <2>1 DEF Node
  <2> QED BY <2>1, <2>2
<1> QED BY <1>1, <1>2

LEMMA TextLeft ==
  ASSUME NEW d, IsDoc(d), NEW n \in Nat, n >= 1, NEW pos \in Nat, n <= pos, pos <= Len(d),
         RdOpenIn(d, pos) # RdOpenIn(d, n - 1)
  PROVE  \E t \in n..pos : d[t] # "text"
<1> SUFFICES ASSUME \A t \in n..pos : d[t] = "text" PROVE FALSE
  OBVIOUS
<1>1. ASSUME NEW i \in (n + 1)..pos PROVE ~Event(d, i)
  <2>1. i \in n..pos /\ i - 1 \in n..pos /\ i > 1
    OBVIOUS
  <2>2. d[i] = "text" /\ d[i - 1] = "text"
    BY <2>1
  <2> QED BY <2>1, <2>2 DEF Event, Node
<1>2. RdOpenIn(d, pos) = RdOpenIn(d, n)
  BY <1>1, QuietSame
<1>3. d[n] = "text"
  OBVIOUS
<1>4. RdOpenIn(d, n) = RdOpenIn(d, n - 1)
  BY <1>3, LeafSame
<1> QED BY <1>2, <1>4

(* A sibling of a node or of an ancestor, after it, comes after the node.  *)
LEMMA SuccessorAfter ==
  ASSUME NEW d, NEW n \in Nat, n >= 1, NEW a \in Around(d, n), NEW m \in Nat, m > a,
         Par(d, m) = Par(d, a)
  PROVE  m > n
<1>1. CASE a = n
  BY <1>1
<1>2. CASE a \in Anc(d, n)
  <2>1. a \in 1..(n - 1)
    BY <1>2, AncIs
  <2> SUFFICES ASSUME m <= n PROVE FALSE
    BY <2>1
  <2>2. m - 1 \in Nat /\ n - 1 \in Nat /\ a <= m - 1 /\ m - 1 <= n - 1 /\ m >= 1 /\ a \in Nat /\ a >= 1
    BY <2>1
  <2>3. a \in Anc(d, m)
    BY <1>2, <2>2, OpenKept DEF Anc
  <2>4. Par(d, m) # 0 /\ a <= Par(d, m)
    BY <2>2, <2>3, ParIs
  <2>5. Par(d, a) \in 0..(a - 1)
    BY <2>2, ParIs
  <2> QED BY <2>2, <2>4, <2>5
<1> QED BY <1>1, <1>2 DEF Around

(* What the reader reports is the event it stands at.                      *)
LEMMA ReportIs ==
  ASSUME NEW d, IsDoc(d), NEW n, NEW c, NEW st, At(d, n, c, st), st # "ERROR", NEW pos,
         d[n] = "text" => Pieces(d, n, pos) = Pieces(d, n, Len(d))
  PROVE  <<n, d[n] \in RdElements /\ st \in {"END", "BACKTRACK"}, Len(RdOpenIn(d, n - 1)),
           IF d[n] = "text" THEN Pieces(d, n, pos) ELSE 0>> = EventAt(d, c)
<1>0. PosAt(d, n, c)
  BY DEF At
<1>1. CASE c = n
  <2>1. Node(d, n)
    BY <1>0, PosIs
  <2>2. d[c] # "end"
    BY <1>1, <2>1 DEF Node
  <2>3. EventAt(d, c) = <<n, FALSE, Len(RdOpenIn(d, n - 1)),
                          IF d[n] = "text" THEN Pieces(d, n, Len(d)) ELSE 0>>
    BY <1>1, <2>2 DEF EventAt
  <2>4. ~(st \in {"END", "BACKTRACK"})
    BY <1>1 DEF At
  <2>5. (IF d[n] = "text" THEN Pieces(d, n, pos) ELSE 0) = IF d[n] = "text" THEN Pieces(d, n, Len(d)) ELSE 0
    OBVIOUS
  <2>6. (d[n] \in RdElements /\ st \in {"END", "BACKTRACK"}) = FALSE
    BY <2>4
  <2> QED BY <2>3, <2>5, <2>6
<1>2. CASE c # n
  <2>1. d[n] = "start" /\ d[c] = "end" /\ n = RdTop(RdOpenIn(d, c - 1))
    BY <1>0, <1>2, PosIs
  <2>2. d[n] # "text" /\ d[n] \in RdElements
    BY <2>1 DEF RdElements
  <2>3. EventAt(d, c) = <<n, TRUE, Len(RdOpenIn(d, n - 1)), 0>>
    BY <2>1, <2>2 DEF EventAt
  <2>4. st \in {"END", "BACKTRACK"}
    BY <1>2, <2>1 DEF At
  <2>5. (d[n] \in RdElements /\ st \in {"END", "BACKTRACK"}) = TRUE
    BY <2>2, <2>4
  <2> QED BY <2>2, <2>3, <2>5
<1> QED BY <1>1, <1>2

-----------------------------------------------------------------------------
(* The inductive invariant.                                                *)
RdStates == {"NONE", "ELEMENT", "END", "BACKTRACK", "DONE", "ERROR"}
RdModes == {"INITIAL", "INTERACTIVE", "EOF", "ERROR"}

Readers == [node : Nat, state : RdStates, mode : RdModes, depth : Int, preserves : Nat]
Calls == [at : {"idle", "read", "initial", "begin", "fill", "found", "text", "expand"},
          oldstate : RdStates \cup {""}, olddepth : Nat, oldnode : Nat, next : Nat]

Common(d, pos, live, kept, r, k, expanded) ==
  /\ IsDoc(d) /\ Forest(d, pos, live, kept)
  /\ r \in Readers /\ k \in Calls /\ expanded \in BOOLEAN
  /\ r.node \in live \cup {0}
  /\ r.state = "ERROR" <=> r.mode = "ERROR"
  /\ r.mode = "ERROR" => k.at = "idle"
  /\ r.mode = "EOF" => pos = Len(d)
  /\ expanded => pos = Len(d) /\ r.mode \in {"EOF", "ERROR"}

(* Before the first node: nothing has gone.                                *)
Starting(d, pos, live, kept, r, k, seen, missed, expanded, held) ==
  /\ r.node = 0 /\ r.preserves = 0 /\ ~expanded /\ Tree(d, pos, live, 0)
  /\ kept = {} /\ held = {} /\ seen = 0 /\ missed = {}
  /\ \/ k.at = "idle" /\ r.mode \in {"INITIAL", "ERROR"}
     \/ k.at \in {"initial", "begin"} /\ r.mode \in {"INTERACTIVE", "EOF"}
  /\ k.at = "begin" => pos >= 1

StateOf(r, k) == IF k.at = "fill" THEN k.oldstate ELSE r.state

(* The reader stands at token c, and has reported what comes before.       *)
Walking(d, pos, live, kept, r, k, seen, held, c) ==
  /\ c \in 1..pos
  /\ At(d, r.node, c, StateOf(r, k))
  /\ r.depth = Len(RdOpenIn(d, r.node - 1))
  /\ Tree(d, pos, live, c)
  /\ Memory(d, pos, live, kept, held, r.preserves, r.node, c)
  /\ r.state # "ERROR" => seen = Count(d, c) - (IF k.at \in {"found", "text"} THEN 1 ELSE 0)
  /\ k.at = "fill" => /\ \E q \in c..pos : k.olddepth = Len(RdOpenIn(d, q))
                      /\ k.oldnode = r.node /\ k.oldstate # "ERROR"
  /\ k.at = "text" => d[r.node] = "text"

Reading(d, pos, live, kept, r, k, seen, missed, expanded, held) ==
  /\ r.node # 0 /\ r.mode # "INITIAL" /\ k.at \notin {"initial", "begin"}
  /\ expanded \/ (missed = {} /\ \E c : Walking(d, pos, live, kept, r, k, seen, held, c))

Over(d, pos, live, r, k, missed, expanded, held) ==
  /\ r.node = 0 /\ pos = Len(d) /\ k.at = "idle" /\ r.mode # "INITIAL"
  /\ expanded \/ (missed = {} /\ \A h \in held : {m \in Below(d, h) : m <= pos} \subseteq live)

Inv(d, pos, live, kept, r, k, seen, missed, expanded, held) ==
  /\ Common(d, pos, live, kept, r, k, expanded)
  /\ \/ Starting(d, pos, live, kept, r, k, seen, missed, expanded, held)
     \/ Reading(d, pos, live, kept, r, k, seen, missed, expanded, held)
     \/ Over(d, pos, live, r, k, missed, expanded, held)

RdInv == Inv(rdDoc, rdPos, rdLive, rdSKept, reader, rdCall, rdSeen, rdMissed, rdExpanded, rdHeld)

(* The model's operators on the tree.                                      *)
LEMMA SameTree ==
  ASSUME NEW n
  PROVE  /\ RdParent(n) = Par(rdDoc, n) /\ RdAncestors(n) = Anc(rdDoc, n)
         /\ RdBelow(n) = Below(rdDoc, n)
         /\ RdChildren(n) = Kids(rdDoc, rdLive, n)
         /\ RdNext(n) = RdFirst(Later(rdDoc, rdLive, n))
         /\ RdOpen(n) = RdOpenIn(rdDoc, n)
         /\ \A live : RdFreed(live, n) = Freed(rdDoc, live, n)
<1>1. \A x : RdParent(x) = Par(rdDoc, x) /\ RdAncestors(x) = Anc(rdDoc, x)
  BY Zenon DEF RdParent, Par, RdOpen, RdAncestors, Anc, Opn
<1>2. RdBelow(n) = Below(rdDoc, n)
  BY <1>1, SameNode DEF RdBelow, Below
<1>3. RdChildren(n) = Kids(rdDoc, rdLive, n)
  BY <1>1 DEF RdChildren, Kids
<1>4. {m \in RdSiblings(n) : m > n} = Later(rdDoc, rdLive, n)
  BY <1>1 DEF RdSiblings, Later
<1>5. RdNext(n) = RdFirst(Later(rdDoc, rdLive, n))
  BY <1>4 DEF RdNext
<1>6. RdOpen(n) = RdOpenIn(rdDoc, n)
  BY DEF RdOpen
<1>7. \A live : RdFreed(live, n) = Freed(rdDoc, live, n)
  BY <1>2 DEF RdFreed, Freed
<1> QED BY <1>1, <1>2, <1>3, <1>5, <1>6, <1>7

LEMMA SameKept == rdKept = KeptOf(rdDoc, rdSKept)
<1>1. \A x : RdAncestors(x) = Anc(rdDoc, x)
  BY SameTree
<1> QED BY <1>1 DEF rdKept, KeptOf

(* Where the reader is follows from where its call is.                     *)
LEMMA Phases ==
  ASSUME RdInv
  PROVE  /\ Common(rdDoc, rdPos, rdLive, rdSKept, reader, rdCall, rdExpanded)
         /\ reader.node # 0 \/ rdCall.at \in {"read", "fill", "found", "text", "expand"} =>
              Reading(rdDoc, rdPos, rdLive, rdSKept, reader, rdCall, rdSeen, rdMissed, rdExpanded, rdHeld)
         /\ reader.mode = "INITIAL" \/ rdCall.at \in {"initial", "begin"} =>
              Starting(rdDoc, rdPos, rdLive, rdSKept, reader, rdCall, rdSeen, rdMissed, rdExpanded, rdHeld)
BY DEF RdInv, Inv, Reading, Starting, Over

LEMMA InvReading ==
  ASSUME Common(rdDoc', rdPos', rdLive', rdSKept', reader', rdCall', rdExpanded'),
         Reading(rdDoc', rdPos', rdLive', rdSKept', reader', rdCall', rdSeen', rdMissed', rdExpanded', rdHeld')
  PROVE  RdInv'
BY DEF RdInv, Inv

LEMMA InvStarting ==
  ASSUME Common(rdDoc', rdPos', rdLive', rdSKept', reader', rdCall', rdExpanded'),
         Starting(rdDoc', rdPos', rdLive', rdSKept', reader', rdCall', rdSeen', rdMissed', rdExpanded', rdHeld')
  PROVE  RdInv'
BY DEF RdInv, Inv

LEMMA InvOver ==
  ASSUME Common(rdDoc', rdPos', rdLive', rdSKept', reader', rdCall', rdExpanded'),
         Over(rdDoc', rdPos', rdLive', reader', rdCall', rdMissed', rdExpanded', rdHeld')
  PROVE  RdInv'
BY DEF RdInv, Inv

-----------------------------------------------------------------------------
(* Every step keeps the invariant.                                         *)
LEMMA IdleTyped ==
  /\ RdIdle \in Calls /\ RdIdle.at = "idle"
  /\ \A where \in {"idle", "read", "initial", "begin", "fill", "found", "text", "expand"}, n \in Nat :
       /\ [RdIdle EXCEPT !.at = where] \in Calls /\ [RdIdle EXCEPT !.at = where].at = where
       /\ [RdIdle EXCEPT !.at = where, !.next = n] \in Calls
       /\ [RdIdle EXCEPT !.at = where, !.next = n].at = where
BY DEF RdIdle, Calls

LEMMA AtTyped ==
  ASSUME NEW where \in {"idle", "read", "initial", "begin", "fill", "found", "text", "expand"},
         rdCall \in Calls, RdAt(where)
  PROVE  /\ rdCall' \in Calls /\ rdCall'.at = where
         /\ rdCall'.oldstate = rdCall.oldstate /\ rdCall'.olddepth = rdCall.olddepth
         /\ rdCall'.oldnode = rdCall.oldnode
BY DEF RdAt, Calls

LEMMA FailsTyped ==
  ASSUME reader \in Readers
  PROVE  /\ RdFails \in Readers /\ RdFails.mode = "ERROR" /\ RdFails.state = "ERROR"
         /\ RdFails.node = reader.node /\ RdFails.depth = reader.depth
         /\ RdFails.preserves = reader.preserves
BY DEF RdFails, Readers, RdStates, RdModes

LEMMA InvInit ==
  ASSUME RdInit
  PROVE  RdInv
<1>1. IsDoc(rdDoc)
  BY RdDocsAssumption, Zenon DEF RdInit, IsDoc
<1>2. Len(rdDoc) \in Nat
  BY <1>1 DEF IsDoc
<1>3. Forest(rdDoc, rdPos, rdLive, rdSKept) /\ Tree(rdDoc, rdPos, rdLive, 0)
  BY <1>2 DEF RdInit, Forest, Tree
<1>4. /\ reader \in Readers /\ reader.node = 0 /\ reader.preserves = 0 /\ reader.mode = "INITIAL"
      /\ reader.state = "NONE"
  BY DEF RdInit, Readers, RdStates, RdModes
<1>5. rdCall \in Calls /\ rdCall.at = "idle"
  BY IdleTyped DEF RdInit
<1>6. Common(rdDoc, rdPos, rdLive, rdSKept, reader, rdCall, rdExpanded)
  BY <1>1, <1>3, <1>4, <1>5 DEF RdInit, Common
<1>7. Starting(rdDoc, rdPos, rdLive, rdSKept, reader, rdCall, rdSeen, rdMissed, rdExpanded, rdHeld)
  BY <1>3, <1>4, <1>5 DEF RdInit, Starting
<1> QED BY <1>6, <1>7 DEF RdInv, Inv

(* A call begins or ends and nothing else changes.                         *)
LEMMA CallStep ==
  ASSUME RdInv, reader.node # 0, rdCall' \in Calls, reader' = reader, UNCHANGED RdTree,
         rdSeen' = rdSeen, rdMissed' = rdMissed, rdExpanded' = rdExpanded, rdHeld' = rdHeld,
         rdCall.at \in {"idle", "read", "expand"}, rdCall'.at \in {"idle", "read", "expand"},
         reader.mode = "ERROR" => rdCall'.at = "idle"
  PROVE  RdInv'
<1>1. Common(rdDoc, rdPos, rdLive, rdSKept, reader, rdCall, rdExpanded)
  BY Phases
<1>2. Reading(rdDoc, rdPos, rdLive, rdSKept, reader, rdCall, rdSeen, rdMissed, rdExpanded, rdHeld)
  BY Phases
<1>3. Common(rdDoc, rdPos, rdLive, rdSKept, reader, rdCall', rdExpanded)
  BY <1>1 DEF Common
<1>4. ASSUME NEW c, Walking(rdDoc, rdPos, rdLive, rdSKept, reader, rdCall, rdSeen, rdHeld, c)
      PROVE Walking(rdDoc, rdPos, rdLive, rdSKept, reader, rdCall', rdSeen, rdHeld, c)
  <2>1. StateOf(reader, rdCall') = StateOf(reader, rdCall)
    BY DEF StateOf
  <2> QED BY <1>4, <2>1 DEF Walking
<1>5. Reading(rdDoc, rdPos, rdLive, rdSKept, reader, rdCall', rdSeen, rdMissed, rdExpanded, rdHeld)
  BY <1>2, <1>4 DEF Reading
<1> QED BY <1>3, <1>5, InvReading DEF RdTree

LEMMA StepNext ==
  ASSUME RdInv, xmlTextReaderNext
  PROVE  RdInv'
<1>1. Common(rdDoc, rdPos, rdLive, rdSKept, reader, rdCall, rdExpanded)
  BY Phases
<1>2. reader.node \in Nat /\ reader.mode # "ERROR"
  BY <1>1 DEF Common, Readers, xmlTextReaderNext
<1>3. rdCall' \in Calls /\ rdCall'.at = "read"
  BY <1>2, IdleTyped DEF xmlTextReaderNext
<1> QED BY <1>2, <1>3, CallStep DEF xmlTextReaderNext, RdHistory

LEMMA StepExpand ==
  ASSUME RdInv, xmlTextReaderExpand
  PROVE  RdInv'
<1>1. Common(rdDoc, rdPos, rdLive, rdSKept, reader, rdCall, rdExpanded)
  BY Phases
<1>2. reader.mode # "ERROR"
  BY <1>1 DEF Common, xmlTextReaderExpand, RdExtraCall
<1>3. rdCall' \in Calls /\ rdCall'.at = "expand"
  BY IdleTyped DEF xmlTextReaderExpand
<1> QED BY <1>2, <1>3, CallStep DEF xmlTextReaderExpand, RdExtraCall

LEMMA StepExpandReturns ==
  ASSUME RdInv, ExpandReturns
  PROVE  RdInv'
<1>1. reader.node # 0
  BY Phases DEF Reading, ExpandReturns
<1>2. rdCall' \in Calls /\ rdCall'.at = "idle"
  BY IdleTyped DEF ExpandReturns, RdReturn
<1> QED BY <1>1, <1>2, CallStep DEF ExpandReturns, RdHistory

LEMMA StepNothing ==
  ASSUME RdInv, ReadNothing
  PROVE  RdInv'
<1>1. Common(rdDoc, rdPos, rdLive, rdSKept, reader, rdCall, rdExpanded)
  BY Phases
<1>2. /\ reader \in Readers /\ (reader.state = "ERROR" <=> reader.mode = "ERROR")
      /\ rdCall.at \in {"idle", "read"} /\ reader.mode # "INITIAL"
      /\ reader.state = "ERROR" \/ reader.node = 0
      /\ reader' = IF reader.mode = "EOF" THEN reader ELSE RdFails
  BY <1>1 DEF ReadNothing, Common
<1>3. rdCall' \in Calls /\ rdCall'.at = "idle"
  BY IdleTyped DEF ReadNothing, RdReturn
<1>4. CASE reader.state = "ERROR"
  <2>1. reader.mode = "ERROR"
    BY <1>2, <1>4
  <2>2. reader' = reader
    <3>1. reader' = RdFails
      BY <1>2, <2>1
    <3>2. ASSUME NEW r \in Readers, r.mode = "ERROR", r.state = "ERROR"
          PROVE  [r EXCEPT !.mode = "ERROR", !.state = "ERROR"] = r
      BY <3>2 DEF Readers
    <3> QED BY <1>2, <1>4, <2>1, <3>1, <3>2 DEF RdFails
  <2>3. CASE reader.node # 0
    BY <1>2, <1>3, <2>2, <2>3, CallStep DEF ReadNothing, RdHistory
  <2>4. CASE reader.node = 0
    <3>1. rdCall.at = "idle"
      BY <1>1, <2>1 DEF Common
    <3>2. Common(rdDoc', rdPos', rdLive', rdSKept', reader', rdCall', rdExpanded')
      BY <1>1, <1>3, <2>2 DEF Common, ReadNothing, RdTree, RdHistory
    <3>3. CASE Starting(rdDoc, rdPos, rdLive, rdSKept, reader, rdCall, rdSeen, rdMissed, rdExpanded, rdHeld)
      <4>1. Starting(rdDoc', rdPos', rdLive', rdSKept', reader', rdCall', rdSeen', rdMissed', rdExpanded', rdHeld')
        BY <1>3, <2>1, <2>2, <3>3 DEF Starting, ReadNothing, RdTree, RdHistory
      <4> QED BY <3>2, <4>1, InvStarting
    <3>4. CASE Over(rdDoc, rdPos, rdLive, reader, rdCall, rdMissed, rdExpanded, rdHeld)
      <4>1. Over(rdDoc', rdPos', rdLive', reader', rdCall', rdMissed', rdExpanded', rdHeld')
        BY <1>3, <2>2, <3>4 DEF Over, ReadNothing, RdTree, RdHistory
      <4> QED BY <3>2, <4>1, InvOver
    <3> QED BY <2>4, <3>3, <3>4 DEF RdInv, Inv, Reading
  <2> QED BY <2>3, <2>4
<1>5. CASE reader.state # "ERROR" /\ reader.node = 0
  <2>1. Over(rdDoc, rdPos, rdLive, reader, rdCall, rdMissed, rdExpanded, rdHeld)
    BY <1>2, <1>5 DEF RdInv, Inv, Reading, Starting
  <2>2. /\ RdFails \in Readers /\ RdFails.mode = "ERROR" /\ RdFails.state = "ERROR"
        /\ RdFails.node = reader.node
    BY <1>2, FailsTyped
  <2>3. /\ reader' \in Readers /\ reader'.node = 0 /\ (reader'.state = "ERROR" <=> reader'.mode = "ERROR")
        /\ reader'.mode # "INITIAL" /\ reader'.mode \in {"EOF", "ERROR"}
    BY <1>2, <1>5, <2>2
  <2>4. rdPos = Len(rdDoc)
    BY <2>1 DEF Over
  <2>5. Common(rdDoc', rdPos', rdLive', rdSKept', reader', rdCall', rdExpanded')
    BY <1>1, <1>3, <2>3, <2>4 DEF Common, ReadNothing, RdTree, RdHistory
  <2>6. Over(rdDoc', rdPos', rdLive', reader', rdCall', rdMissed', rdExpanded', rdHeld')
    BY <1>3, <2>1, <2>3 DEF Over, ReadNothing, RdTree, RdHistory
  <2> QED BY <2>5, <2>6, InvOver
<1> QED BY <1>2, <1>4, <1>5

LEMMA StepError ==
  ASSUME RdInv, RdError
  PROVE  RdInv'
<1>1. Common(rdDoc, rdPos, rdLive, rdSKept, reader, rdCall, rdExpanded)
  BY Phases
<1>2. rdCall' \in Calls /\ rdCall'.at = "idle"
  BY IdleTyped DEF RdError, RdReturn
<1>3. /\ reader' \in Readers /\ reader'.mode = "ERROR" /\ reader'.state = "ERROR"
      /\ reader'.node = reader.node /\ reader'.depth = reader.depth
      /\ reader'.preserves = reader.preserves
  BY <1>1, FailsTyped DEF Common, RdError
<1>4. Common(rdDoc', rdPos', rdLive', rdSKept', reader', rdCall', rdExpanded')
  BY <1>1, <1>2, <1>3 DEF Common, RdError, RdTree, RdHistory
<1>5. CASE rdCall.at = "initial"
  <2>1. Starting(rdDoc, rdPos, rdLive, rdSKept, reader, rdCall, rdSeen, rdMissed, rdExpanded, rdHeld)
    BY <1>5, Phases
  <2>2. Starting(rdDoc', rdPos', rdLive', rdSKept', reader', rdCall', rdSeen', rdMissed', rdExpanded', rdHeld')
    BY <1>2, <1>3, <2>1 DEF Starting, RdError, RdTree, RdHistory
  <2> QED BY <1>4, <2>2, InvStarting
<1>6. CASE rdCall.at \in {"fill", "text", "expand"}
  <2>1. Reading(rdDoc, rdPos, rdLive, rdSKept, reader, rdCall, rdSeen, rdMissed, rdExpanded, rdHeld)
    BY <1>6, Phases
  <2>2. ASSUME NEW c, Walking(rdDoc, rdPos, rdLive, rdSKept, reader, rdCall, rdSeen, rdHeld, c)
        PROVE Walking(rdDoc, rdPos, rdLive, rdSKept, reader', rdCall', rdSeen, rdHeld, c)
    <3>1. At(rdDoc, reader.node, c, "ERROR")
      BY <2>2 DEF Walking, At
    <3>2. StateOf(reader', rdCall') = "ERROR"
      BY <1>2, <1>3 DEF StateOf
    <3> QED BY <1>2, <1>3, <2>2, <3>1, <3>2 DEF Walking
  <2>3. Reading(rdDoc', rdPos', rdLive', rdSKept', reader', rdCall', rdSeen', rdMissed', rdExpanded', rdHeld')
    BY <1>2, <1>3, <2>1, <2>2 DEF Reading, RdError, RdTree, RdHistory
  <2> QED BY <1>4, <2>3, InvReading
<1> QED BY <1>5, <1>6 DEF RdError

LEMMA StepFirst ==
  ASSUME RdInv, ReadFirst
  PROVE  RdInv'
<1>1. Common(rdDoc, rdPos, rdLive, rdSKept, reader, rdCall, rdExpanded)
  BY Phases
<1>2. Starting(rdDoc, rdPos, rdLive, rdSKept, reader, rdCall, rdSeen, rdMissed, rdExpanded, rdHeld)
  BY Phases DEF ReadFirst
<1>3. rdCall' \in Calls /\ rdCall'.at = "initial"
  BY <1>1, AtTyped DEF ReadFirst, Common
<1>4. /\ reader' \in Readers /\ reader'.mode = "INTERACTIVE" /\ reader'.state = reader.state
      /\ reader'.node = reader.node /\ reader'.preserves = reader.preserves
  BY <1>1 DEF Common, ReadFirst, Readers, RdModes
<1>5. reader.state # "ERROR"
  BY <1>1 DEF Common, ReadFirst
<1>6. Common(rdDoc', rdPos', rdLive', rdSKept', reader', rdCall', rdExpanded')
  BY <1>1, <1>2, <1>3, <1>4, <1>5 DEF Common, Starting, ReadFirst, RdTree, RdHistory
<1>7. Starting(rdDoc', rdPos', rdLive', rdSKept', reader', rdCall', rdSeen', rdMissed', rdExpanded', rdHeld')
  BY <1>2, <1>3, <1>4 DEF Starting, ReadFirst, RdTree, RdHistory
<1> QED BY <1>6, <1>7, InvStarting

LEMMA StepOn ==
  ASSUME RdInv, ReadOn
  PROVE  RdInv'
<1>1. Common(rdDoc, rdPos, rdLive, rdSKept, reader, rdCall, rdExpanded)
  BY Phases
<1>2. Reading(rdDoc, rdPos, rdLive, rdSKept, reader, rdCall, rdSeen, rdMissed, rdExpanded, rdHeld)
  BY Phases DEF ReadOn
<1>3. nodeNr = Len(RdOpenIn(rdDoc, rdPos)) /\ nodeNr \in Nat
  <2>1. rdPos \in Nat
    BY <1>1 DEF Common, Forest, IsDoc
  <2> QED BY <2>1, OpenTyped DEF nodeNr, RdOpen
<1>4. /\ rdCall' \in Calls /\ rdCall'.at = "fill" /\ rdCall'.oldstate = reader.state
      /\ rdCall'.olddepth = nodeNr /\ rdCall'.oldnode = reader.node
  BY <1>1, <1>3 DEF Common, Calls, Readers, ReadOn
<1>5. reader' = reader /\ reader.state # "ERROR" /\ reader.mode # "ERROR" /\ rdCall.at \in {"idle", "read"}
  BY <1>1 DEF ReadOn, Common
<1>6. Common(rdDoc', rdPos', rdLive', rdSKept', reader', rdCall', rdExpanded')
  BY <1>1, <1>4, <1>5 DEF Common, ReadOn, RdTree, RdHistory
<1>7. ASSUME NEW c, Walking(rdDoc, rdPos, rdLive, rdSKept, reader, rdCall, rdSeen, rdHeld, c)
      PROVE Walking(rdDoc, rdPos, rdLive, rdSKept, reader, rdCall', rdSeen, rdHeld, c)
  <2>1. StateOf(reader, rdCall') = StateOf(reader, rdCall)
    BY <1>4, <1>5 DEF StateOf
  <2>2. rdPos \in c..rdPos
    BY <1>1, <1>7 DEF Walking, Common, Forest, IsDoc
  <2> QED BY <1>3, <1>4, <1>5, <1>7, <2>1, <2>2 DEF Walking
<1>8. Reading(rdDoc', rdPos', rdLive', rdSKept', reader', rdCall', rdSeen', rdMissed', rdExpanded', rdHeld')
  BY <1>2, <1>4, <1>5, <1>7 DEF Reading, ReadOn, RdTree, RdHistory
<1> QED BY <1>6, <1>8, InvReading

LEMMA StepPreserve ==
  ASSUME RdInv, xmlTextReaderPreserve
  PROVE  RdInv'
<1>1. Common(rdDoc, rdPos, rdLive, rdSKept, reader, rdCall, rdExpanded)
  BY Phases
<1>2. Reading(rdDoc, rdPos, rdLive, rdSKept, reader, rdCall, rdSeen, rdMissed, rdExpanded, rdHeld)
  BY Phases DEF xmlTextReaderPreserve, RdExtraCall
<1>3. /\ reader' \in Readers /\ reader'.preserves = reader.preserves + 1
      /\ reader'.node = reader.node /\ reader'.state = reader.state /\ reader'.mode = reader.mode
      /\ reader'.depth = reader.depth
  BY <1>1 DEF Common, Readers, xmlTextReaderPreserve
<1>4. /\ rdCall.at = "idle" /\ reader.node # 0 /\ reader.state # "ERROR" /\ reader.node \in rdLive
      /\ rdCall' = rdCall /\ rdSKept' = rdSKept \cup {reader.node} /\ rdLive' = rdLive
      /\ rdDoc' = rdDoc /\ rdPos' = rdPos /\ rdSeen' = rdSeen /\ rdMissed' = rdMissed
      /\ rdExpanded' = rdExpanded
      /\ rdHeld' = IF reader.state = "ELEMENT" THEN rdHeld \cup {reader.node} ELSE rdHeld
  BY <1>1 DEF xmlTextReaderPreserve, RdExtraCall, Common
<1>5. Forest(rdDoc, rdPos, rdLive, rdSKept \cup {reader.node})
  BY <1>1, <1>4 DEF Common, Forest
<1>6. Common(rdDoc', rdPos', rdLive', rdSKept', reader', rdCall', rdExpanded')
  BY <1>1, <1>3, <1>4, <1>5 DEF Common
<1>7. ASSUME NEW c, Walking(rdDoc, rdPos, rdLive, rdSKept, reader, rdCall, rdSeen, rdHeld, c)
      PROVE Walking(rdDoc, rdPos, rdLive, rdSKept', reader', rdCall', rdSeen, rdHeld', c)
  <2>1. StateOf(reader, rdCall) = reader.state /\ StateOf(reader', rdCall') = reader.state
    BY <1>3, <1>4 DEF StateOf
  <2>2. At(rdDoc, reader.node, c, reader.state)
    BY <1>7, <2>1 DEF Walking
  <2>3. PosAt(rdDoc, reader.node, c) /\ (reader.state = "ELEMENT" => c = reader.node)
    BY <2>2 DEF At
  <2>4. rdHeld' = rdHeld \/ (c = reader.node /\ rdHeld' = rdHeld \cup {reader.node})
    BY <1>4, <2>3
  <2>5. /\ IsDoc(rdDoc) /\ Forest(rdDoc, rdPos, rdLive, rdSKept) /\ Tree(rdDoc, rdPos, rdLive, c)
        /\ Memory(rdDoc, rdPos, rdLive, rdSKept, rdHeld, reader.preserves, reader.node, c)
    BY <1>1, <1>7 DEF Common, Walking
  <2>6. Memory(rdDoc, rdPos, rdLive, rdSKept', rdHeld', reader'.preserves, reader.node, c)
    BY <1>3, <1>4, <2>3, <2>4, <2>5, PreserveNode
  <2> QED BY <1>3, <1>4, <1>7, <2>1, <2>2, <2>6 DEF Walking
<1>8. Reading(rdDoc', rdPos', rdLive', rdSKept', reader', rdCall', rdSeen', rdMissed', rdExpanded', rdHeld')
  BY <1>2, <1>3, <1>4, <1>7 DEF Reading
<1> QED BY <1>6, <1>8, InvReading

(* More input.                                                             *)
LEMMA PushIs ==
  ASSUME RdInv, PushData
  PROVE  /\ rdPos' \in rdPos..Len(rdDoc) /\ rdDoc' = rdDoc /\ rdSKept' = rdSKept
         /\ rdLive' = Delivered(rdDoc, rdPos, rdPos', rdLive)
         /\ reader' \in Readers /\ reader'.node = reader.node /\ reader'.depth = reader.depth
         /\ reader'.preserves = reader.preserves
         /\ \/ reader'.mode = reader.mode /\ reader'.state = reader.state
            \/ reader'.mode = "EOF" /\ reader'.state = "DONE" /\ rdPos' = Len(rdDoc)
<1>1. Common(rdDoc, rdPos, rdLive, rdSKept, reader, rdCall, rdExpanded)
  BY Phases
<1>2. reader \in Readers /\ rdPos \in Nat /\ Len(rdDoc) \in Nat /\ rdPos <= Len(rdDoc)
  BY <1>1 DEF Common, Forest, IsDoc
<1>3. ASSUME NEW pos \in rdPos..Len(rdDoc), RdDelivered(pos)
      PROVE /\ rdPos' \in rdPos..Len(rdDoc) /\ rdDoc' = rdDoc /\ rdSKept' = rdSKept
            /\ rdLive' = Delivered(rdDoc, rdPos, rdPos', rdLive) /\ rdPos' = pos
  <2>1. rdPos' = pos
    BY <1>3 DEF RdDelivered
  <2>2. rdLive' = rdLive \cup {n \in (rdPos + 1)..pos : Node(rdDoc, n)}
    BY <1>3, SameNode DEF RdDelivered
  <2> QED BY <1>3, <2>1, <2>2 DEF RdDelivered, Delivered
<1>4. CASE \E pos \in rdPos..Len(rdDoc) : RdDelivered(pos) /\ UNCHANGED reader
  BY <1>2, <1>3, <1>4
<1>5. CASE /\ RdDelivered(Len(rdDoc))
           /\ reader' = [reader EXCEPT !.mode = "EOF", !.state = "DONE"]
  <2>1. Len(rdDoc) \in rdPos..Len(rdDoc)
    BY <1>2
  <2>2. /\ reader' \in Readers /\ reader'.node = reader.node /\ reader'.depth = reader.depth
        /\ reader'.preserves = reader.preserves /\ reader'.mode = "EOF" /\ reader'.state = "DONE"
    BY <1>2, <1>5 DEF Readers, RdStates, RdModes
  <2> QED BY <1>3, <1>5, <2>1, <2>2
<1> QED BY <1>4, <1>5 DEF PushData

LEMMA PushCommon ==
  ASSUME RdInv, PushData, Opn(rdDoc, rdPos) \subseteq rdLive, rdCall' \in Calls,
         reader.mode \notin {"EOF", "ERROR"},
         rdExpanded' \in BOOLEAN, rdExpanded' => reader'.mode = "EOF"
  PROVE  Common(rdDoc', rdPos', rdLive', rdSKept', reader', rdCall', rdExpanded')
<1>1. Common(rdDoc, rdPos, rdLive, rdSKept, reader, rdCall, rdExpanded)
  BY Phases
<1>2. /\ rdPos' \in rdPos..Len(rdDoc) /\ rdDoc' = rdDoc /\ rdSKept' = rdSKept
      /\ rdLive' = Delivered(rdDoc, rdPos, rdPos', rdLive)
      /\ reader' \in Readers /\ reader'.node = reader.node
      /\ \/ reader'.mode = reader.mode /\ reader'.state = reader.state
         \/ reader'.mode = "EOF" /\ reader'.state = "DONE" /\ rdPos' = Len(rdDoc)
  BY PushIs
<1>3. IsDoc(rdDoc) /\ Forest(rdDoc, rdPos', rdLive', rdSKept)
  BY <1>1, <1>2, DeliverForest DEF Common
<1>4. reader.node \in rdLive' \cup {0}
  BY <1>1, <1>2 DEF Common, Delivered
<1>5. reader'.mode # "ERROR" /\ (reader'.mode = "EOF" => rdPos' = Len(rdDoc)) /\ reader'.state # "ERROR"
  BY <1>1, <1>2 DEF Common
<1> QED BY <1>2, <1>3, <1>4, <1>5 DEF Common

LEMMA PushWalk ==
  ASSUME RdInv, PushData, NEW c,
         Walking(rdDoc, rdPos, rdLive, rdSKept, reader, rdCall, rdSeen, rdHeld, c)
  PROVE  /\ Opn(rdDoc, rdPos) \subseteq rdLive
         /\ c \in 1..rdPos' /\ c..rdPos \subseteq c..rdPos'
         /\ Tree(rdDoc, rdPos', rdLive', c)
         /\ Memory(rdDoc, rdPos', rdLive', rdSKept, rdHeld, reader.preserves, reader.node, c)
<1>1. Common(rdDoc, rdPos, rdLive, rdSKept, reader, rdCall, rdExpanded)
  BY Phases
<1>2. /\ rdPos' \in rdPos..Len(rdDoc) /\ rdLive' = Delivered(rdDoc, rdPos, rdPos', rdLive)
  BY PushIs
<1>3. /\ IsDoc(rdDoc) /\ Forest(rdDoc, rdPos, rdLive, rdSKept) /\ Tree(rdDoc, rdPos, rdLive, c)
      /\ Memory(rdDoc, rdPos, rdLive, rdSKept, rdHeld, reader.preserves, reader.node, c)
      /\ c \in 1..rdPos /\ PosAt(rdDoc, reader.node, c) /\ reader.node \in rdLive \cup {0}
  BY <1>1 DEF Common, Walking, At
<1>4. rdPos \in Nat /\ c \in Nat /\ c <= rdPos /\ Len(rdDoc) \in Nat
  BY <1>3 DEF Forest, IsDoc
<1>5. reader.node \in rdLive
  <2>1. reader.node >= 1
    BY <1>3, PosIs
  <2> QED BY <1>3, <2>1
<1>6. Opn(rdDoc, rdPos) \subseteq rdLive
  BY <1>3, <1>4, <1>5, OpenLive
<1>7. Tree(rdDoc, rdPos', rdLive', c)
  BY <1>2, <1>3, <1>4, DeliverTree
<1>8. Memory(rdDoc, rdPos', rdLive', rdSKept, rdHeld, reader.preserves, reader.node, c)
  BY <1>2, <1>3, <1>4, DeliverMemory
<1>9. c \in 1..rdPos' /\ c..rdPos \subseteq c..rdPos'
  BY <1>2, <1>3, <1>4
<1> QED BY <1>6, <1>7, <1>8, <1>9

LEMMA StepFillPush ==
  ASSUME RdInv, FillPush
  PROVE  RdInv'
<1>1. Common(rdDoc, rdPos, rdLive, rdSKept, reader, rdCall, rdExpanded)
  BY Phases
<1>2. /\ rdCall.at = "fill" /\ PushData /\ rdCall' = rdCall /\ rdSeen' = rdSeen /\ rdMissed' = rdMissed
      /\ rdExpanded' = rdExpanded /\ rdHeld' = rdHeld /\ reader.mode # "EOF"
  BY DEF FillPush, RdHistory, FillMore
<1>3. Reading(rdDoc, rdPos, rdLive, rdSKept, reader, rdCall, rdSeen, rdMissed, rdExpanded, rdHeld)
  BY <1>2, Phases
<1>4. reader.mode \notin {"EOF", "ERROR"} /\ rdExpanded = FALSE /\ reader.state # "ERROR"
  BY <1>1, <1>2 DEF Common
<1>5. PICK c : Walking(rdDoc, rdPos, rdLive, rdSKept, reader, rdCall, rdSeen, rdHeld, c)
  BY <1>3, <1>4 DEF Reading
<1>6. /\ Opn(rdDoc, rdPos) \subseteq rdLive /\ c \in 1..rdPos' /\ c..rdPos \subseteq c..rdPos'
      /\ Tree(rdDoc, rdPos', rdLive', c)
      /\ Memory(rdDoc, rdPos', rdLive', rdSKept, rdHeld, reader.preserves, reader.node, c)
  BY <1>2, <1>5, PushWalk
<1>7. /\ rdDoc' = rdDoc /\ rdSKept' = rdSKept
      /\ reader'.node = reader.node /\ reader'.depth = reader.depth /\ reader'.preserves = reader.preserves
      /\ reader'.mode = reader.mode \/ reader'.mode = "EOF"
  BY <1>2, PushIs
<1>8. Common(rdDoc', rdPos', rdLive', rdSKept', reader', rdCall', rdExpanded')
  BY <1>1, <1>2, <1>4, <1>6, PushCommon DEF Common
<1>9. StateOf(reader', rdCall') = StateOf(reader, rdCall)
  BY <1>2 DEF StateOf
<1>10. Walking(rdDoc', rdPos', rdLive', rdSKept', reader', rdCall', rdSeen', rdHeld', c)
  BY <1>2, <1>4, <1>5, <1>6, <1>7, <1>9 DEF Walking
<1>11. Reading(rdDoc', rdPos', rdLive', rdSKept', reader', rdCall', rdSeen', rdMissed', rdExpanded', rdHeld')
  BY <1>2, <1>3, <1>4, <1>7, <1>10 DEF Reading
<1> QED BY <1>8, <1>11, InvReading

LEMMA StepExpandPush ==
  ASSUME RdInv, ExpandPush
  PROVE  RdInv'
<1>1. Common(rdDoc, rdPos, rdLive, rdSKept, reader, rdCall, rdExpanded)
  BY Phases
<1>2. /\ rdCall.at \in {"text", "expand"} /\ PushData /\ rdCall' = rdCall /\ rdSeen' = rdSeen
      /\ rdMissed' = rdMissed /\ rdHeld' = rdHeld /\ reader.mode # "EOF"
      /\ rdExpanded' = (rdExpanded \/ (rdCall.at = "expand" /\ reader'.mode = "EOF"))
  BY DEF ExpandPush, ExpandDone
<1>3. Reading(rdDoc, rdPos, rdLive, rdSKept, reader, rdCall, rdSeen, rdMissed, rdExpanded, rdHeld)
  BY <1>2, Phases
<1>4. reader.mode \notin {"EOF", "ERROR"} /\ rdExpanded = FALSE /\ reader.state # "ERROR"
  BY <1>1, <1>2 DEF Common
<1>5. PICK c : Walking(rdDoc, rdPos, rdLive, rdSKept, reader, rdCall, rdSeen, rdHeld, c)
  BY <1>3, <1>4 DEF Reading
<1>6. /\ Opn(rdDoc, rdPos) \subseteq rdLive /\ c \in 1..rdPos' /\ c..rdPos \subseteq c..rdPos'
      /\ Tree(rdDoc, rdPos', rdLive', c)
      /\ Memory(rdDoc, rdPos', rdLive', rdSKept, rdHeld, reader.preserves, reader.node, c)
  BY <1>2, <1>5, PushWalk
<1>7. /\ rdDoc' = rdDoc /\ rdSKept' = rdSKept
      /\ reader'.node = reader.node /\ reader'.depth = reader.depth /\ reader'.preserves = reader.preserves
      /\ \/ reader'.mode = reader.mode /\ reader'.state = reader.state
         \/ reader'.mode = "EOF" /\ reader'.state = "DONE"
  BY <1>2, PushIs
<1>8. Common(rdDoc', rdPos', rdLive', rdSKept', reader', rdCall', rdExpanded')
  <2>1. rdExpanded' \in BOOLEAN /\ (rdExpanded' => reader'.mode = "EOF")
    BY <1>2, <1>4
  <2>2. rdCall' \in Calls
    BY <1>1, <1>2 DEF Common
  <2> QED BY <1>2, <1>4, <1>6, <2>1, <2>2, PushCommon
<1>9. StateOf(reader', rdCall') = reader'.state /\ StateOf(reader, rdCall) = reader.state
  BY <1>2 DEF StateOf
<1>10. ASSUME rdExpanded' = FALSE
       PROVE Walking(rdDoc', rdPos', rdLive', rdSKept', reader', rdCall', rdSeen', rdHeld', c)
  <2>1. At(rdDoc, reader.node, c, reader.state) /\ (rdCall.at = "text" => rdDoc[reader.node] = "text")
    BY <1>5, <1>9 DEF Walking
  <2>2. At(rdDoc, reader.node, c, reader'.state)
    <3>1. CASE reader'.state = reader.state
      BY <2>1, <3>1
    <3>2. CASE reader'.state = "DONE" /\ reader'.mode = "EOF"
      <4>1. rdCall.at = "text"
        BY <1>2, <1>10, <3>2
      <4> QED BY <2>1, <3>2, <4>1 DEF At
    <3> QED BY <1>7, <3>1, <3>2
  <2> QED BY <1>2, <1>4, <1>5, <1>6, <1>7, <1>9, <2>2 DEF Walking
<1>11. Reading(rdDoc', rdPos', rdLive', rdSKept', reader', rdCall', rdSeen', rdMissed', rdExpanded', rdHeld')
  <2>1. rdExpanded' = TRUE \/ rdExpanded' = FALSE
    BY <1>2, <1>4
  <2>2. rdMissed' = {}
    BY <1>2, <1>3, <1>4 DEF Reading
  <2>3. reader'.node # 0 /\ reader'.mode # "INITIAL" /\ rdCall'.at \notin {"initial", "begin"}
    BY <1>2, <1>3, <1>7 DEF Reading
  <2> QED BY <1>10, <2>1, <2>2, <2>3 DEF Reading
<1> QED BY <1>8, <1>11, InvReading

LEMMA StepInitialPush ==
  ASSUME RdInv, InitialPush
  PROVE  RdInv'
<1>1. Common(rdDoc, rdPos, rdLive, rdSKept, reader, rdCall, rdExpanded)
  BY Phases
<1>2. /\ rdCall.at = "initial" /\ PushData /\ rdSeen' = rdSeen /\ rdMissed' = rdMissed
      /\ rdExpanded' = rdExpanded /\ rdHeld' = rdHeld
  BY DEF InitialPush, RdHistory
<1>3. Starting(rdDoc, rdPos, rdLive, rdSKept, reader, rdCall, rdSeen, rdMissed, rdExpanded, rdHeld)
  BY <1>2, Phases
<1>4. /\ IsDoc(rdDoc) /\ Tree(rdDoc, rdPos, rdLive, 0) /\ rdExpanded = FALSE
      /\ reader.mode \in {"INTERACTIVE", "EOF"} /\ rdCall \in Calls
      /\ (reader.mode = "EOF" => rdPos = Len(rdDoc)) /\ (reader.state = "ERROR" <=> reader.mode = "ERROR")
  BY <1>1, <1>2, <1>3 DEF Common, Starting
<1>5. rdPos \in Nat /\ Len(rdDoc) \in Nat /\ Len(rdDoc) # 0
  BY <1>4 DEF Tree, IsDoc
<1>6. Opn(rdDoc, rdPos) \subseteq rdLive
  <2>1. ASSUME NEW x \in Opn(rdDoc, rdPos) PROVE x \in rdLive
    <3>1. x \in 1..rdPos /\ Node(rdDoc, x)
      BY <1>5, OpensTyped DEF Node
    <3>2. x \in (0 + 1)..rdPos
      BY <3>1
    <3> QED BY <1>4, <3>1, <3>2 DEF Tree
  <2> QED BY <2>1
<1>7. /\ rdPos' \in rdPos..Len(rdDoc) /\ rdDoc' = rdDoc /\ rdSKept' = rdSKept
      /\ rdLive' = Delivered(rdDoc, rdPos, rdPos', rdLive)
      /\ reader' \in Readers /\ reader'.node = reader.node /\ reader'.preserves = reader.preserves
      /\ \/ reader'.mode = reader.mode /\ reader'.state = reader.state
         \/ reader'.mode = "EOF" /\ reader'.state = "DONE" /\ rdPos' = Len(rdDoc)
  BY <1>2, PushIs
<1>8. Tree(rdDoc, rdPos', rdLive', 0)
  BY <1>4, <1>7, DeliverTree
<1>9. rdCall' \in Calls /\ rdCall'.at \in {"initial", "begin"}
      /\ (rdCall'.at = "begin" => ctxtNode' # 0 \/ reader'.mode = "EOF")
  <2>1. (ctxtNode' = 0 /\ reader'.mode # "EOF" /\ RdAt("initial")) \/ (~(ctxtNode' = 0 /\ reader'.mode # "EOF") /\ RdAt("begin"))
    BY DEF InitialPush, RdFirstNode
  <2> QED BY <1>4, <2>1, AtTyped
<1>10. ctxtNode' # 0 => rdPos' >= 1
  <2>1. ctxtNode' = RdTop(RdOpenIn(rdDoc', rdPos'))
    BY DEF ctxtNode, RdOpen
  <2>2. rdPos' = 0 => ctxtNode' = 0
    BY <2>1, OpenTyped DEF RdTop
  <2> QED BY <1>5, <1>7, <2>2
<1>11. rdCall'.at = "begin" => rdPos' >= 1
  BY <1>4, <1>5, <1>7, <1>9, <1>10
<1>12. Forest(rdDoc, rdPos', rdLive', rdSKept)
  BY <1>1, <1>4, <1>6, <1>7, DeliverForest DEF Common
<1>13. reader'.mode \in {"INTERACTIVE", "EOF"} /\ reader'.state # "ERROR" /\ (reader'.mode = "EOF" => rdPos' = Len(rdDoc))
  BY <1>4, <1>5, <1>7
<1>14. Common(rdDoc', rdPos', rdLive', rdSKept', reader', rdCall', rdExpanded')
  BY <1>2, <1>3, <1>4, <1>7, <1>9, <1>12, <1>13 DEF Common, Starting
<1>15. Starting(rdDoc', rdPos', rdLive', rdSKept', reader', rdCall', rdSeen', rdMissed', rdExpanded', rdHeld')
  BY <1>2, <1>3, <1>7, <1>8, <1>9, <1>11, <1>13 DEF Starting
<1> QED BY <1>14, <1>15, InvStarting

(* The first node is the first token.                                      *)
LEMMA StepInitialFound ==
  ASSUME RdInv, InitialFound
  PROVE  RdInv'
<1>1. Common(rdDoc, rdPos, rdLive, rdSKept, reader, rdCall, rdExpanded)
  BY Phases
<1>2. Starting(rdDoc, rdPos, rdLive, rdSKept, reader, rdCall, rdSeen, rdMissed, rdExpanded, rdHeld)
  BY Phases DEF InitialFound
<1>3. /\ IsDoc(rdDoc) /\ Forest(rdDoc, rdPos, rdLive, rdSKept) /\ Tree(rdDoc, rdPos, rdLive, 0)
      /\ reader \in Readers /\ rdCall \in Calls /\ rdCall.at = "begin" /\ rdPos >= 1 /\ rdExpanded = FALSE
      /\ reader.mode \in {"INTERACTIVE", "EOF"} /\ (reader.mode = "EOF" => rdPos = Len(rdDoc))
      /\ rdSKept = {} /\ rdHeld = {} /\ rdSeen = 0 /\ rdMissed = {} /\ reader.preserves = 0
  BY <1>1, <1>2 DEF Common, Starting, InitialFound
<1>4. rdPos \in Nat /\ Len(rdDoc) \in Nat /\ rdPos <= Len(rdDoc) /\ \A m \in rdLive : m \in Nat /\ m >= 1 /\ m <= rdPos
  BY <1>3 DEF Tree, IsDoc
<1>5. RdOpenIn(rdDoc, 0) = <<>>
  BY OpenTyped
<1>6. Node(rdDoc, 1) /\ 1 \in 1..Len(rdDoc)
  <2>1. 1 \in 1..Len(rdDoc) /\ 1 - 1 = 0
    BY <1>3, <1>4
  <2>2. rdDoc[1] \notin {"end", "text"}
    BY <1>3, <1>5, <2>1 DEF IsDoc
  <2>3. rdDoc[1] \in {"start", "empty", "end", "text", "misc"}
    BY <1>3, <2>1, TokenKinds
  <2> QED BY <2>1, <2>2, <2>3 DEF Node
<1>7. 1 \in rdLive
  <2>1. 1 \in (0 + 1)..rdPos
    BY <1>3, <1>4
  <2> QED BY <1>3, <1>6, <2>1 DEF Tree
<1>8. Par(rdDoc, 1) = 0 /\ Anc(rdDoc, 1) = {}
  <2>1. 1 - 1 = 0
    OBVIOUS
  <2>2. Par(rdDoc, 1) = 0
    BY <1>5, <2>1 DEF Par, RdTop
  <2> QED BY <2>2, ParIs
<1>9. RdFirst(RdChildren(0)) = 1
  <2>1. RdChildren(0) = Kids(rdDoc, rdLive, 0)
    BY SameTree
  <2>2. 1 \in Kids(rdDoc, rdLive, 0)
    BY <1>7, <1>8 DEF Kids
  <2>3. Kids(rdDoc, rdLive, 0) \in SUBSET Nat /\ \A m \in Kids(rdDoc, rdLive, 0) : 1 <= m
    BY <1>4 DEF Kids
  <2> QED BY <2>1, <2>2, <2>3, FirstIs
<1>10. /\ reader' \in Readers /\ reader'.node = 1 /\ reader'.state = "ELEMENT" /\ reader'.depth = 0
       /\ reader'.mode = reader.mode /\ reader'.preserves = 0
  <2>1. reader' = [reader EXCEPT !.node = 1, !.state = "ELEMENT", !.depth = 0]
    BY <1>9 DEF InitialFound
  <2>2. reader \in Readers /\ reader.preserves = 0
    BY <1>3
  <2>3. 1 \in Nat /\ 0 \in Int /\ "ELEMENT" \in RdStates
    BY DEF RdStates
  <2>4. reader' \in Readers
    BY <2>1, <2>2, <2>3 DEF Readers
  <2> QED BY <2>1, <2>2, <2>4 DEF Readers
<1>11. rdCall' \in Calls /\ rdCall'.at = "found"
  BY <1>3, AtTyped DEF InitialFound
<1>12. UNCHANGED <<rdDoc, rdPos, rdLive, rdSKept, rdSeen, rdMissed, rdExpanded, rdHeld>>
  BY DEF InitialFound, RdTree, RdHistory
<1>13. Common(rdDoc', rdPos', rdLive', rdSKept', reader', rdCall', rdExpanded')
  BY <1>3, <1>7, <1>10, <1>11, <1>12 DEF Common
<1>14. At(rdDoc, 1, 1, "ELEMENT")
  BY <1>6 DEF At, PosAt
<1>15. Len(RdOpenIn(rdDoc, 1 - 1)) = 0
  BY <1>5
<1>16. Tree(rdDoc, rdPos, rdLive, 1)
  <2>1. \A m \in (1 + 1)..rdPos : m \in (0 + 1)..rdPos
    BY <1>4
  <2> QED BY <1>3, <2>1 DEF Tree
<1>17. Memory(rdDoc, rdPos, rdLive, {}, {}, 0, 1, 1)
  <2>1. \A x \in rdLive : x > 1 \/ x \in Around(rdDoc, 1)
    BY <1>4 DEF Around
  <2>2. Cardinality({} \cap Around(rdDoc, 1)) = 0
    BY FS_EmptySet
  <2> QED BY <2>1, <2>2 DEF Memory, Level0
<1>18. Count(rdDoc, 1) = 1
  <2>1. Event(rdDoc, 1) /\ 0 + 1 = 1
    BY <1>6 DEF Event
  <2> QED BY <2>1, CountStep
<1>19. Walking(rdDoc', rdPos', rdLive', rdSKept', reader', rdCall', rdSeen', rdHeld', 1)
  <2>1. StateOf(reader', rdCall') = "ELEMENT"
    BY <1>10, <1>11 DEF StateOf
  <2>2. 1 \in 1..rdPos
    BY <1>3, <1>4
  <2> QED BY <1>3, <1>10, <1>11, <1>12, <1>14, <1>15, <1>16, <1>17, <1>18, <2>1, <2>2 DEF Walking
<1>20. Reading(rdDoc', rdPos', rdLive', rdSKept', reader', rdCall', rdSeen', rdMissed', rdExpanded', rdHeld')
  BY <1>3, <1>10, <1>11, <1>12, <1>19 DEF Reading
<1> QED BY <1>13, <1>20, InvReading

(* The reader reports the event it stands at.                              *)
LEMMA TextComplete ==
  ASSUME RdInv, NEW c, Walking(rdDoc, rdPos, rdLive, rdSKept, reader, rdCall, rdSeen, rdHeld, c),
         rdDoc[reader.node] = "text",
         RdNext(reader.node) # 0 \/ ExpandDone
  PROVE  Pieces(rdDoc, reader.node, rdPos) = Pieces(rdDoc, reader.node, Len(rdDoc))
<1>1. Common(rdDoc, rdPos, rdLive, rdSKept, reader, rdCall, rdExpanded)
  BY Phases
<1>2. PICK d, n, pos, live : d = rdDoc /\ n = reader.node /\ pos = rdPos /\ live = rdLive
  OBVIOUS
<1>3. /\ IsDoc(d) /\ Tree(d, pos, live, c) /\ PosAt(d, n, c) /\ c \in 1..pos
      /\ reader.depth = Len(RdOpenIn(d, n - 1)) /\ (reader.mode = "EOF" => pos = Len(d))
  BY <1>1, <1>2 DEF Common, Walking, At
<1>4. n \in Nat /\ n >= 1 /\ c \in Nat /\ n <= c /\ Len(d) \in Nat
  BY <1>3, PosIs
<1>5. pos \in Nat /\ pos <= Len(d) /\ n <= pos /\ \A m \in live : m \in Nat /\ m >= 1 /\ m <= pos /\ Node(d, m)
  BY <1>3, <1>4 DEF Tree
<1>6. ASSUME NEW a \in Around(d, n), RdNext(a) # 0 PROVE \E t \in n..pos : d[t] # "text"
  <2>1. RdFirst(Later(d, live, a)) # 0
    BY <1>2, <1>6, SameTree
  <2>2. PICK m \in Later(d, live, a) : TRUE
    BY <2>1 DEF RdFirst
  <2>3. m \in live /\ Par(d, m) = Par(d, a) /\ m > a
    BY <2>2 DEF Later
  <2>4. m \in Nat /\ m <= pos /\ Node(d, m)
    BY <1>5, <2>3
  <2>5. m > n
    BY <1>4, <2>3, <2>4, SuccessorAfter
  <2> QED BY <1>4, <1>5, <2>4, <2>5, TextBefore
<1>7. pos = Len(d) \/ \E t \in n..pos : d[t] # "text"
  <2>1. CASE RdNext(n) # 0
    BY <1>6, <2>1 DEF Around
  <2>2. CASE RdHasSuccessor(n)
    <3>1. PICK a \in {n} \cup RdAncestors(n) : RdNext(a) # 0
      BY <2>2 DEF RdHasSuccessor
    <3>2. a \in Around(d, n)
      BY <1>2, <3>1, SameTree DEF Around
    <3> QED BY <1>6, <3>1, <3>2
  <2>3. CASE nodeNr < reader.depth
    <3>1. nodeNr = Len(RdOpenIn(d, pos))
      BY <1>2 DEF nodeNr, RdOpen
    <3>2. Len(RdOpenIn(d, pos)) \in Nat
      BY <1>5, OpenTyped
    <3>3. RdOpenIn(d, pos) # RdOpenIn(d, n - 1)
      <4>1. Len(RdOpenIn(d, pos)) # Len(RdOpenIn(d, n - 1))
        BY <1>3, <2>3, <3>1, <3>2
      <4> QED BY <4>1
    <3> QED BY <1>3, <1>4, <1>5, <3>3, TextLeft
  <2>4. CASE reader.mode = "EOF"
    BY <1>3, <2>4
  <2> QED BY <1>2, <2>1, <2>2, <2>3, <2>4 DEF ExpandDone
<1>8. Pieces(d, n, pos) = Pieces(d, n, Len(d))
  BY <1>4, <1>5, <1>7, TextDone
<1> QED BY <1>2, <1>8

LEMMA StepFound ==
  ASSUME RdInv, ReadFound
  PROVE  RdInv'
<1>1. Common(rdDoc, rdPos, rdLive, rdSKept, reader, rdCall, rdExpanded)
  BY Phases
<1>2. rdCall.at \in {"found", "text"} /\ (rdCall.at = "text" => ExpandDone)
  BY DEF ReadFound
<1>3. Reading(rdDoc, rdPos, rdLive, rdSKept, reader, rdCall, rdSeen, rdMissed, rdExpanded, rdHeld)
  BY <1>2, Phases
<1>4. UNCHANGED <<rdDoc, rdPos, rdLive, rdSKept, reader>> /\ rdExpanded' = rdExpanded /\ rdHeld' = rdHeld
  BY DEF ReadFound, RdTree, RdHistory
<1> DEFINE text == rdDoc[reader.node] = "text" /\ RdNext(reader.node) = 0
<1>5. reader.mode # "ERROR" /\ reader.state # "ERROR" /\ reader \in Readers /\ rdCall \in Calls /\ IsDoc(rdDoc)
  BY <1>1, <1>2 DEF Common
<1>6. CASE text /\ rdCall.at = "found"
  <2>1. RdAt("text") /\ rdSeen' = rdSeen /\ rdMissed' = rdMissed
    BY <1>6 DEF ReadFound, RdHistory
  <2>2. rdCall' \in Calls /\ rdCall'.at = "text"
    BY <1>5, <2>1, AtTyped
  <2>3. Common(rdDoc', rdPos', rdLive', rdSKept', reader', rdCall', rdExpanded')
    BY <1>1, <1>4, <1>5, <2>2 DEF Common
  <2>4. ASSUME NEW c, Walking(rdDoc, rdPos, rdLive, rdSKept, reader, rdCall, rdSeen, rdHeld, c)
        PROVE Walking(rdDoc', rdPos', rdLive', rdSKept', reader', rdCall', rdSeen', rdHeld', c)
    <3>1. StateOf(reader', rdCall') = StateOf(reader, rdCall)
      BY <1>4, <1>6, <2>2 DEF StateOf
    <3> QED BY <1>4, <1>6, <2>1, <2>2, <2>4, <3>1 DEF Walking
  <2>5. Reading(rdDoc', rdPos', rdLive', rdSKept', reader', rdCall', rdSeen', rdMissed', rdExpanded', rdHeld')
    BY <1>3, <1>4, <2>1, <2>2, <2>4 DEF Reading
  <2> QED BY <2>3, <2>5, InvReading
<1>7. CASE ~(text /\ rdCall.at = "found")
  <2> DEFINE later == {i \in (rdSeen + 1)..Len(RdEvents) : RdEvents[i] = RdReported}
  <2>1. /\ rdSeen' = IF later = {} THEN rdSeen ELSE RdFirst(later)
        /\ rdMissed' = IF later = {} THEN rdMissed \cup {<<"unexpected">>}
                       ELSE rdMissed \cup {RdEvents[i] : i \in (rdSeen + 1)..(rdSeen' - 1)}
        /\ rdCall' = CASE rdCall.next = 0 -> RdIdle
                       [] rdCall.next = reader.node -> [RdIdle EXCEPT !.at = "read"]
                       [] OTHER -> [RdIdle EXCEPT !.at = "read", !.next = rdCall.next]
    BY <1>7 DEF ReadFound
  <2>2. rdCall' \in Calls /\ rdCall'.at \in {"idle", "read"}
    <3>1. rdCall.next \in Nat
      BY <1>5 DEF Calls
    <3>2. rdCall' \in {RdIdle, [RdIdle EXCEPT !.at = "read"], [RdIdle EXCEPT !.at = "read", !.next = rdCall.next]}
      BY <2>1
    <3>3. CASE rdCall' = RdIdle
      BY <3>3, IdleTyped
    <3>4. CASE rdCall' = [RdIdle EXCEPT !.at = "read"]
      BY <3>4, IdleTyped
    <3>5. CASE rdCall' = [RdIdle EXCEPT !.at = "read", !.next = rdCall.next]
      BY <3>1, <3>5, IdleTyped
    <3> QED BY <3>2, <3>3, <3>4, <3>5
  <2>3. Common(rdDoc', rdPos', rdLive', rdSKept', reader', rdCall', rdExpanded')
    BY <1>1, <1>4, <1>5, <2>2 DEF Common
  <2>4. CASE rdExpanded
    <3>1. Reading(rdDoc', rdPos', rdLive', rdSKept', reader', rdCall', rdSeen', rdMissed', rdExpanded', rdHeld')
      BY <1>3, <1>4, <2>2, <2>4 DEF Reading
    <3> QED BY <2>3, <3>1, InvReading
  <2>5. CASE ~rdExpanded
    <3>1. PICK c : Walking(rdDoc, rdPos, rdLive, rdSKept, reader, rdCall, rdSeen, rdHeld, c)
      BY <1>3, <2>5 DEF Reading
    <3>2. StateOf(reader, rdCall) = reader.state
      BY <1>2 DEF StateOf
    <3>3. At(rdDoc, reader.node, c, reader.state) /\ reader.depth = Len(RdOpenIn(rdDoc, reader.node - 1))
          /\ rdSeen = Count(rdDoc, c) - 1 /\ PosAt(rdDoc, reader.node, c)
      BY <1>2, <1>5, <3>1, <3>2 DEF Walking, At
    <3>4. rdDoc[reader.node] = "text" => Pieces(rdDoc, reader.node, rdPos) = Pieces(rdDoc, reader.node, Len(rdDoc))
      BY <1>2, <1>7, <3>1, TextComplete
    <3>5. RdReported = EventAt(rdDoc, c)
      <4>1. RdReported = <<reader.node, rdDoc[reader.node] \in RdElements /\ reader.state \in {"END", "BACKTRACK"},
              Len(RdOpenIn(rdDoc, reader.node - 1)),
              IF rdDoc[reader.node] = "text" THEN Pieces(rdDoc, reader.node, rdPos) ELSE 0>>
        <5>1. RdPieces(reader.node, rdPos) = Pieces(rdDoc, reader.node, rdPos)
          BY Zenon DEF RdPieces, Pieces
        <5>2. reader.depth = Len(RdOpenIn(rdDoc, reader.node - 1))
          BY <3>3
        <5> QED BY <5>1, <5>2, Zenon DEF RdReported
      <4>2. <<reader.node, rdDoc[reader.node] \in RdElements /\ reader.state \in {"END", "BACKTRACK"},
              Len(RdOpenIn(rdDoc, reader.node - 1)),
              IF rdDoc[reader.node] = "text" THEN Pieces(rdDoc, reader.node, rdPos) ELSE 0>> = EventAt(rdDoc, c)
        BY <1>5, <3>3, <3>4, ReportIs
      <4> QED BY <4>1, <4>2, Zenon
    <3>6. Event(rdDoc, c) /\ c \in 1..Len(rdDoc) /\ c \in Nat
      <4>1. IsDoc(rdDoc) /\ PosAt(rdDoc, reader.node, c)
        BY <1>5, <3>3
      <4>2. Event(rdDoc, c) /\ c \in Nat
        BY <4>1, PosIs
      <4>3. c \in 1..Len(rdDoc)
        BY <4>1 DEF PosAt
      <4> QED BY <4>2, <4>3
    <3>7. Count(rdDoc, c) \in 1..Len(RdEvents) /\ RdEvents[Count(rdDoc, c)] = EventAt(rdDoc, c)
      BY <1>5, <3>6, EventsAre
    <3>8. PICK k \in Nat : k = Count(rdDoc, c)
      BY <3>6, CountStep
    <3>9. rdSeen + 1 = k /\ k \in (rdSeen + 1)..Len(RdEvents) /\ \A i \in (rdSeen + 1)..Len(RdEvents) : i \in Nat /\ k <= i
      BY <3>3, <3>7, <3>8
    <3>10. k \in later /\ later \in SUBSET Nat /\ \A i \in later : k <= i
      BY <3>5, <3>7, <3>8, <3>9
    <3> HIDE DEF later
    <3>11. rdSeen' = k
      BY <2>1, <3>10, FirstIs
    <3>12. rdMissed' = {}
      <4>1. rdMissed = {}
        BY <1>3, <2>5 DEF Reading
      <4>2. (rdSeen + 1)..(rdSeen' - 1) = {}
        BY <3>3, <3>8, <3>9, <3>11
      <4>3. rdMissed' = rdMissed \cup {RdEvents[i] : i \in (rdSeen + 1)..(rdSeen' - 1)}
        BY <2>1, <3>10
      <4> QED BY <4>1, <4>2, <4>3
    <3>13. StateOf(reader', rdCall') = reader.state
      BY <1>4, <2>2 DEF StateOf
    <3>14. Walking(rdDoc', rdPos', rdLive', rdSKept', reader', rdCall', rdSeen', rdHeld', c)
      <4>1. k - 0 = k
        OBVIOUS
      <4> QED BY <1>4, <2>2, <3>1, <3>2, <3>8, <3>11, <3>13, <4>1 DEF Walking
    <3>15. Reading(rdDoc', rdPos', rdLive', rdSKept', reader', rdCall', rdSeen', rdMissed', rdExpanded', rdHeld')
      BY <1>3, <1>4, <2>2, <3>12, <3>14 DEF Reading
    <3> QED BY <2>3, <3>15, InvReading
  <2> QED BY <2>4, <2>5
<1> QED BY <1>6, <1>7

(* The reader moves to the next event.                                     *)
MovedTo(c, c2) ==
  /\ c2 \in 1..rdPos
  /\ At(rdDoc, reader'.node, c2, reader'.state)
  /\ reader'.depth = Len(RdOpenIn(rdDoc, reader'.node - 1))
  /\ Tree(rdDoc, rdPos, rdLive', c2)
  /\ Memory(rdDoc, rdPos, rdLive', rdSKept, rdHeld, reader'.preserves, reader'.node, c2)
  /\ Count(rdDoc, c2) = Count(rdDoc, c) + 1

LEMMA FillFacts ==
  ASSUME RdInv, rdCall.at = "fill"
  PROVE  /\ Common(rdDoc, rdPos, rdLive, rdSKept, reader, rdCall, rdExpanded)
         /\ Reading(rdDoc, rdPos, rdLive, rdSKept, reader, rdCall, rdSeen, rdMissed, rdExpanded, rdHeld)
         /\ reader \in Readers /\ rdCall \in Calls /\ IsDoc(rdDoc) /\ Forest(rdDoc, rdPos, rdLive, rdSKept)
         /\ reader.node \in rdLive /\ reader.node \in Nat /\ reader.node >= 1
         /\ reader.mode \notin {"INITIAL", "ERROR"} /\ reader.state # "ERROR"
         /\ Node(rdDoc, reader.node) /\ PosAt(rdDoc, reader.node, reader.node)
         /\ rdPos \in Nat /\ Len(rdDoc) \in Nat
         /\ \A m \in rdLive : m \in Nat /\ m >= 1
<1>1. Common(rdDoc, rdPos, rdLive, rdSKept, reader, rdCall, rdExpanded)
  BY Phases
<1>2. Reading(rdDoc, rdPos, rdLive, rdSKept, reader, rdCall, rdSeen, rdMissed, rdExpanded, rdHeld)
  BY Phases
<1>3. /\ reader \in Readers /\ rdCall \in Calls /\ IsDoc(rdDoc) /\ Forest(rdDoc, rdPos, rdLive, rdSKept)
      /\ reader.node \in rdLive /\ reader.mode \notin {"INITIAL", "ERROR"} /\ reader.state # "ERROR"
  BY <1>1, <1>2 DEF Common, Reading
<1>4. rdPos \in Nat /\ Len(rdDoc) \in Nat /\ rdPos <= Len(rdDoc)
  BY <1>3 DEF Forest, IsDoc
<1>5. \A m \in rdLive : m \in Nat /\ m >= 1 /\ m \in 1..Len(rdDoc) /\ Node(rdDoc, m)
  BY <1>3, <1>4 DEF Forest
<1>6. PosAt(rdDoc, reader.node, reader.node)
  BY <1>3, <1>5 DEF PosAt
<1> QED BY <1>1, <1>2, <1>3, <1>4, <1>5, <1>6

LEMMA Moves ==
  ASSUME RdInv, rdCall.at = "fill", UNCHANGED <<rdDoc, rdPos, rdSKept, RdHistory>>, RdAt("found"),
         reader' \in Readers, reader'.mode = reader.mode, reader'.state \in {"ELEMENT", "END", "BACKTRACK"},
         reader'.node \in rdLive', Forest(rdDoc, rdPos, rdLive', rdSKept),
         \A c : ~rdExpanded /\ Walking(rdDoc, rdPos, rdLive, rdSKept, reader, rdCall, rdSeen, rdHeld, c)
                  => \E c2 : MovedTo(c, c2)
  PROVE  RdInv'
<1>1. /\ Common(rdDoc, rdPos, rdLive, rdSKept, reader, rdCall, rdExpanded)
      /\ Reading(rdDoc, rdPos, rdLive, rdSKept, reader, rdCall, rdSeen, rdMissed, rdExpanded, rdHeld)
      /\ rdCall \in Calls /\ reader.mode \notin {"INITIAL", "ERROR"} /\ reader.state # "ERROR"
      /\ rdPos \in Nat /\ Len(rdDoc) \in Nat
  BY FillFacts
<1>2. rdCall' \in Calls /\ rdCall'.at = "found"
  BY <1>1, AtTyped
<1>3. /\ rdDoc' = rdDoc /\ rdPos' = rdPos /\ rdSKept' = rdSKept /\ rdSeen' = rdSeen
      /\ rdMissed' = rdMissed /\ rdExpanded' = rdExpanded /\ rdHeld' = rdHeld
  BY DEF RdHistory
<1>4. Common(rdDoc', rdPos', rdLive', rdSKept', reader', rdCall', rdExpanded')
  BY <1>1, <1>2, <1>3 DEF Common
<1>5. reader'.node # 0
  BY DEF Forest
<1>6. CASE rdExpanded
  <2>1. Reading(rdDoc', rdPos', rdLive', rdSKept', reader', rdCall', rdSeen', rdMissed', rdExpanded', rdHeld')
    BY <1>1, <1>2, <1>3, <1>5, <1>6 DEF Reading
  <2> QED BY <1>4, <2>1, InvReading
<1>7. CASE ~rdExpanded
  <2>1. PICK c : Walking(rdDoc, rdPos, rdLive, rdSKept, reader, rdCall, rdSeen, rdHeld, c)
    BY <1>1, <1>7 DEF Reading
  <2>2. PICK c2 : MovedTo(c, c2)
    BY <1>7, <2>1
  <2>3. StateOf(reader', rdCall') = reader'.state
    BY <1>2 DEF StateOf
  <2>4. rdSeen = Count(rdDoc, c2) - 1
    <3>1. c \in 1..rdPos /\ rdSeen = Count(rdDoc, c) - 0
      BY <1>1, <2>1 DEF Walking
    <3>2. c \in Nat
      BY <1>1, <3>1
    <3>3. Count(rdDoc, c) \in Nat
      BY <3>2, CountStep
    <3> QED BY <2>2, <3>1, <3>3 DEF MovedTo
  <2>5. Walking(rdDoc', rdPos', rdLive', rdSKept', reader', rdCall', rdSeen', rdHeld', c2)
    BY <1>2, <1>3, <2>2, <2>3, <2>4 DEF Walking, MovedTo
  <2>6. Reading(rdDoc', rdPos', rdLive', rdSKept', reader', rdCall', rdSeen', rdMissed', rdExpanded', rdHeld')
    BY <1>1, <1>2, <1>3, <1>5, <1>7, <2>5 DEF Reading
  <2> QED BY <1>4, <2>6, InvReading
<1> QED BY <1>6, <1>7

LEMMA StepChild ==
  ASSUME RdInv, rdCall.at = "fill", ReadChild, UNCHANGED <<rdDoc, rdPos, rdSKept, RdHistory>>
  PROVE  RdInv'
<1>1. /\ reader \in Readers /\ IsDoc(rdDoc) /\ Forest(rdDoc, rdPos, rdLive, rdSKept)
      /\ rdPos \in Nat /\ Len(rdDoc) \in Nat /\ \A m \in rdLive : m \in Nat /\ m >= 1
      /\ reader.node \in Nat
  BY FillFacts
<1>2. PICK n : n = reader.node
  OBVIOUS
<1>3. Kids(rdDoc, rdLive, n) # {} /\ rdCall.oldstate # "BACKTRACK"
  BY <1>2, SameTree DEF ReadChild, RdDescends
<1>4. PICK m : m = RdFirst(Kids(rdDoc, rdLive, n))
  OBVIOUS
<1>5. m \in rdLive /\ m \in Nat
  <2>1. Kids(rdDoc, rdLive, n) \in SUBSET Nat
    BY <1>1 DEF Kids
  <2>2. m \in Kids(rdDoc, rdLive, n)
    BY <1>3, <1>4, <2>1, FirstOf
  <2> QED BY <1>1, <2>2 DEF Kids
<1>6. reader' = [reader EXCEPT !.node = m, !.depth = @ + 1, !.state = "ELEMENT"]
  BY <1>2, <1>4, SameTree DEF ReadChild
<1>7. /\ reader' \in Readers /\ reader'.node = m /\ reader'.depth = reader.depth + 1
      /\ reader'.state = "ELEMENT" /\ reader'.mode = reader.mode /\ reader'.preserves = reader.preserves
  <2>1. reader.depth \in Int /\ reader.depth + 1 \in Int /\ "ELEMENT" \in RdStates
    BY <1>1 DEF Readers, RdStates
  <2>2. reader' \in Readers
    BY <1>1, <1>5, <1>6, <2>1 DEF Readers
  <2> QED BY <1>1, <1>6, <2>2 DEF Readers
<1>8. rdLive' = rdLive /\ RdAt("found")
  BY DEF ReadChild
<1>9. ASSUME NEW c, Walking(rdDoc, rdPos, rdLive, rdSKept, reader, rdCall, rdSeen, rdHeld, c)
      PROVE \E c2 : MovedTo(c, c2)
  <2>1. /\ c \in 1..rdPos /\ At(rdDoc, n, c, rdCall.oldstate) /\ rdCall.oldstate # "ERROR"
        /\ reader.depth = Len(RdOpenIn(rdDoc, n - 1)) /\ Tree(rdDoc, rdPos, rdLive, c)
        /\ Memory(rdDoc, rdPos, rdLive, rdSKept, rdHeld, reader.preserves, n, c)
    BY <1>2, <1>9 DEF Walking, StateOf
  <2>2. /\ c = n /\ rdDoc[n] = "start" /\ n + 1 \in rdLive /\ Node(rdDoc, n + 1)
        /\ Par(rdDoc, n + 1) = n /\ m = n + 1
    BY <1>1, <1>3, <1>4, <2>1, ToChild
  <2>3. PosAt(rdDoc, n, n)
    BY <2>1, <2>2 DEF At
  <2>4. n \in Nat /\ n >= 1
    BY <1>1, <2>3, PosIs
  <2>5. /\ Tree(rdDoc, rdPos, rdLive, n + 1)
        /\ Memory(rdDoc, rdPos, rdLive, rdSKept, rdHeld, reader.preserves, n + 1, n + 1)
    BY <1>1, <2>1, <2>2, <2>3, EnterNode
  <2>6. n + 1 \in 1..rdPos /\ n + 1 \in 1..Len(rdDoc) /\ (n + 1) - 1 = n
    BY <1>1, <2>2, <2>4 DEF Forest
  <2>7. At(rdDoc, n + 1, n + 1, "ELEMENT")
    BY <2>2, <2>6 DEF At, PosAt
  <2>8. Len(RdOpenIn(rdDoc, n)) = reader.depth + 1
    BY <2>1, <2>2, <2>4, TopStart
  <2>9. Count(rdDoc, n + 1) = Count(rdDoc, n) + 1
    BY <2>2, <2>4, CountStep DEF Event
  <2>10. MovedTo(c, n + 1)
    BY <1>7, <1>8, <2>2, <2>5, <2>6, <2>7, <2>8, <2>9 DEF MovedTo
  <2> QED BY <2>10
<1> QED BY <1>1, <1>5, <1>7, <1>8, <1>9, Moves

(* The reader needs no more input for the node it stands at.               *)
LEMMA EnoughStart ==
  ASSUME RdInv, rdCall.at = "fill", ~FillMore, NEW c, ~rdExpanded,
         Walking(rdDoc, rdPos, rdLive, rdSKept, reader, rdCall, rdSeen, rdHeld, c),
         c = reader.node, rdDoc[c] = "start", Kids(rdDoc, rdLive, c) = {}
  PROVE  rdPos > c
<1>1. /\ Common(rdDoc, rdPos, rdLive, rdSKept, reader, rdCall, rdExpanded) /\ IsDoc(rdDoc)
      /\ rdPos \in Nat /\ reader.node \in Nat /\ reader.node >= 1
  BY FillFacts
<1>2. /\ c \in 1..rdPos /\ Tree(rdDoc, rdPos, rdLive, c)
      /\ \E q \in c..rdPos : rdCall.olddepth = Len(RdOpenIn(rdDoc, q))
  BY DEF Walking
<1>3. SUFFICES ASSUME rdPos = c PROVE FALSE
  BY <1>1, <1>2
<1>4. RdNext(c) = 0
  <2>1. \A m \in rdLive : m \in Nat /\ m <= c
    BY <1>2, <1>3 DEF Tree
  <2>2. Later(rdDoc, rdLive, c) = {}
    BY <1>1, <2>1 DEF Later
  <2> QED BY <2>2, SameTree DEF RdFirst
<1>5. nodeNr = rdCall.olddepth
  <2>1. nodeNr = Len(RdOpenIn(rdDoc, rdPos))
    BY DEF nodeNr, RdOpen
  <2> QED BY <1>1, <1>2, <1>3, <2>1
<1>6. RdTop(RdOpenIn(rdDoc, c)) = c /\ RdOpenIn(rdDoc, c) # <<>>
  BY <1>1, TopStart
<1>7. ctxtNode = c
  BY <1>3, <1>6 DEF ctxtNode, RdOpen
<1>8. RdChildren(reader.node) = {}
  BY SameTree
<1>9. reader.mode = "EOF"
  BY <1>4, <1>5, <1>7, <1>8 DEF FillMore
<1>10. rdPos = Len(rdDoc)
  BY <1>1, <1>9 DEF Common
<1> QED BY <1>1, <1>3, <1>6, <1>10 DEF IsDoc

LEMMA EnoughLeft ==
  ASSUME RdInv, rdCall.at = "fill", ~FillMore, NEW c, ~rdExpanded,
         Walking(rdDoc, rdPos, rdLive, rdSKept, reader, rdCall, rdSeen, rdHeld, c),
         ~(c = reader.node /\ rdDoc[reader.node] = "start"),
         \A i \in (c + 1)..rdPos : ~Event(rdDoc, i)
  PROVE  /\ Later(rdDoc, rdLive, reader.node) = {} /\ Par(rdDoc, reader.node) = 0
         /\ rdPos = c /\ rdPos = Len(rdDoc) /\ reader.mode = "EOF"
<1>1. /\ Common(rdDoc, rdPos, rdLive, rdSKept, reader, rdCall, rdExpanded) /\ IsDoc(rdDoc)
      /\ rdPos \in Nat /\ reader.node \in Nat /\ reader.node >= 1
  BY FillFacts
<1>2. PICK n : n = reader.node
  OBVIOUS
<1>3. /\ c \in 1..rdPos /\ Tree(rdDoc, rdPos, rdLive, c) /\ At(rdDoc, n, c, rdCall.oldstate)
      /\ rdCall.oldstate # "ERROR"
      /\ \E q \in c..rdPos : rdCall.olddepth = Len(RdOpenIn(rdDoc, q))
  BY <1>2 DEF Walking, StateOf
<1>4. PosAt(rdDoc, n, c) /\ c <= rdPos /\ rdPos \in c..rdPos
  BY <1>1, <1>3 DEF At
<1>5. /\ Later(rdDoc, rdLive, n) = {} /\ (Par(rdDoc, n) = 0 => rdPos = c)
      /\ \A q \in c..rdPos : RdOpenIn(rdDoc, q) = RdOpenIn(rdDoc, n - 1)
  BY <1>1, <1>2, <1>3, <1>4, Stays
<1>6. RdNext(n) = 0
  BY <1>5, SameTree DEF RdFirst
<1>7. nodeNr = rdCall.olddepth
  <2>1. nodeNr = Len(RdOpenIn(rdDoc, rdPos))
    BY DEF nodeNr, RdOpen
  <2> QED BY <1>3, <1>4, <1>5, <2>1
<1>8. ctxtNode = RdParent(n)
  <2>1. ctxtNode = RdTop(RdOpenIn(rdDoc, rdPos))
    BY DEF ctxtNode, RdOpen
  <2>2. RdParent(n) = RdTop(RdOpenIn(rdDoc, n - 1))
    BY DEF RdParent, RdOpen
  <2> QED BY <1>4, <1>5, <2>1, <2>2
<1>9. rdCall.oldstate = "BACKTRACK" \/ RdChildren(n) = {}
  <2> SUFFICES ASSUME rdCall.oldstate # "BACKTRACK", RdChildren(n) # {} PROVE FALSE
    OBVIOUS
  <2>1. Kids(rdDoc, rdLive, n) # {}
    BY SameTree
  <2>2. c = n /\ rdDoc[n] = "start"
    BY <1>1, <1>3, <2>1, ToChild
  <2> QED BY <1>2, <2>2
<1>10. reader.mode = "EOF"
  BY <1>2, <1>6, <1>7, <1>8, <1>9 DEF FillMore
<1>11. rdPos = Len(rdDoc)
  BY <1>1, <1>10 DEF Common
<1>12. Par(rdDoc, n) = 0
  <2>1. RdOpenIn(rdDoc, n - 1) = <<>>
    BY <1>1, <1>4, <1>5, <1>11 DEF IsDoc
  <2> QED BY <2>1 DEF Par, RdTop
<1> QED BY <1>2, <1>5, <1>10, <1>11, <1>12

LEMMA StepEmptyEnd ==
  ASSUME RdInv, rdCall.at = "fill", ~FillMore, ReadEmptyEnd, UNCHANGED <<rdDoc, rdPos, rdSKept, RdHistory>>
  PROVE  RdInv'
<1>1. /\ reader \in Readers /\ IsDoc(rdDoc) /\ Forest(rdDoc, rdPos, rdLive, rdSKept)
      /\ rdPos \in Nat /\ Len(rdDoc) \in Nat /\ reader.node \in Nat /\ reader.node \in rdLive
  BY FillFacts
<1>2. PICK n : n = reader.node
  OBVIOUS
<1>3. rdCall.oldstate = "ELEMENT" /\ rdDoc[n] = "start" /\ Kids(rdDoc, rdLive, n) = {}
  BY <1>2, SameTree DEF ReadEmptyEnd, RdNeedsEnd
<1>4. reader' = [reader EXCEPT !.state = "END"] /\ rdLive' = rdLive /\ RdAt("found")
  BY DEF ReadEmptyEnd
<1>5. /\ reader' \in Readers /\ reader'.node = n /\ reader'.depth = reader.depth
      /\ reader'.state = "END" /\ reader'.mode = reader.mode /\ reader'.preserves = reader.preserves
  BY <1>1, <1>2, <1>4 DEF Readers, RdStates
<1>6. ASSUME NEW c, ~rdExpanded, Walking(rdDoc, rdPos, rdLive, rdSKept, reader, rdCall, rdSeen, rdHeld, c)
      PROVE \E c2 : MovedTo(c, c2)
  <2>1. /\ c \in 1..rdPos /\ At(rdDoc, n, c, "ELEMENT")
        /\ reader.depth = Len(RdOpenIn(rdDoc, n - 1)) /\ Tree(rdDoc, rdPos, rdLive, c)
        /\ Memory(rdDoc, rdPos, rdLive, rdSKept, rdHeld, reader.preserves, n, c)
    BY <1>2, <1>3, <1>6 DEF Walking, StateOf
  <2>2. c = n /\ PosAt(rdDoc, n, n)
    BY <2>1 DEF At
  <2>3. rdPos > n
    BY <1>2, <1>3, <1>6, <2>2, EnoughStart
  <2>4. n + 1 \in 1..rdPos /\ PosAt(rdDoc, n, n + 1) /\ rdDoc[n + 1] = "end"
    BY <1>1, <1>3, <2>1, <2>2, <2>3, ToEmptyEnd
  <2>5. n \in Nat
    BY <1>1, <1>2
  <2>6. /\ Tree(rdDoc, rdPos, rdLive, n + 1)
        /\ Memory(rdDoc, rdPos, rdLive, rdSKept, rdHeld, reader.preserves, n, n + 1)
    BY <1>1, <2>1, <2>2, <2>4, EndNode
  <2>7. At(rdDoc, n, n + 1, "END")
    <3>1. n + 1 # n
      BY <2>5
    <3> QED BY <2>4, <3>1 DEF At
  <2>8. Count(rdDoc, n + 1) = Count(rdDoc, n) + 1
    BY <2>4, <2>5, CountStep DEF Event
  <2>9. MovedTo(c, n + 1)
    BY <1>4, <1>5, <2>1, <2>2, <2>4, <2>6, <2>7, <2>8 DEF MovedTo
  <2> QED BY <2>9
<1> QED BY <1>1, <1>2, <1>4, <1>5, <1>6, Moves

(* A node that is left.                                                    *)
LEMMA LeftFacts ==
  ASSUME NEW c, Walking(rdDoc, rdPos, rdLive, rdSKept, reader, rdCall, rdSeen, rdHeld, c),
         IsDoc(rdDoc), rdCall.at = "fill", ~RdDescends, ~RdNeedsEnd
  PROVE  ~(c = reader.node /\ rdDoc[reader.node] = "start")
<1> SUFFICES ASSUME c = reader.node, rdDoc[reader.node] = "start" PROVE FALSE
  OBVIOUS
<1>1. At(rdDoc, c, c, rdCall.oldstate) /\ rdCall.oldstate # "ERROR"
  BY DEF Walking, StateOf
<1>2. rdCall.oldstate = "ELEMENT"
  BY <1>1 DEF At
<1> QED BY <1>2 DEF RdDescends, RdNeedsEnd

LEMMA PreservesTyped ==
  ASSUME reader \in Readers
  PROVE  /\ RdPreserves = IF reader.preserves > 0 /\ reader.node \in rdSKept
                          THEN reader.preserves - 1 ELSE reader.preserves
         /\ RdPreserves \in Nat
BY DEF RdPreserves, Readers

LEMMA StepSibling ==
  ASSUME RdInv, rdCall.at = "fill", ~FillMore, ReadSibling, UNCHANGED <<rdDoc, rdPos, rdSKept, RdHistory>>
  PROVE  RdInv'
<1>1. /\ reader \in Readers /\ IsDoc(rdDoc) /\ Forest(rdDoc, rdPos, rdLive, rdSKept)
      /\ rdPos \in Nat /\ Len(rdDoc) \in Nat /\ reader.node \in Nat /\ reader.node \in rdLive
      /\ reader.node >= 1 /\ PosAt(rdDoc, reader.node, reader.node)
      /\ \A m \in rdLive : m \in Nat /\ m >= 1
  BY FillFacts
<1>2. PICK n : n = reader.node
  OBVIOUS
<1>3. PICK m : m = RdFirst(Later(rdDoc, rdLive, n))
  OBVIOUS
<1>4. /\ m # 0 /\ ~RdDescends /\ ~RdNeedsEnd /\ RdNext(n) = m
      /\ reader' = [reader EXCEPT !.node = m, !.state = "ELEMENT", !.preserves = RdPreserves]
      /\ rdLive' = IF RdPreserves = 0 /\ RdPrev(m) \notin rdKept THEN RdFreed(rdLive, RdPrev(m)) ELSE rdLive
      /\ RdAt("found")
  BY <1>2, <1>3, SameTree DEF ReadSibling
<1>5. m \in Later(rdDoc, rdLive, n) /\ \A x \in Later(rdDoc, rdLive, n) : m <= x
  <2>1. Later(rdDoc, rdLive, n) \in SUBSET Nat
    BY <1>1 DEF Later
  <2>2. Later(rdDoc, rdLive, n) # {}
    BY <1>3, <1>4 DEF RdFirst
  <2> QED BY <1>3, <2>1, <2>2, FirstOf
<1>6. m \in rdLive /\ m \in Nat /\ m >= 1 /\ Par(rdDoc, m) = Par(rdDoc, n) /\ m > n /\ Node(rdDoc, m)
  <2>1. m \in rdLive /\ Par(rdDoc, m) = Par(rdDoc, n) /\ m > n
    BY <1>5 DEF Later
  <2> QED BY <1>1, <2>1 DEF Forest
<1>7. RdPrev(m) = n
  <2>1. \A x : RdParent(x) = Par(rdDoc, x)
    BY SameTree
  <2>2. PICK S : S = {x \in RdSiblings(m) : x < m}
    OBVIOUS
  <2>3. \A x : x \in S <=> x \in rdLive /\ Par(rdDoc, x) = Par(rdDoc, m) /\ x < m
    BY <2>1, <2>2 DEF RdSiblings
  <2>4. n \in S /\ S \in SUBSET Nat
    BY <1>1, <1>2, <1>6, <2>3
  <2>5. ASSUME NEW x \in S PROVE n >= x
    <3>1. x \in rdLive /\ Par(rdDoc, x) = Par(rdDoc, n) /\ x < m /\ x \in Nat
      BY <1>1, <1>6, <2>3
    <3>2. ~(x > n)
      BY <1>5, <1>6, <3>1 DEF Later
    <3> QED BY <1>1, <1>2, <3>1, <3>2
  <2>6. RdLast(S) = n
    BY <2>4, <2>5, LastIs
  <2> QED BY <2>2, <2>6 DEF RdPrev
<1>8. rdLive' = IF RdPreserves = 0 /\ n \notin KeptOf(rdDoc, rdSKept) THEN Freed(rdDoc, rdLive, n) ELSE rdLive
  BY <1>4, <1>7, SameTree, SameKept
<1>9. /\ RdPreserves = (IF reader.preserves > 0 /\ n \in rdSKept THEN reader.preserves - 1 ELSE reader.preserves)
      /\ RdPreserves \in Nat
  BY <1>1, <1>2, PreservesTyped
<1>10. /\ reader' \in Readers /\ reader'.node = m /\ reader'.depth = reader.depth
       /\ reader'.state = "ELEMENT" /\ reader'.mode = reader.mode /\ reader'.preserves = RdPreserves
  <2>1. "ELEMENT" \in RdStates
    BY DEF RdStates
  <2>2. reader' \in Readers
    BY <1>1, <1>4, <1>6, <1>9, <2>1 DEF Readers
  <2> QED BY <1>1, <1>4, <2>2 DEF Readers
<1>11. Forest(rdDoc, rdPos, rdLive', rdSKept)
  BY <1>1, <1>8, FreedForest
<1>12. n \notin Anc(rdDoc, m)
  BY <1>1, <1>2, <1>6, SiblingAfter
<1>13. m \in rdLive'
  BY <1>1, <1>2, <1>6, <1>8, <1>12 DEF Freed, Below
<1>14. ASSUME NEW c, ~rdExpanded, Walking(rdDoc, rdPos, rdLive, rdSKept, reader, rdCall, rdSeen, rdHeld, c)
       PROVE \E c2 : MovedTo(c, c2)
  <2>1. /\ c \in 1..rdPos /\ PosAt(rdDoc, n, c)
        /\ reader.depth = Len(RdOpenIn(rdDoc, n - 1)) /\ Tree(rdDoc, rdPos, rdLive, c)
        /\ Memory(rdDoc, rdPos, rdLive, rdSKept, rdHeld, reader.preserves, n, c)
    BY <1>2, <1>14 DEF Walking, At
  <2>2. c \in Nat /\ n <= c
    BY <1>1, <2>1, PosIs
  <2>3. ~(c = n /\ rdDoc[n] = "start")
    BY <1>1, <1>2, <1>4, <1>14, LeftFacts
  <2>4. m > c /\ m <= rdPos
    BY <1>1, <1>6, <2>1, SiblingAfter DEF Forest
  <2>5. PICK e \in (c + 1)..rdPos : Event(rdDoc, e) /\ \A i \in (c + 1)..(e - 1) : ~Event(rdDoc, i)
    <3>1. m \in (c + 1)..rdPos /\ Event(rdDoc, m)
      BY <1>1, <1>6, <2>2, <2>4 DEF Event
    <3> QED BY <1>1, <2>2, <3>1, NextEvent
  <2>6. /\ RdOpenIn(rdDoc, e - 1) = RdOpenIn(rdDoc, n - 1)
        /\ Node(rdDoc, e) => RdFirst(Later(rdDoc, rdLive, n)) = e
        /\ ~Node(rdDoc, e) => Later(rdDoc, rdLive, n) = {}
    BY <1>1, <2>1, <2>3, <2>5, Leaves
  <2>7. e = m
    BY <1>3, <1>5, <2>6
  <2>8. PosAt(rdDoc, m, m) /\ m \in 1..rdPos
    <3>1. m \in 1..rdPos /\ m \in 1..Len(rdDoc)
      BY <1>1, <1>6, <2>4 DEF Forest
    <3> QED BY <1>6, <3>1 DEF PosAt
  <2>9. Anc(rdDoc, m) = Anc(rdDoc, n)
    BY <2>6, <2>7 DEF Anc, Opn
  <2>10. m \notin Anc(rdDoc, n)
    BY <1>6, <2>9, NotOwnAncestor
  <2>11. Around(rdDoc, m) \ {m} = Anc(rdDoc, n) /\ m \in Around(rdDoc, m)
    BY <2>9, <2>10 DEF Around
  <2>12. n \notin Opn(rdDoc, m)
    <3>1. Opn(rdDoc, m) \subseteq Anc(rdDoc, m) \cup {m}
      BY <1>1, <2>8, PosIs
    <3> QED BY <1>1, <1>2, <1>6, <1>12, <3>1
  <2>13. \A i \in (c + 1)..(m - 1) : ~Node(rdDoc, i)
    BY <2>5, <2>7 DEF Event
  <2>14. c < m /\ m <= rdPos /\ m \in rdLive /\ m # n /\ n \in rdLive
    BY <1>1, <1>2, <1>6, <2>2, <2>4
  <2>15. LeavesFor(rdDoc, rdPos, rdLive, n, c, m, m)
    BY <1>12, <2>8, <2>11, <2>12, <2>13, <2>14 DEF LeavesFor
  <2>16. Frees(rdDoc, rdSKept, reader.preserves, n, rdLive, RdPreserves, rdLive')
    BY <1>8, <1>9 DEF Frees
  <2>17. /\ Tree(rdDoc, rdPos, rdLive', m)
         /\ Memory(rdDoc, rdPos, rdLive', rdSKept, rdHeld, RdPreserves, m, m)
    BY <1>1, <2>1, <2>14, <2>15, <2>16, LeaveNode
  <2>18. At(rdDoc, m, m, "ELEMENT")
    BY <2>8 DEF At
  <2>19. Count(rdDoc, m) = Count(rdDoc, c) + 1
    BY <1>6, <2>2, <2>5, <2>7, <2>14, CountNext
  <2>20. RdOpenIn(rdDoc, m - 1) = RdOpenIn(rdDoc, n - 1)
    BY <2>6, <2>7
  <2>21. MovedTo(c, m)
    BY <1>10, <2>1, <2>8, <2>17, <2>18, <2>19, <2>20 DEF MovedTo
  <2> QED BY <2>21
<1> QED BY <1>4, <1>10, <1>11, <1>13, <1>14, Moves

LEMMA StepParent ==
  ASSUME RdInv, rdCall.at = "fill", ~FillMore, ReadParent, UNCHANGED <<rdDoc, rdPos, rdSKept, RdHistory>>
  PROVE  RdInv'
<1>1. /\ reader \in Readers /\ IsDoc(rdDoc) /\ Forest(rdDoc, rdPos, rdLive, rdSKept)
      /\ rdPos \in Nat /\ Len(rdDoc) \in Nat /\ reader.node \in Nat /\ reader.node \in rdLive
      /\ reader.node >= 1 /\ \A m \in rdLive : m \in Nat /\ m >= 1
  BY FillFacts
<1>2. PICK n, p : n = reader.node /\ p = Par(rdDoc, n)
  OBVIOUS
<1>3. RdParent(n) = p /\ RdChildren(p) = Kids(rdDoc, rdLive, p) /\ RdNext(n) = RdFirst(Later(rdDoc, rdLive, n))
  BY <1>2, SameTree
<1>4. /\ p # 0 /\ ~RdDescends /\ ~RdNeedsEnd /\ RdFirst(Later(rdDoc, rdLive, n)) = 0
      /\ reader' = [reader EXCEPT !.node = p, !.depth = @ - 1, !.state = "BACKTRACK", !.preserves = RdPreserves]
      /\ rdLive' = IF RdPreserves = 0 /\ RdLast(RdChildren(p)) \notin rdKept
                   THEN RdFreed(rdLive, RdLast(RdChildren(p))) ELSE rdLive
      /\ RdAt("found")
  BY <1>2, <1>3 DEF ReadParent
<1>5. Later(rdDoc, rdLive, n) = {}
  <2>1. Later(rdDoc, rdLive, n) \in SUBSET (Nat \ {0})
    BY <1>1 DEF Later
  <2> QED BY <1>4, <2>1, FirstNone
<1>6. RdLast(RdChildren(p)) = n
  <2>1. PICK S : S = Kids(rdDoc, rdLive, p)
    OBVIOUS
  <2>2. n \in S /\ S \in SUBSET Nat
    BY <1>1, <1>2, <2>1 DEF Kids
  <2>3. \A x \in S : n >= x
    BY <1>1, <1>2, <1>5, <2>1 DEF Kids, Later
  <2> QED BY <1>3, <2>1, <2>2, <2>3, LastIs
<1>7. rdLive' = IF RdPreserves = 0 /\ n \notin KeptOf(rdDoc, rdSKept) THEN Freed(rdDoc, rdLive, n) ELSE rdLive
  BY <1>4, <1>6, SameTree, SameKept
<1>8. /\ RdPreserves = (IF reader.preserves > 0 /\ n \in rdSKept THEN reader.preserves - 1 ELSE reader.preserves)
      /\ RdPreserves \in Nat
  BY <1>1, <1>2, PreservesTyped
<1>9. /\ p \in 1..(n - 1) /\ p \in Anc(rdDoc, n) /\ rdDoc[p] = "start"
      /\ Anc(rdDoc, n) = Anc(rdDoc, p) \cup {p} /\ p \in Nat /\ p >= 1
      /\ Len(RdOpenIn(rdDoc, n - 1)) = Len(RdOpenIn(rdDoc, p - 1)) + 1
  BY <1>1, <1>2, <1>4, ParIs
<1>10. /\ reader' \in Readers /\ reader'.node = p /\ reader'.depth = reader.depth - 1
       /\ reader'.state = "BACKTRACK" /\ reader'.mode = reader.mode /\ reader'.preserves = RdPreserves
  <2>1. "BACKTRACK" \in RdStates /\ reader.depth \in Int /\ reader.depth - 1 \in Int
    BY <1>1 DEF RdStates, Readers
  <2>2. reader' \in Readers
    BY <1>1, <1>4, <1>8, <1>9, <2>1 DEF Readers
  <2> QED BY <1>1, <1>4, <2>2 DEF Readers
<1>11. Forest(rdDoc, rdPos, rdLive', rdSKept)
  BY <1>1, <1>7, FreedForest
<1>12. n \notin Anc(rdDoc, p) /\ p # n /\ p \in rdLive
  <2>1. n \in Anc(rdDoc, p) => n \in 1..(p - 1)
    BY <1>9, AncIs
  <2> QED BY <1>1, <1>2, <1>9, <2>1 DEF Forest
<1>13. p \in rdLive'
  BY <1>7, <1>12 DEF Freed, Below
<1>14. ASSUME NEW c, ~rdExpanded, Walking(rdDoc, rdPos, rdLive, rdSKept, reader, rdCall, rdSeen, rdHeld, c)
       PROVE \E c2 : MovedTo(c, c2)
  <2>1. /\ c \in 1..rdPos /\ PosAt(rdDoc, n, c)
        /\ reader.depth = Len(RdOpenIn(rdDoc, n - 1)) /\ Tree(rdDoc, rdPos, rdLive, c)
        /\ Memory(rdDoc, rdPos, rdLive, rdSKept, rdHeld, reader.preserves, n, c)
    BY <1>2, <1>14 DEF Walking, At
  <2>2. c \in Nat /\ n <= c
    BY <1>1, <2>1, PosIs
  <2>3. ~(c = n /\ rdDoc[n] = "start")
    BY <1>1, <1>2, <1>4, <1>14, LeftFacts
  <2>4. ~ \A i \in (c + 1)..rdPos : ~Event(rdDoc, i)
    BY <1>2, <1>4, <1>14, <2>3, EnoughLeft
  <2>5. PICK e \in (c + 1)..rdPos : Event(rdDoc, e) /\ \A i \in (c + 1)..(e - 1) : ~Event(rdDoc, i)
    BY <1>1, <2>2, <2>4, NextEvent
  <2>6. /\ Node(rdDoc, e) => RdFirst(Later(rdDoc, rdLive, n)) = e
        /\ ~Node(rdDoc, e) => PosAt(rdDoc, Par(rdDoc, n), e) /\ rdDoc[e] = "end"
    BY <1>1, <2>1, <2>3, <2>5, Leaves
  <2>7. e \in Nat /\ c < e /\ e <= rdPos /\ e # 0 /\ e \in 1..rdPos
    BY <1>1, <2>2
  <2>8. ~Node(rdDoc, e) /\ PosAt(rdDoc, p, e) /\ rdDoc[e] = "end"
    BY <1>2, <1>4, <2>6, <2>7
  <2>9. Around(rdDoc, p) \ {e} = Anc(rdDoc, n)
    <3>1. e \notin Anc(rdDoc, n)
      <4>1. e \in Anc(rdDoc, n) => e \in 1..(n - 1)
        BY <1>1, <1>2, AncIs
      <4> QED BY <1>1, <1>2, <2>2, <2>7, <4>1
    <3> QED BY <1>9, <3>1 DEF Around
  <2>10. n \notin Opn(rdDoc, e)
    <3>1. Opn(rdDoc, e) \subseteq Anc(rdDoc, p) \cup {p}
      BY <1>1, <2>8, PosIs
    <3> QED BY <1>12, <3>1
  <2>11. \A i \in (c + 1)..(e - 1) : ~Node(rdDoc, i)
    BY <2>5 DEF Event
  <2>12. LeavesFor(rdDoc, rdPos, rdLive, n, c, p, e)
    BY <1>12, <2>7, <2>8, <2>9, <2>10, <2>11 DEF LeavesFor
  <2>13. Frees(rdDoc, rdSKept, reader.preserves, n, rdLive, RdPreserves, rdLive')
    BY <1>7, <1>8 DEF Frees
  <2>14. /\ Tree(rdDoc, rdPos, rdLive', e)
         /\ Memory(rdDoc, rdPos, rdLive', rdSKept, rdHeld, RdPreserves, p, e)
    BY <1>1, <1>2, <2>1, <2>12, <2>13, LeaveNode
  <2>15. At(rdDoc, p, e, "BACKTRACK")
    <3>1. e # p
      BY <1>1, <1>2, <1>9, <2>2, <2>7
    <3> QED BY <2>8, <3>1 DEF At
  <2>16. Count(rdDoc, e) = Count(rdDoc, c) + 1
    BY <2>2, <2>5, <2>7, CountNext
  <2>17. reader.depth - 1 = Len(RdOpenIn(rdDoc, p - 1))
    <3>1. p - 1 \in Nat
      BY <1>9
    <3>2. Len(RdOpenIn(rdDoc, p - 1)) \in Nat
      BY <3>1, OpenTyped
    <3> QED BY <1>9, <2>1, <3>2
  <2>18. MovedTo(c, e)
    BY <1>10, <2>7, <2>14, <2>15, <2>16, <2>17 DEF MovedTo
  <2> QED BY <2>18
<1> QED BY <1>4, <1>10, <1>11, <1>13, <1>14, Moves

LEMMA StepStep ==
  ASSUME RdInv, ReadStep
  PROVE  RdInv'
<1>1. rdCall.at = "fill" /\ ~FillMore /\ UNCHANGED <<rdDoc, rdPos, rdSKept, RdHistory>>
  BY DEF ReadStep
<1>2. CASE ReadChild
  BY <1>1, <1>2, StepChild
<1>3. CASE ReadEmptyEnd
  BY <1>1, <1>3, StepEmptyEnd
<1>4. CASE ReadSibling
  BY <1>1, <1>4, StepSibling
<1>5. CASE ReadParent
  BY <1>1, <1>5, StepParent
<1> QED BY <1>2, <1>3, <1>4, <1>5 DEF ReadStep

(* The last node is left when there is nothing more to report.             *)
LEMMA StepEnd ==
  ASSUME RdInv, ReadEnd
  PROVE  RdInv'
<1>0. /\ rdCall.at = "fill" /\ ~FillMore /\ ~RdDescends /\ ~RdNeedsEnd
      /\ RdNext(reader.node) = 0 /\ RdParent(reader.node) = 0
      /\ UNCHANGED <<rdDoc, rdPos, rdSKept, rdSeen, rdExpanded, rdHeld>>
      /\ RdReturn
  BY DEF ReadEnd
<1>1. /\ Common(rdDoc, rdPos, rdLive, rdSKept, reader, rdCall, rdExpanded)
      /\ Reading(rdDoc, rdPos, rdLive, rdSKept, reader, rdCall, rdSeen, rdMissed, rdExpanded, rdHeld)
      /\ reader \in Readers /\ IsDoc(rdDoc) /\ Forest(rdDoc, rdPos, rdLive, rdSKept)
      /\ rdPos \in Nat /\ Len(rdDoc) \in Nat /\ reader.node \in Nat /\ reader.node \in rdLive
      /\ reader.node >= 1 /\ \A m \in rdLive : m \in Nat /\ m >= 1
      /\ reader.mode \notin {"INITIAL", "ERROR"}
  BY <1>0, FillFacts
<1>2. PICK n : n = reader.node
  OBVIOUS
<1>3. ASSUME NEW c, ~rdExpanded, Walking(rdDoc, rdPos, rdLive, rdSKept, reader, rdCall, rdSeen, rdHeld, c)
      PROVE  rdPos = c /\ rdPos = Len(rdDoc) /\ reader.mode = "EOF" /\ Par(rdDoc, n) = 0
  <2>1. /\ c \in 1..rdPos /\ PosAt(rdDoc, n, c) /\ Tree(rdDoc, rdPos, rdLive, c)
    BY <1>2, <1>3 DEF Walking, At
  <2>2. c \in Nat
    BY <1>1, <2>1, PosIs
  <2>3. ~(c = n /\ rdDoc[n] = "start")
    BY <1>0, <1>1, <1>2, <1>3, LeftFacts
  <2>4. Par(rdDoc, n) = 0 /\ RdFirst(Later(rdDoc, rdLive, n)) = 0
    BY <1>0, <1>2, SameTree
  <2>5. CASE \A i \in (c + 1)..rdPos : ~Event(rdDoc, i)
    BY <1>0, <1>2, <1>3, <2>3, <2>5, EnoughLeft
  <2>6. CASE ~ \A i \in (c + 1)..rdPos : ~Event(rdDoc, i)
    <3>1. PICK e \in (c + 1)..rdPos : Event(rdDoc, e) /\ \A i \in (c + 1)..(e - 1) : ~Event(rdDoc, i)
      BY <1>1, <2>2, <2>6, NextEvent
    <3>2. /\ Node(rdDoc, e) => RdFirst(Later(rdDoc, rdLive, n)) = e
          /\ ~Node(rdDoc, e) => Par(rdDoc, n) # 0
      BY <1>1, <2>1, <2>3, <3>1, Leaves
    <3>3. e # 0
      BY <2>2
    <3> QED BY <2>4, <3>2, <3>3
  <2> QED BY <2>5, <2>6
<1>4. rdPos = Len(rdDoc) /\ reader.mode = "EOF"
  <2>1. CASE rdExpanded
    BY <1>1, <2>1 DEF Common
  <2>2. CASE ~rdExpanded
    BY <1>1, <1>3, <2>2 DEF Reading
  <2> QED BY <2>1, <2>2
<1>5. reader' = [reader EXCEPT !.node = 0, !.depth = -1, !.state = "DONE", !.preserves = RdPreserves]
  BY <1>4 DEF ReadEnd
<1>6. RdPreserves \in Nat /\ RdPreserves = (IF reader.preserves > 0 /\ n \in rdSKept THEN reader.preserves - 1 ELSE reader.preserves)
  BY <1>1, <1>2, PreservesTyped
<1>7. reader' \in Readers /\ reader'.node = 0 /\ reader'.state = "DONE" /\ reader'.mode = "EOF"
  <2>1. "DONE" \in RdStates /\ -1 \in Int /\ 0 \in Nat
    BY DEF RdStates
  <2>2. reader' \in Readers
    BY <1>1, <1>5, <1>6, <2>1 DEF Readers
  <2> QED BY <1>1, <1>4, <1>5, <2>2 DEF Readers
<1>8. PICK o : o = rdCall.oldnode
  OBVIOUS
<1>9. rdLive' = IF RdPreserves = 0 /\ o \notin KeptOf(rdDoc, rdSKept) THEN Freed(rdDoc, rdLive, o) ELSE rdLive
  BY <1>7, <1>8, SameTree, SameKept DEF ReadEnd
<1>10. Forest(rdDoc, rdPos, rdLive', rdSKept)
  BY <1>1, <1>9, FreedForest
<1>11. rdCall' \in Calls /\ rdCall'.at = "idle"
  BY <1>0, IdleTyped DEF RdReturn
<1>12. Common(rdDoc', rdPos', rdLive', rdSKept', reader', rdCall', rdExpanded')
  BY <1>0, <1>1, <1>4, <1>7, <1>10, <1>11 DEF Common
<1>13. ASSUME ~rdExpanded
       PROVE  rdMissed' = {} /\ \A h \in rdHeld : {m \in Below(rdDoc, h) : m <= rdPos} \subseteq rdLive'
  <2>1. PICK c : Walking(rdDoc, rdPos, rdLive, rdSKept, reader, rdCall, rdSeen, rdHeld, c)
    BY <1>1, <1>13 DEF Reading
  <2>2. rdPos = c /\ c = Len(rdDoc) /\ Par(rdDoc, n) = 0
    BY <1>3, <1>13, <2>1
  <2>3. /\ rdSeen = Count(rdDoc, c) - 0 /\ o = n /\ PosAt(rdDoc, n, c)
        /\ Memory(rdDoc, rdPos, rdLive, rdSKept, rdHeld, reader.preserves, n, c)
    BY <1>0, <1>1, <1>2, <1>8, <2>1 DEF Walking, Common, At
  <2>4. rdMissed' = {}
    <3>1. rdMissed = {}
      BY <1>1, <1>13 DEF Reading
    <3>2. Len(RdEvents) = Count(rdDoc, c)
      BY <1>1, <2>2, EventsAre
    <3>3. Count(rdDoc, c) \in Nat
      BY <1>1, <2>2, CountStep
    <3>4. (rdSeen + 1)..Len(RdEvents) = {}
      BY <2>3, <3>2, <3>3
    <3>5. rdMissed' = rdMissed \cup {RdEvents[i] : i \in (rdSeen + 1)..Len(RdEvents)}
      BY <1>7 DEF ReadEnd
    <3> QED BY <3>1, <3>4, <3>5
  <2>5. ASSUME NEW h \in rdHeld, NEW m \in Below(rdDoc, h), m <= rdPos PROVE m \in rdLive'
    <3>1. m \in rdLive /\ h \in rdSKept
      BY <2>3, <2>5 DEF Memory
    <3>2. SUFFICES ASSUME m \notin rdLive' PROVE FALSE
      OBVIOUS
    <3>3. RdPreserves = 0 /\ n \notin KeptOf(rdDoc, rdSKept) /\ (m = n \/ n \in Anc(rdDoc, m))
      BY <1>9, <2>3, <3>1, <3>2 DEF Freed, Below
    <3>4. h \in Anc(rdDoc, m) /\ m \in Nat /\ m >= 1
      BY <1>1, <3>1 DEF Below
    <3>5. Anc(rdDoc, n) = {}
      BY <1>1, <1>2, <2>2, ParIs
    <3>6. n \in Anc(rdDoc, m) /\ h # n
      BY <3>1, <3>3, <3>4, <3>5 DEF KeptOf
    <3>7. h \in 1..(m - 1) /\ n \in 1..(m - 1)
      BY <3>4, <3>6, AncIs
    <3>8. m - 1 \in Nat /\ h - 1 \in Nat /\ n - 1 \in Nat /\ h \in Nat /\ n \in Nat
      BY <3>4, <3>7
    <3>9. CASE h < n
      <4>1. h <= n - 1 /\ n - 1 <= m - 1
        BY <3>4, <3>7, <3>8, <3>9
      <4>2. h \in Opn(rdDoc, n - 1)
        BY <3>4, <3>8, <4>1, OpenKept DEF Anc
      <4> QED BY <3>5, <4>2 DEF Anc
    <3>10. CASE n < h
      <4>1. n <= h - 1 /\ h - 1 <= m - 1
        BY <3>4, <3>7, <3>8, <3>10
      <4>2. n \in Opn(rdDoc, h - 1)
        BY <3>6, <3>8, <4>1, OpenKept DEF Anc
      <4> QED BY <3>1, <3>3, <4>2 DEF KeptOf, Anc
    <3> QED BY <3>6, <3>8, <3>9, <3>10
  <2> QED BY <2>4, <2>5
<1>14. Over(rdDoc', rdPos', rdLive', reader', rdCall', rdMissed', rdExpanded', rdHeld')
  BY <1>0, <1>4, <1>7, <1>11, <1>13 DEF Over
<1> QED BY <1>12, <1>14, InvOver

LEMMA InvNext ==
  ASSUME RdInv, [RdNextStep]_rdVars
  PROVE  RdInv'
<1>1. CASE UNCHANGED rdVars
  BY <1>1 DEF rdVars, RdInv
<1>2. CASE xmlTextReaderNext
  BY <1>2, StepNext
<1>3. CASE xmlTextReaderExpand
  BY <1>3, StepExpand
<1>4. CASE xmlTextReaderPreserve
  BY <1>4, StepPreserve
<1>5. CASE ReadFirst
  BY <1>5, StepFirst
<1>6. CASE InitialPush
  BY <1>6, StepInitialPush
<1>7. CASE InitialFound
  BY <1>7, StepInitialFound
<1>8. CASE ReadNothing
  BY <1>8, StepNothing
<1>9. CASE ReadOn
  BY <1>9, StepOn
<1>10. CASE FillPush
  BY <1>10, StepFillPush
<1>11. CASE ReadStep
  BY <1>11, StepStep
<1>12. CASE ReadEnd
  BY <1>12, StepEnd
<1>13. CASE ReadFound
  BY <1>13, StepFound
<1>14. CASE ExpandPush
  BY <1>14, StepExpandPush
<1>15. CASE ExpandReturns
  BY <1>15, StepExpandReturns
<1>16. CASE RdError
  BY <1>16, StepError
<1> QED BY <1>1, <1>2, <1>3, <1>4, <1>5, <1>6, <1>7, <1>8, <1>9, <1>10, <1>11, <1>12, <1>13,
           <1>14, <1>15, <1>16 DEF RdNextStep

(* RdInOrder: the events come in document order, each once, with their     *)
(* depth and all of their text, for every document and every way to cut    *)
(* it, until an Expand meets the end of the input.                         *)
THEOREM ReaderInOrder == RdSpec => []RdInOrder
<1>1. RdInit => RdInv
  BY InvInit
<1>2. RdInv /\ [RdNextStep]_rdVars => RdInv'
  BY InvNext
<1>3. RdInv => RdInOrder
  BY DEF RdInv, Inv, Starting, Reading, Over, RdInOrder
<1> QED BY <1>1, <1>2, <1>3, PTL DEF RdSpec

(* The last node before a text token that the parser has delivered.        *)
LEMMA TextStart ==
  ASSUME NEW d, IsDoc(d), NEW j \in 1..Len(d), d[j] = "text"
  PROVE  \E u \in 1..j : Node(d, u) /\ \A i \in u..j : d[i] = "text"
<1>0. Len(d) \in Nat
  BY DEF IsDoc
<1> DEFINE S == {u \in 1..j : \A i \in u..j : d[i] = "text"}
<1>1. j \in S
  <2>1. \A i \in j..j : i = j
    BY <1>0
  <2> QED BY <2>1
<1>2. S \in SUBSET Nat
  <2>1. S \subseteq 1..j
    OBVIOUS
  <2>2. 1..j \subseteq Nat
    BY <1>0
  <2> HIDE DEF S
  <2> QED BY <2>1, <2>2
<1>2a. S # {}
  <2> HIDE DEF S
  <2> QED BY <1>1
<1>3. PICK u \in S : \A m \in S : u <= m
  <2> HIDE DEF S
  <2> QED BY <1>2, <1>2a, LeastNat
<1>4. u \in Nat /\ u \in 1..j /\ j \in Nat /\ \A i \in u..j : d[i] = "text"
  BY <1>0, <1>3
<1>5. d[u] = "text"
  BY <1>4
<1>6. ~(u > 1 /\ d[u - 1] = "text")
  <2> SUFFICES ASSUME u > 1, d[u - 1] = "text" PROVE FALSE
    OBVIOUS
  <2>1. u - 1 \in 1..j /\ u - 1 < u
    BY <1>4
  <2>2. ASSUME NEW i \in (u - 1)..j PROVE d[i] = "text"
    <3>1. i = u - 1 \/ i \in u..j
      BY <1>4
    <3> QED BY <1>4, <3>1
  <2>3. u - 1 \in S
    BY <2>1, <2>2
  <2> QED BY <1>3, <1>4, <2>1, <2>3
<1>7. Node(d, u)
  BY <1>5, <1>6 DEF Node
<1> QED BY <1>4, <1>7

LEMMA TextLast ==
  ASSUME NEW d, IsDoc(d), NEW j \in 1..Len(d), d[j] = "text"
  PROVE  LET u == RdLast({n \in 1..j : Node(d, n)})
         IN  u \in 1..j /\ Node(d, u) /\ \A i \in u..j : d[i] = "text"
<1>0. Len(d) \in Nat /\ j \in Nat
  BY DEF IsDoc
<1>1. PICK u \in 1..j : Node(d, u) /\ \A i \in u..j : d[i] = "text"
  BY TextStart
<1>2. PICK S : S = {n \in 1..j : Node(d, n)}
  OBVIOUS
<1>3. u \in S /\ S \in SUBSET Nat
  BY <1>0, <1>1, <1>2
<1>4. ASSUME NEW x \in S PROVE u >= x
  <2>1. x \in 1..j /\ Node(d, x) /\ x \in Nat /\ u \in Nat
    BY <1>0, <1>2
  <2> SUFFICES ASSUME x > u PROVE FALSE
    BY <2>1
  <2>2. x \in u..j /\ x - 1 \in u..j /\ x > 1
    BY <1>0, <1>1, <2>1
  <2>3. d[x] = "text" /\ d[x - 1] = "text"
    BY <1>1, <2>2
  <2> QED BY <2>1, <2>2, <2>3 DEF Node
<1>5. RdLast(S) = u
  BY <1>3, <1>4, LastIs
<1> QED BY <1>1, <1>2, <1>5

LEMMA InvMemory ==
  ASSUME RdInv
  PROVE  RdMemory
<1>1. Common(rdDoc, rdPos, rdLive, rdSKept, reader, rdCall, rdExpanded)
  BY Phases
<1>2. /\ IsDoc(rdDoc) /\ Forest(rdDoc, rdPos, rdLive, rdSKept) /\ reader \in Readers
      /\ reader.node \in rdLive \cup {0}
  BY <1>1 DEF Common
<1>3. rdPos \in Nat /\ Len(rdDoc) \in Nat /\ rdPos <= Len(rdDoc) /\ (rdPos + 1) - 1 = rdPos
  BY <1>2 DEF Forest, IsDoc
<1>4. RdAncestors(rdPos + 1) = Opn(rdDoc, rdPos)
  <2>1. RdAncestors(rdPos + 1) = Anc(rdDoc, rdPos + 1)
    BY SameTree
  <2> QED BY <1>3, <2>1 DEF Anc
<1>5. PICK T : T = {n \in 1..rdPos : RdNodeAt(n)}
  OBVIOUS
<1>6. T = {n \in 1..rdPos : Node(rdDoc, n)}
  BY <1>5, SameNode
<1>7. rdKept \subseteq rdLive
  BY <1>2, SameKept DEF KeptOf, Forest
<1>8. \A x : RdBelow(x) = Below(rdDoc, x) /\ RdAncestors(x) = Anc(rdDoc, x)
  BY SameTree
<1>9. ASSUME rdPos = Len(rdDoc)
      PROVE  RdAncestors(rdPos + 1) \subseteq rdLive /\ ~(rdPos > 0 /\ rdDoc[rdPos] = "text")
  <2>1. RdOpenIn(rdDoc, rdPos) = <<>>
    BY <1>2, <1>9 DEF IsDoc
  <2>2. Opn(rdDoc, rdPos) = {}
    <3>1. Len(RdOpenIn(rdDoc, rdPos)) = 0
      BY <2>1
    <3> QED BY <3>1 DEF Opn
  <2>3. ~(rdPos > 0 /\ rdDoc[rdPos] = "text")
    <3> SUFFICES ASSUME rdPos > 0, rdDoc[rdPos] = "text" PROVE FALSE
      OBVIOUS
    <3>1. rdPos \in 1..Len(rdDoc) /\ rdPos >= 1
      BY <1>3
    <3>2. RdOpenIn(rdDoc, rdPos - 1) # <<>>
      BY <1>2, <3>1 DEF IsDoc
    <3>3. RdOpenIn(rdDoc, rdPos) = RdOpenIn(rdDoc, rdPos - 1)
      BY <1>3, <3>1, LeafSame
    <3> QED BY <2>1, <3>2, <3>3
  <2> QED BY <1>4, <2>2, <2>3
<1>10. CASE rdExpanded
  <2>1. rdPos = Len(rdDoc)
    BY <1>1, <1>10 DEF Common
  <2> QED BY <1>2, <1>7, <1>9, <1>10, <2>1 DEF RdMemory
<1>11. CASE Starting(rdDoc, rdPos, rdLive, rdSKept, reader, rdCall, rdSeen, rdMissed, rdExpanded, rdHeld)
  <2>1. reader.node = 0 /\ rdHeld = {} /\ Tree(rdDoc, rdPos, rdLive, 0)
    BY <1>11 DEF Starting
  <2>2. \A x \in 1..rdPos : Node(rdDoc, x) => x \in rdLive
    <3>1. \A x \in 1..rdPos : x \in (0 + 1)..rdPos
      OBVIOUS
    <3> QED BY <2>1, <3>1 DEF Tree
  <2>3. RdAncestors(rdPos + 1) \subseteq rdLive
    BY <1>3, <1>4, <2>2, OpensTyped DEF Node
  <2>4. ASSUME rdPos > 0, rdDoc[rdPos] = "text" PROVE RdLast(T) \in rdLive
    <3>1. rdPos \in 1..Len(rdDoc)
      BY <1>3, <2>4
    <3>2. RdLast(T) \in 1..rdPos /\ Node(rdDoc, RdLast(T))
      BY <1>2, <1>6, <2>4, <3>1, TextLast
    <3> QED BY <2>2, <3>2
  <2> QED BY <1>5, <1>7, <2>1, <2>3, <2>4 DEF RdMemory
<1>12. CASE Over(rdDoc, rdPos, rdLive, reader, rdCall, rdMissed, rdExpanded, rdHeld)
  <2>1. reader.node = 0 /\ rdPos = Len(rdDoc)
    BY <1>12 DEF Over
  <2>2. rdExpanded \/ \A n \in rdHeld : {m \in RdBelow(n) : m <= rdPos} \subseteq rdLive
    BY <1>8, <1>12 DEF Over
  <2> QED BY <1>7, <1>9, <2>1, <2>2 DEF RdMemory
<1>13. CASE ~rdExpanded /\ Reading(rdDoc, rdPos, rdLive, rdSKept, reader, rdCall, rdSeen, rdMissed, rdExpanded, rdHeld)
  <2>1. PICK c : Walking(rdDoc, rdPos, rdLive, rdSKept, reader, rdCall, rdSeen, rdHeld, c)
    BY <1>13 DEF Reading
  <2>2. PICK n : n = reader.node
    OBVIOUS
  <2>3. /\ c \in 1..rdPos /\ PosAt(rdDoc, n, c) /\ Tree(rdDoc, rdPos, rdLive, c) /\ n \in rdLive
        /\ Memory(rdDoc, rdPos, rdLive, rdSKept, rdHeld, reader.preserves, n, c)
    BY <1>2, <1>13, <2>1, <2>2 DEF Walking, At, Reading
  <2>4. c \in Nat /\ n \in Nat /\ n >= 1 /\ n <= c /\ c <= rdPos /\ Event(rdDoc, c)
    BY <1>2, <1>3, <2>3, PosIs
  <2>5. RdAncestors(rdPos + 1) \subseteq rdLive
    BY <1>2, <1>4, <2>3, <2>4, OpenLive
  <2>6. ASSUME rdPos > 0, rdDoc[rdPos] = "text" PROVE RdLast(T) \in rdLive
    <3>1. rdPos \in 1..Len(rdDoc)
      BY <1>3, <2>6
    <3>2. PICK u : u = RdLast(T)
      OBVIOUS
    <3>3. u \in 1..rdPos /\ Node(rdDoc, u) /\ \A i \in u..rdPos : rdDoc[i] = "text"
      BY <1>2, <1>6, <2>6, <3>1, <3>2, TextLast
    <3>4. CASE u > c
      <4>1. u \in (c + 1)..rdPos
        BY <2>4, <3>3, <3>4
      <4> QED BY <2>3, <3>2, <3>3, <4>1 DEF Tree
    <3>5. CASE u = c
      <4>1. n = c
        BY <2>3, <3>3, <3>5 DEF PosAt, Node
      <4> QED BY <2>3, <3>2, <3>5, <4>1
    <3>6. CASE u < c
      <4>1. c \in u..rdPos /\ c - 1 \in u..rdPos /\ c > 1
        BY <1>3, <2>4, <3>3, <3>6
      <4>2. rdDoc[c] = "text" /\ rdDoc[c - 1] = "text"
        BY <3>3, <4>1
      <4> QED BY <2>4, <4>1, <4>2 DEF Event, Node
    <3> QED BY <2>4, <3>3, <3>4, <3>5, <3>6
  <2>7. \A h \in rdHeld : {m \in RdBelow(h) : m <= rdPos} \subseteq rdLive
    BY <1>8, <2>3 DEF Memory
  <2>8. ASSUME reader.preserves = 0, NEW x \in rdLive
        PROVE  x >= n \/ x \in RdAncestors(n) \/ x \in rdKept \/ RdAncestors(x) \cap rdSKept # {}
    <3>1. rdSKept \subseteq 1..c /\ 0 >= Cardinality(rdSKept \cap Around(rdDoc, n)) /\ Level0(rdDoc, rdLive, rdSKept, 0, n, c)
      BY <2>3, <2>8 DEF Memory
    <3>2. Cardinality(rdSKept \cap Around(rdDoc, n)) \in Nat
      BY <2>4, <3>1, KeptFinite
    <3>3. 0 = Cardinality(rdSKept \cap Around(rdDoc, n))
      BY <3>1, <3>2
    <3>4. x > c \/ x \in Around(rdDoc, n) \/ Holds(rdDoc, rdSKept, x)
      BY <3>1, <3>3 DEF Level0
    <3>5. x \in Nat
      BY <1>2, <1>3 DEF Forest
    <3>6. CASE x > c
      BY <2>4, <3>5, <3>6
    <3>7. CASE x \in Around(rdDoc, n)
      BY <1>8, <2>4, <3>7 DEF Around
    <3>8. CASE Holds(rdDoc, rdSKept, x)
      BY <1>8, <3>8, SameKept DEF Holds
    <3> QED BY <3>4, <3>6, <3>7, <3>8
  <2> QED BY <1>5, <1>7, <2>2, <2>3, <2>5, <2>6, <2>7, <2>8 DEF RdMemory
<1> QED BY <1>10, <1>11, <1>12, <1>13 DEF RdInv, Inv

(* RdMemory: no node in use is freed, and what the reader leaves behind    *)
(* is, for every document and every way to cut it.                         *)
THEOREM ReaderMemory == RdSpec => []RdMemory
<1>1. RdInit => RdInv
  BY InvInit
<1>2. RdInv /\ [RdNextStep]_rdVars => RdInv'
  BY InvNext
<1>3. RdInv => RdMemory
  BY InvMemory
<1> QED BY <1>1, <1>2, <1>3, PTL DEF RdSpec

=============================================================================
