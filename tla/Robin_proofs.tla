--------------------------- MODULE Robin_proofs ---------------------------
(***************************************************************************)
(* Proofs about the hash table for any size, fill factor, keys and hash    *)
(* values.  The entries are in Robin Hood order: one that is d slots from  *)
(* its home, d > 0, follows one that is at least d - 1 slots from its own. *)
(* From it follow where a probe stops, what an insertion and a removal may *)
(* shift, and that a table that is grown from the start of a run of        *)
(* entries is in that order again.                                         *)
(***************************************************************************)
EXTENDS RobinHood, Induction, FiniteSetTheorems, TLAPS

(* Slots a and b steps after it, and how far a is after b, in a table of n *)
(* slots.                                                                  *)
After(n, a, b) == IF a + b < n THEN a + b ELSE a + b - n
Behind(n, a, b) == IF a >= b THEN a - b ELSE a - b + n

LEMMA NoMultiple ==
  ASSUME NEW n \in Nat \ {0}, NEW d \in Int, NEW x \in Int, d * n = x, x < n, x > 0 - n
  PROVE  d = 0
<1>1. d >= 1 => d * n >= n
  OBVIOUS
<1>2. d <= 0 - 1 => d * n <= 0 - n
  OBVIOUS
<1> QED BY <1>1, <1>2

LEMMA Remainder ==
  ASSUME NEW n \in Nat \ {0}, NEW a \in Int, NEW r \in 0..(n - 1), NEW q \in Int, a = q * n + r
  PROVE  a % n = r
<1> DEFINE q2 == a \div n
           r2 == a % n
<1>1. q2 \in Int /\ r2 \in 0..(n - 1) /\ a = q2 * n + r2
  OBVIOUS
<1> HIDE DEF q2, r2
<1>2. (q - q2) * n = r2 - r
  BY <1>1
<1>3. q - q2 \in Int /\ r2 - r \in Int /\ r2 - r < n /\ r2 - r > 0 - n
  BY <1>1
<1>4. q - q2 = 0
  BY <1>2, <1>3, NoMultiple
<1>5. q2 = q
  BY <1>1, <1>4
<1>6. r2 = r
  BY <1>5, <1>1
<1> QED BY <1>6 DEF r2

LEMMA ModIn ==
  ASSUME NEW n \in Nat \ {0}, NEW a \in Int
  PROVE  a % n \in 0..(n - 1)
OBVIOUS

(* The remainder of any a that is r more than a multiple.                  *)
LEMMA RemainderIs ==
  ASSUME NEW n \in Nat \ {0}, NEW a \in Int, NEW r \in 0..(n - 1),
         \E q \in Int : a = q * n + r
  PROVE  a % n = r
BY Remainder

LEMMA ModAfter ==
  ASSUME NEW n \in Nat \ {0}, NEW a \in Nat, NEW b \in 0..n
  PROVE  (a + b) % n = After(n, a % n, b)
<1> DEFINE q == a \div n
           r == a % n
<1>1. q \in Int /\ r \in 0..(n - 1) /\ a = q * n + r
  OBVIOUS
<1> HIDE DEF q, r
<1>2. PICK x \in Int : x = a + b
  OBVIOUS
<1>3. After(n, r, b) \in 0..(n - 1)
  BY <1>1 DEF After
<1>4. \E p \in Int : x = p * n + After(n, r, b)
  <2>1. CASE r + b < n
    <3>1. x = q * n + After(n, r, b) /\ q \in Int
      BY <1>1, <1>2, <2>1 DEF After
    <3> QED BY <3>1, Zenon
  <2>2. CASE r + b >= n
    <3>1. x = (q + 1) * n + After(n, r, b) /\ q + 1 \in Int
      BY <1>1, <1>2, <2>2 DEF After
    <3> QED BY <3>1, Zenon
  <2> QED BY <1>1, <2>1, <2>2
<1>5. x % n = After(n, r, b)
  BY <1>2, <1>3, <1>4, RemainderIs
<1> QED BY <1>2, <1>5 DEF r

LEMMA ModBehind ==
  ASSUME NEW n \in Nat \ {0}, NEW i \in 0..(n - 1), NEW hv \in Nat
  PROVE  (i - hv) % n = Behind(n, i, hv % n)
<1> DEFINE q == hv \div n
           r == hv % n
<1>1. q \in Int /\ r \in 0..(n - 1) /\ hv = q * n + r
  OBVIOUS
<1> HIDE DEF q, r
<1>2. PICK x \in Int : x = i - hv
  OBVIOUS
<1>3. Behind(n, i, r) \in 0..(n - 1)
  BY <1>1 DEF Behind
<1>4. \E p \in Int : x = p * n + Behind(n, i, r)
  <2>1. CASE i >= r
    <3>1. x = (0 - q) * n + Behind(n, i, r) /\ 0 - q \in Int
      BY <1>1, <1>2, <2>1 DEF Behind
    <3> QED BY <3>1, Zenon
  <2>2. CASE i < r
    <3>1. x = (0 - q - 1) * n + Behind(n, i, r) /\ 0 - q - 1 \in Int
      BY <1>1, <1>2, <2>2 DEF Behind
    <3> QED BY <3>1, Zenon
  <2> QED BY <1>1, <2>1, <2>2
<1>5. x % n = Behind(n, i, r)
  BY <1>2, <1>3, <1>4, RemainderIs
<1> QED BY <1>2, <1>5 DEF r

LEMMA ModSmall ==
  ASSUME NEW n \in Nat \ {0}, NEW i \in 0..(n - 1)
  PROVE  i % n = i
<1>1. i = 0 * n + i
  OBVIOUS
<1> QED BY <1>1, Remainder

(* The home in a table of twice the size is the same or n slots later.     *)
LEMMA ModTwice ==
  ASSUME NEW n \in Nat \ {0}, NEW hv \in Nat
  PROVE  hv % (2 * n) \in {hv % n, (hv % n) + n}
<1> DEFINE q == hv \div (2 * n)
           r == hv % (2 * n)
<1>0. \A m \in Nat \ {0} : hv \div m \in Int /\ hv % m \in 0..(m - 1) /\ hv = (hv \div m) * m + (hv % m)
  OBVIOUS
<1>1. q \in Int /\ r \in 0..(2 * n - 1) /\ hv = q * (2 * n) + r
  <2>1. 2 * n \in Nat \ {0}
    OBVIOUS
  <2> QED BY <1>0, <2>1
<1> HIDE DEF q, r
<1>2. CASE r < n
  <2>1. PICK p \in Int, s \in 0..(n - 1) : hv = p * n + s /\ s = r
    <3>1. hv = (2 * q) * n + r /\ r \in 0..(n - 1) /\ 2 * q \in Int
      BY <1>1, <1>2
    <3> QED BY <3>1
  <2>9. hv \in Int
    BY <1>1
  <2>2. hv % n = s
    BY <1>1, <2>1, <2>9, Remainder, Zenon
  <2> QED BY <2>1, <2>2 DEF r
<1>3. CASE r >= n
  <2>1. PICK p \in Int, s \in 0..(n - 1) : hv = p * n + s /\ s = r - n
    <3>1. hv = (2 * q + 1) * n + (r - n) /\ r - n \in 0..(n - 1) /\ 2 * q + 1 \in Int
      BY <1>1, <1>3
    <3> QED BY <3>1
  <2>9. hv \in Int
    BY <1>1
  <2>2. hv % n = s
    BY <1>1, <2>1, <2>9, Remainder, Zenon
  <2> QED BY <1>1, <2>1, <2>2 DEF r
<1> QED BY <1>1, <1>2, <1>3

(* Every slot is some number of steps after any other.                     *)
LEMMA AfterOnto ==
  ASSUME NEW n \in Nat \ {0}, NEW a \in 0..(n - 1), NEW i \in 0..(n - 1)
  PROVE  /\ Behind(n, i, a) \in 0..(n - 1)
         /\ After(n, a, Behind(n, i, a)) = i
BY DEF After, Behind

LEMMA AfterNext ==
  ASSUME NEW n \in Nat \ {0}, NEW e \in 0..(n - 1), NEW j \in 0..(n - 1)
  PROVE  /\ After(n, e, j) \in 0..(n - 1)
         /\ j < n - 1 => After(n, e, j + 1) = After(n, After(n, e, j), 1)
         /\ j = n - 1 => After(n, After(n, e, j), 1) = e
         /\ j > 0 => /\ After(n, e, j - 1) \in 0..(n - 1)
                     /\ After(n, e, j) = After(n, After(n, e, j - 1), 1)
                     /\ After(n, e, j) # e
BY DEF After

LEMMA NextIn ==
  ASSUME NEW n \in Nat \ {0}, NEW i \in 0..(n - 1)
  PROVE  After(n, i, 1) \in 0..(n - 1)
BY DEF After

LEMMA AfterSteps ==
  ASSUME NEW n \in Nat \ {0}, NEW e \in 0..(n - 1)
  PROVE  \A j \in 0..(n - 1) :
           After(n, e, j) \in 0..(n - 1) /\ (j < n - 1 => After(n, e, j + 1) = After(n, After(n, e, j), 1))
BY DEF After

LEMMA AfterZero ==
  ASSUME NEW n \in Nat \ {0}, NEW e \in 0..(n - 1)
  PROVE  After(n, e, 0) = e
BY DEF After

LEMMA BehindAfter ==
  ASSUME NEW n \in Nat \ {0}, NEW a \in 0..(n - 1), NEW j \in 0..(n - 1)
  PROVE  Behind(n, After(n, a, j), a) = j
BY DEF After, Behind

(* How far a slot is behind a free one that comes later.                   *)
LEMMA BehindLater ==
  ASSUME NEW n \in Nat \ {0}, NEW e \in 0..(n - 1), NEW j \in 0..(n - 1),
         NEW q \in 0..(n - 1), j + 1 < q
  PROVE  /\ Behind(n, After(n, e, j), After(n, e, q)) \in 0..(n - 1)
         /\ Behind(n, After(n, e, j), After(n, e, q)) < n - 1
BY DEF After, Behind

(* The slot before the place of an entry is one that its probe visited.    *)
LEMMA AfterBefore ==
  ASSUME NEW n \in Nat \ {0}, NEW a \in 0..(n - 1), NEW p \in 1..(n - 1)
  PROVE  After(n, a, p - 1) = After(n, After(n, a, p), n - 1)
BY DEF After

LEMMA AfterIn ==
  ASSUME NEW n \in Nat \ {0}, NEW a \in 0..(n - 1), NEW b \in 0..n
  PROVE  After(n, a, b) \in 0..(n - 1)
BY DEF After

-----------------------------------------------------------------------------
Slots == [hashValue : Nat, key : Keys \cup {NoKey}, payload : Payloads]

(* How far the entry at i is from its home, and how far the next one may   *)
(* be.                                                                     *)
Off(t, n, i) == Behind(n, i, t[i].hashValue % n)
Reach(t, n, i) == IF Used(t, i) THEN Off(t, n, i) + 1 ELSE 0

(* The Robin Hood order: the entries of a run are in the order of their    *)
(* homes.                                                                  *)
Ordered(t, n) ==
  \A i \in 0..(n - 1) :
    Used(t, After(n, i, 1)) => Off(t, n, After(n, i, 1)) <= Reach(t, n, i)

IsTable(t, n, h) ==
  /\ t \in [0..(n - 1) -> Slots]
  /\ \A i \in 0..(n - 1) : Used(t, i) => t[i].hashValue = h[t[i].key]
  /\ \A i, j \in 0..(n - 1) : Used(t, i) /\ Used(t, j) /\ t[i].key = t[j].key => i = j
  /\ Ordered(t, n)

LEMMA SizeIs ==
  ASSUME NEW n \in Nat \ {0}, NEW t, DOMAIN t = 0..(n - 1)
  PROVE  Size(t) = n
<1>1. Cardinality(0..(n - 1)) = n
  <2>1. 0 \in Int /\ n - 1 \in Int /\ ~(0 > n - 1) /\ (n - 1) - 0 + 1 = n
    OBVIOUS
  <2> QED BY <2>1, FS_Interval
<1> QED BY <1>1 DEF Size

LEMMA AroundIs ==
  ASSUME NEW n \in Nat \ {0}, NEW t, DOMAIN t = 0..(n - 1), NEW pos \in Nat, NEW b \in 0..n
  PROVE  Around(t, pos, b) = After(n, pos % n, b)
<1>1. Around(t, pos, b) = (pos + b) % n
  BY SizeIs, Zenon DEF Around
<1>2. (pos + b) % n = After(n, pos % n, b)
  BY ModAfter, Zenon
<1> QED BY <1>1, <1>2

LEMMA AroundSlot ==
  ASSUME NEW n \in Nat \ {0}, NEW t, DOMAIN t = 0..(n - 1), NEW pos \in 0..(n - 1), NEW b \in 0..n
  PROVE  Around(t, pos, b) = After(n, pos, b)
<1>1. pos \in Nat /\ pos % n = pos
  BY ModSmall
<1>2. Around(t, pos, b) = After(n, pos % n, b)
  BY <1>1, AroundIs, Zenon
<1> QED BY <1>1, <1>2, Zenon

LEMMA DisplacementIs ==
  ASSUME NEW n \in Nat \ {0}, NEW t \in [0..(n - 1) -> Slots], NEW i \in 0..(n - 1)
  PROVE  /\ Displacement(t, i) = Off(t, n, i)
         /\ Off(t, n, i) \in 0..(n - 1)
         /\ t[i].hashValue % n \in 0..(n - 1)
<1>1. t[i].hashValue \in Nat /\ t[i].hashValue \in Int
  BY DEF Slots
<1>2. Size(t) = n
  BY SizeIs
<1>3. t[i].hashValue % n \in 0..(n - 1)
  BY <1>1, ModIn, Zenon
<1>4. Displacement(t, i) = Off(t, n, i)
  BY <1>1, <1>2, ModBehind DEF Displacement, Off
<1> QED BY <1>3, <1>4 DEF Off, Behind

LEMMA LeastOfIs ==
  ASSUME NEW S \in SUBSET Nat, S # {}
  PROVE  LeastOf(S) \in S /\ \A j \in S : LeastOf(S) <= j
<1>1. \E k \in S : \A j \in S : k <= j
  BY LeastNat
<1> QED BY <1>1 DEF LeastOf

(* Between an entry and its home there are entries, none of them closer to *)
(* its home than the probe for the entry is.                               *)
LEMMA BackToHome ==
  ASSUME NEW n \in Nat \ {0}, NEW t \in [0..(n - 1) -> Slots], Ordered(t, n),
         NEW i \in 0..(n - 1), Used(t, i)
  PROVE  \A j \in 0..Off(t, n, i) :
           /\ Behind(n, i, j) \in 0..(n - 1)
           /\ Used(t, Behind(n, i, j))
           /\ Off(t, n, Behind(n, i, j)) >= Off(t, n, i) - j
<1> DEFINE d == Off(t, n, i)
           P == {j \in Nat : j <= d => /\ Behind(n, i, j) \in 0..(n - 1)
                                      /\ Used(t, Behind(n, i, j))
                                      /\ Off(t, n, Behind(n, i, j)) >= d - j}
<1>0. d \in 0..(n - 1)
  BY DisplacementIs
<1>1. 0 \in P
  <2>1. Behind(n, i, 0) = i
    BY DEF Behind
  <2> QED BY <1>0, <2>1
<1>2. ASSUME NEW j \in Nat, j \in P PROVE j + 1 \in P
  <2> SUFFICES ASSUME j + 1 <= d
               PROVE  /\ Behind(n, i, j + 1) \in 0..(n - 1)
                      /\ Used(t, Behind(n, i, j + 1))
                      /\ Off(t, n, Behind(n, i, j + 1)) >= d - (j + 1)
    OBVIOUS
  <2> DEFINE x == Behind(n, i, j)
             y == Behind(n, i, j + 1)
  <2> HIDE DEF d
  <2>1. x \in 0..(n - 1) /\ Used(t, x) /\ Off(t, n, x) >= d - j
    BY <1>0, <1>2
  <2>2. y \in 0..(n - 1) /\ After(n, y, 1) = x
    BY <1>0 DEF Behind, After
  <2>3. Off(t, n, x) <= Reach(t, n, y)
    BY <2>1, <2>2 DEF Ordered
  <2>4. Off(t, n, x) \in 0..(n - 1) /\ Off(t, n, y) \in 0..(n - 1)
    BY <2>1, <2>2, DisplacementIs
  <2>5. Used(t, y) /\ Off(t, n, y) + 1 >= d - j
    BY <1>0, <2>1, <2>3, <2>4 DEF Reach
  <2> QED BY <1>0, <2>2, <2>4, <2>5
<1>3. \A j \in Nat : j \in P
  <2> HIDE DEF P
  <2> QED BY <1>1, <1>2, Induct
<1> QED BY <1>0, <1>3

-----------------------------------------------------------------------------
(* xmlHashFindEntry.                                                       *)
Stops(t, n, k, home, d) ==
  LET i == After(n, home, d)
  IN  ~Used(t, i) \/ Off(t, n, i) < d \/ t[i].key = k

LEMMA ProbeStopsAre ==
  ASSUME NEW n \in Nat \ {0}, NEW t \in [0..(n - 1) -> Slots], NEW k, NEW hv \in Nat
  PROVE  ProbeStops(t, k, hv) = {d \in 0..(n - 1) : Stops(t, n, k, hv % n, d)}
<1>1. Size(t) = n
  BY SizeIs
<1>2. hv % n \in 0..(n - 1)
  BY ModIn
<1>3. ASSUME NEW d \in 0..(n - 1)
      PROVE  /\ Around(t, hv, d) = After(n, hv % n, d)
             /\ Displacement(t, After(n, hv % n, d)) = Off(t, n, After(n, hv % n, d))
  <2>1. d \in 0..n
    OBVIOUS
  <2>2. Around(t, hv, d) = After(n, hv % n, d)
    BY <2>1, AroundIs
  <2>3. After(n, hv % n, d) \in 0..(n - 1)
    BY <1>2, <2>1, AfterIn
  <2> QED BY <2>2, <2>3, DisplacementIs
<1> QED BY <1>1, <1>3, Zenon DEF ProbeStops, Stops

LEMMA FindIs ==
  ASSUME NEW n \in Nat \ {0}, NEW t \in [0..(n - 1) -> Slots], NEW k, NEW hv \in Nat,
         NEW d \in 0..(n - 1), Stops(t, n, k, hv % n, d)
  PROVE  \E p \in 0..(n - 1) :
           /\ p <= d
           /\ xmlHashFindEntry(t, k, hv) = After(n, hv % n, p)
           /\ Stops(t, n, k, hv % n, p)
           /\ \A j \in 0..(n - 1) : j < p => ~Stops(t, n, k, hv % n, j)
<1> DEFINE S == ProbeStops(t, k, hv)
           p == LeastOf(S)
<1>1. S = {j \in 0..(n - 1) : Stops(t, n, k, hv % n, j)}
  BY ProbeStopsAre
<1>2. S \in SUBSET Nat /\ d \in S
  BY <1>1
<1> HIDE DEF S
<1>3. p \in S /\ \A j \in S : p <= j
  BY <1>2, LeastOfIs, Zenon
<1> HIDE DEF p
<1>4. p \in 0..(n - 1) /\ Stops(t, n, k, hv % n, p) /\ p <= d
  BY <1>1, <1>2, <1>3
<1>5. ASSUME NEW j \in 0..(n - 1), j < p PROVE ~Stops(t, n, k, hv % n, j)
  <2>1. j \notin S
    BY <1>3, <1>4, <1>5
  <2> QED BY <1>1, <2>1
<1>6. xmlHashFindEntry(t, k, hv) = Around(t, hv, p)
  BY Zenon DEF xmlHashFindEntry, S, p
<1>7. p \in 0..n
  BY <1>4
<1>8. xmlHashFindEntry(t, k, hv) = After(n, hv % n, p)
  BY <1>6, <1>7, AroundIs
<1> QED BY <1>4, <1>5, <1>8

(* A key of the table is found where it is.                                *)
LEMMA FindPresent ==
  ASSUME NEW n \in Nat \ {0}, NEW t, NEW h, IsTable(t, n, h),
         NEW i \in 0..(n - 1), Used(t, i)
  PROVE  /\ h[t[i].key] \in Nat
         /\ xmlHashFindEntry(t, t[i].key, h[t[i].key]) = i
<1> DEFINE k == t[i].key
           hv == t[i].hashValue
           home == hv % n
           d == Off(t, n, i)
<1>1. t \in [0..(n - 1) -> Slots] /\ hv \in Nat /\ hv = h[k] /\ Ordered(t, n)
  BY DEF IsTable, Slots
<1>2. d \in 0..(n - 1) /\ home \in 0..(n - 1) /\ d = Behind(n, i, home)
  BY <1>1, DisplacementIs DEF Off
<1>3. After(n, home, d) = i
  BY <1>2, AfterOnto
<1>4. Stops(t, n, k, home, d)
  BY <1>3 DEF Stops
<1>5. ASSUME NEW j \in 0..(n - 1), j < d PROVE ~Stops(t, n, k, home, j)
  <2> DEFINE x == After(n, home, j)
  <2> HIDE DEF d, home
  <2>1. d - j \in 0..d /\ x = Behind(n, i, d - j) /\ x # i
    BY <1>2, <1>5 DEF After, Behind
  <2>2. x \in 0..(n - 1) /\ Used(t, x) /\ Off(t, n, x) >= d - (d - j)
    BY <1>1, <2>1, BackToHome, Zenon DEF d
  <2>3. t[x].key # k
    BY <2>1, <2>2 DEF IsTable
  <2>4. Off(t, n, x) \in Int
    BY <1>1, <2>2, DisplacementIs
  <2>5. ~(Off(t, n, x) < j)
    BY <1>2, <2>2, <2>4
  <2> QED BY <2>2, <2>3, <2>5 DEF Stops
<1> HIDE DEF d, hv, k
<1>6. PICK p \in 0..(n - 1) :
        /\ p <= d
        /\ xmlHashFindEntry(t, k, hv) = After(n, hv % n, p)
        /\ Stops(t, n, k, hv % n, p)
  BY <1>1, <1>2, <1>4, FindIs
<1>7. p = d
  BY <1>2, <1>5, <1>6
<1> QED BY <1>1, <1>3, <1>6, <1>7 DEF k

(* The place of a key that the table does not have.                        *)
LEMMA FindAbsent ==
  ASSUME NEW n \in Nat \ {0}, NEW t \in [0..(n - 1) -> Slots], NEW k, NEW hv \in Nat,
         \A i \in 0..(n - 1) : t[i].key # k,
         NEW f \in 0..(n - 1), ~Used(t, f)
  PROVE  \E p \in 0..(n - 1) :
           LET e == xmlHashFindEntry(t, k, hv)
           IN  /\ e = After(n, hv % n, p)
               /\ ~Used(t, e) \/ Off(t, n, e) < p
               /\ \A j \in 0..(n - 1) : j < p =>
                    /\ Used(t, After(n, hv % n, j))
                    /\ Off(t, n, After(n, hv % n, j)) >= j
<1> DEFINE home == hv % n
           d == Behind(n, f, home)
<1>1. home \in 0..(n - 1)
  BY ModIn
<1>2. d \in 0..(n - 1) /\ After(n, home, d) = f
  BY <1>1, AfterOnto
<1>3. Stops(t, n, k, home, d)
  BY <1>2 DEF Stops
<1> HIDE DEF d
<1>4. PICK p \in 0..(n - 1) :
        /\ xmlHashFindEntry(t, k, hv) = After(n, hv % n, p)
        /\ Stops(t, n, k, hv % n, p)
        /\ \A j \in 0..(n - 1) : j < p => ~Stops(t, n, k, hv % n, j)
  BY <1>2, <1>3, FindIs
<1>5. \A j \in 0..(n - 1) : After(n, home, j) \in 0..(n - 1)
  BY <1>1, AfterIn
<1>6. ASSUME NEW j \in 0..(n - 1), j < p
      PROVE  Used(t, After(n, home, j)) /\ Off(t, n, After(n, home, j)) >= j
  <2>1. Off(t, n, After(n, home, j)) \in Int
    <3>1. PICK x \in 0..(n - 1) : x = After(n, home, j)
      BY <1>5
    <3>2. Off(t, n, x) \in 0..(n - 1)
      BY DisplacementIs
    <3> QED BY <3>1, <3>2
  <2> QED BY <1>4, <1>6, <2>1 DEF Stops
<1> QED BY <1>4, <1>5, <1>6 DEF Stops

-----------------------------------------------------------------------------
(* The first slot that is not occupied.                                    *)
LEMMA NextFreeIs ==
  ASSUME NEW n \in Nat \ {0}, NEW t \in [0..(n - 1) -> Slots], NEW i \in 0..(n - 1),
         NEW d \in 0..(n - 1), ~Used(t, After(n, i, d))
  PROVE  \E m \in 0..d :
           /\ NextFree(t, i) = After(n, i, m)
           /\ ~Used(t, After(n, i, m))
           /\ \A j \in 0..(n - 1) : j < m => Used(t, After(n, i, j))
<1> DEFINE S == {j \in 0..(Size(t) - 1) : ~Used(t, Around(t, i, j))}
           m == LeastOf(S)
<1>1. Size(t) = n
  BY SizeIs
<1>2. \A j \in 0..(n - 1) : Around(t, i, j) = After(n, i, j)
  BY AroundSlot
<1>3. S = {j \in 0..(n - 1) : ~Used(t, After(n, i, j))}
  BY <1>1, <1>2
<1>4. S \in SUBSET Nat /\ d \in S
  BY <1>3
<1>5. NextFree(t, i) = Around(t, i, m)
  BY Zenon DEF NextFree
<1> HIDE DEF S
<1>6. m \in S /\ \A j \in S : m <= j
  BY <1>4, LeastOfIs, Zenon
<1> HIDE DEF m
<1>7. m \in 0..(n - 1) /\ ~Used(t, After(n, i, m)) /\ m <= d
  BY <1>3, <1>4, <1>6
<1>8. ASSUME NEW j \in 0..(n - 1), j < m PROVE Used(t, After(n, i, j))
  BY <1>3, <1>6, <1>7, <1>8
<1> QED BY <1>2, <1>5, <1>7, <1>8

(* What is in a run lies closer to its home than the free slot before it.  *)
LEMMA BeforeFree ==
  ASSUME NEW n \in Nat \ {0}, NEW t \in [0..(n - 1) -> Slots], Ordered(t, n),
         NEW f \in 0..(n - 1), ~Used(t, f), NEW i \in 0..(n - 1), Used(t, i)
  PROVE  Off(t, n, i) < Behind(n, i, f)
<1>1. Off(t, n, i) \in 0..(n - 1) /\ Behind(n, i, f) \in 0..(n - 1)
  BY DisplacementIs, AfterOnto
<1>2. Behind(n, i, Behind(n, i, f)) = f
  BY DEF Behind
<1>3. Behind(n, i, f) \notin 0..Off(t, n, i)
  BY <1>2, BackToHome
<1> QED BY <1>1, <1>3

-----------------------------------------------------------------------------
IsShift(r, t, n, e, m, s) ==
  /\ r = [i \in 0..(n - 1) |-> r[i]]
  /\ r[e] = s
  /\ \A j \in 1..(n - 1) :
       r[After(n, e, j)] = IF j <= m THEN t[After(n, e, j - 1)] ELSE t[After(n, e, j)]

(* xmlHashUpdateInternal: the slots after an insertion at e, where the     *)
(* first slot that is free is m steps after it.                            *)
LEMMA ShiftedSlots ==
  ASSUME NEW n \in Nat \ {0}, NEW t \in [0..(n - 1) -> Slots],
         NEW e \in 0..(n - 1), NEW m \in 0..(n - 1), NEW s,
         NextFree(t, e) = After(n, e, m), ~Used(t, After(n, e, m)),
         \A j \in 0..(n - 1) : j < m => Used(t, After(n, e, j))
  PROVE  IsShift([ShiftRight(t, e) EXCEPT ![e] = s], t, n, e, m, s)
<1> DEFINE r == [ShiftRight(t, e) EXCEPT ![e] = s]
           cur == After(n, e, m)
           wrapped == [Memmove(t, 1, 0, cur) EXCEPT ![0] = t[n - 1]]
<1>1. Size(t) = n
  BY SizeIs
<1> SUFFICES /\ DOMAIN r = 0..(n - 1)
             /\ r[e] = s
             /\ \A j \in 1..(n - 1) :
                  r[After(n, e, j)] = IF j <= m THEN t[After(n, e, j - 1)] ELSE t[After(n, e, j)]
  <2>1. r = [i \in DOMAIN r |-> r[i]]
    OBVIOUS
  <2> HIDE DEF r
  <2> SUFFICES ASSUME /\ DOMAIN r = 0..(n - 1)
                      /\ r[e] = s
                      /\ \A j \in 1..(n - 1) :
                           r[After(n, e, j)] = IF j <= m THEN t[After(n, e, j - 1)]
                                               ELSE t[After(n, e, j)]
               PROVE  IsShift(r, t, n, e, m, s)
    BY DEF r
  <2> QED BY <2>1 DEF IsShift
<1>2. CASE m = 0
  <2>1. ~Used(t, e)
    BY <1>2 DEF After
  <2>2. ShiftRight(t, e) = t
    BY <2>1 DEF ShiftRight
  <2>3. \A j \in 1..(n - 1) : After(n, e, j) # e /\ ~(j <= m)
    BY <1>2 DEF After
  <2> QED BY <2>2, <2>3
<1>3. CASE m > 0 /\ e + m < n
  <2>1. Used(t, e) /\ cur = e + m
    <3>1. After(n, e, 0) = e /\ 0 \in 0..(n - 1)
      BY DEF After
    <3> QED BY <1>3, <3>1 DEF After
  <2>2. ShiftRight(t, e) = Memmove(t, e + 1, e, m)
    <3>1. ~(cur < e) /\ cur - e = m
      BY <1>3, <2>1
    <3> QED BY <2>1, <3>1, Zenon DEF ShiftRight
  <2>3. ShiftRight(t, e) = [i \in 0..(n - 1) |-> IF i \in (e + 1)..(e + 1 + m - 1)
                                               THEN t[e + i - (e + 1)] ELSE t[i]]
    BY <2>2 DEF Memmove
  <2>4. DOMAIN r = 0..(n - 1) /\ r[e] = s
    BY <2>3
  <2>5. ASSUME NEW i \in 0..(n - 1), i # e
        PROVE  r[i] = IF i > e /\ i <= e + m THEN t[i - 1] ELSE t[i]
    <3>1. e + i - (e + 1) = i - 1
      OBVIOUS
    <3> QED BY <2>3, <2>5, <3>1
  <2> HIDE DEF r
  <2>6. ASSUME NEW j \in 1..(n - 1)
        PROVE  r[After(n, e, j)] = IF j <= m THEN t[After(n, e, j - 1)] ELSE t[After(n, e, j)]
    <3>1. After(n, e, j) \in 0..(n - 1) /\ After(n, e, j) # e
      BY DEF After
    <3>2. j <= m => After(n, e, j) > e /\ After(n, e, j) <= e + m /\ After(n, e, j - 1) = After(n, e, j) - 1
      BY <1>3 DEF After
    <3>3. j > m => ~(After(n, e, j) > e /\ After(n, e, j) <= e + m)
      BY <1>3 DEF After
    <3> QED BY <2>5, <3>1, <3>2, <3>3
  <2> QED BY <2>4, <2>6 DEF r
<1>4. CASE m > 0 /\ e + m >= n
  <2>1. Used(t, e) /\ cur = e + m - n /\ cur < e
    <3>1. After(n, e, 0) = e /\ 0 \in 0..(n - 1)
      BY DEF After
    <3> QED BY <1>4, <3>1 DEF After
  <2>2. ShiftRight(t, e) = Memmove(wrapped, e + 1, e, n - 1 - e)
    BY <1>1, <2>1, Zenon DEF ShiftRight
  <2>3. wrapped = [i \in 0..(n - 1) |-> IF i = 0 THEN t[n - 1]
                                        ELSE IF i \in 1..(1 + cur - 1) THEN t[0 + i - 1] ELSE t[i]]
    BY DEF Memmove
  <2>4. ShiftRight(t, e) = [i \in 0..(n - 1) |-> IF i \in (e + 1)..(e + 1 + (n - 1 - e) - 1)
                                               THEN wrapped[e + i - (e + 1)] ELSE wrapped[i]]
    BY <2>2, <2>3 DEF Memmove
  <2>5. DOMAIN r = 0..(n - 1) /\ r[e] = s
    BY <2>4
  <2>6. ASSUME NEW i \in 0..(n - 1), i # e
        PROVE  r[i] = IF i > e THEN t[i - 1] ELSE IF i = 0 THEN t[n - 1]
                      ELSE IF i <= cur THEN t[i - 1] ELSE t[i]
    <3>1. e + i - (e + 1) = i - 1 /\ 0 + i - 1 = i - 1
      OBVIOUS
    <3>2. cur \in 0..(n - 1)
      BY <1>4, <2>1
    <3>3. \A x \in 0..(n - 1) : x > cur => wrapped[x] = t[x]
      BY <2>3, <3>2
    <3>4. i > e => r[i] = wrapped[i - 1]
      BY <2>4, <2>6, <3>1
    <3>5. i > e => wrapped[i - 1] = t[i - 1]
      BY <2>1, <3>2, <3>3
    <3>6. i < e => r[i] = wrapped[i]
      BY <2>4, <2>6
    <3> QED BY <2>3, <2>6, <3>1, <3>2, <3>4, <3>5, <3>6
  <2> HIDE DEF r, wrapped
  <2>7. ASSUME NEW j \in 1..(n - 1)
        PROVE  r[After(n, e, j)] = IF j <= m THEN t[After(n, e, j - 1)] ELSE t[After(n, e, j)]
    <3>1. After(n, e, j) \in 0..(n - 1) /\ After(n, e, j) # e
      BY DEF After
    <3>2. CASE e + j < n
      <4>1. j <= m /\ After(n, e, j) > e /\ After(n, e, j - 1) = After(n, e, j) - 1
        BY <1>4, <3>2 DEF After
      <4> QED BY <2>6, <3>1, <4>1
    <3>3. CASE e + j = n
      <4>1. j <= m /\ After(n, e, j) = 0 /\ ~(0 > e) /\ After(n, e, j - 1) = n - 1
        BY <1>4, <3>3 DEF After
      <4> QED BY <2>6, <3>1, <4>1
    <3>4. CASE e + j > n
      <4>1. /\ After(n, e, j) = e + j - n /\ ~(After(n, e, j) > e) /\ After(n, e, j) # 0
            /\ j <= m <=> After(n, e, j) <= cur
            /\ After(n, e, j - 1) = After(n, e, j) - 1
        BY <1>4, <2>1, <3>4 DEF After
      <4> QED BY <2>6, <3>1, <4>1
    <3> QED BY <3>2, <3>3, <3>4
  <2> QED BY <2>5, <2>7 DEF r
<1> QED BY <1>2, <1>3, <1>4

LEMMA ShiftAt ==
  ASSUME NEW n, NEW t, NEW e, NEW m, NEW s, NEW r, IsShift(r, t, n, e, m, s)
  PROVE  /\ r[e] = s
         /\ \A j \in 1..(n - 1) : /\ j <= m => r[After(n, e, j)] = t[After(n, e, j - 1)]
                                  /\ ~(j <= m) => r[After(n, e, j)] = t[After(n, e, j)]
BY Zenon DEF IsShift

(* Where a slot of the new table was before.                               *)
LEMMA ShiftTyped ==
  ASSUME NEW n \in Nat \ {0}, NEW t \in [0..(n - 1) -> Slots],
         NEW e \in 0..(n - 1), NEW m \in 0..(n - 1), NEW s \in Slots, NEW r,
         IsShift(r, t, n, e, m, s)
  PROVE  r \in [0..(n - 1) -> Slots]
<1>1. ASSUME NEW i \in 0..(n - 1) PROVE r[i] \in Slots
  <2> DEFINE j == Behind(n, i, e)
  <2>1. j \in 0..(n - 1) /\ After(n, e, j) = i /\ (j = 0 => i = e)
    BY DEF After, Behind
  <2> HIDE DEF j
  <2>2. After(n, e, j - 1) \in 0..(n - 1) \/ j = 0
    BY <2>1 DEF After
  <2>3. CASE j = 0
    BY <2>1, <2>3 DEF IsShift
  <2>4. CASE j # 0
    <3>1. j \in 1..(n - 1)
      BY <2>1, <2>4
    <3>2. r[i] = t[After(n, e, j - 1)] \/ r[i] = t[i]
      BY <2>1, <3>1 DEF IsShift
    <3> QED BY <2>2, <2>4, <3>2
  <2> QED BY <2>3, <2>4
<1>2. r = [i \in 0..(n - 1) |-> r[i]]
  BY DEF IsShift
<1> QED BY <1>1, <1>2

(* What is not moved keeps its displacement.                               *)
LEMMA OffSame ==
  ASSUME NEW n, NEW t, NEW r, NEW x, r[x] = t[x]
  PROVE  Off(r, n, x) = Off(t, n, x) /\ (Used(r, x) <=> Used(t, x)) /\ Reach(r, n, x) = Reach(t, n, x)
BY DEF Off, Used, Reach

(* The order is kept when the place for the new entry is the one at which  *)
(* a probe from its home stops.                                            *)
LEMMA ShiftOrdered ==
  ASSUME NEW n \in Nat \ {0}, NEW t \in [0..(n - 1) -> Slots], Ordered(t, n),
         NEW s \in Slots, s.key # NoKey,
         NEW p \in 0..(n - 1), NEW e \in 0..(n - 1), e = After(n, s.hashValue % n, p),
         ~Used(t, e) \/ Off(t, n, e) < p,
         \A j \in 0..(n - 1) : j < p => /\ Used(t, After(n, s.hashValue % n, j))
                                       /\ Off(t, n, After(n, s.hashValue % n, j)) >= j,
         NEW m \in 0..(n - 1), ~Used(t, After(n, e, m)),
         \A j \in 0..(n - 1) : j < m => Used(t, After(n, e, j)),
         NEW q \in 0..(n - 1), q > m, ~Used(t, After(n, e, q)),
         NEW r, IsShift(r, t, n, e, m, s)
  PROVE  Ordered(r, n)
<1> DEFINE A(j) == After(n, e, j)
           home == s.hashValue % n
<1>1. r \in [0..(n - 1) -> Slots]
  BY ShiftTyped
<1>2. home \in 0..(n - 1)
  <2>1. s.hashValue \in Int
    BY DEF Slots
  <2> QED BY <2>1, ModIn, Zenon
<1> HIDE DEF home
<1>3. \A j \in 0..(n - 1) : A(j) \in 0..(n - 1) /\ (j < n - 1 => A(j + 1) = After(n, A(j), 1))
  BY AfterSteps, Zenon
<1>4. A(0) = e /\ After(n, A(n - 1), 1) = e
  <2>1. n - 1 \in 0..(n - 1)
    OBVIOUS
  <2> QED BY <2>1, AfterNext, AfterZero
<1>5. \A i \in 0..(n - 1) : Off(t, n, i) \in 0..(n - 1) /\ Off(r, n, i) \in 0..(n - 1)
  BY <1>1, DisplacementIs
<1>50. ASSUME NEW i \in 0..(n - 1) PROVE Reach(t, n, i) \in 0..n /\ Reach(r, n, i) \in 0..n
  <2>1. Off(t, n, i) \in 0..(n - 1) /\ Off(r, n, i) \in 0..(n - 1)
    BY <1>5
  <2> QED BY <2>1 DEF Reach
<1>51. \A j \in 1..(n - 1) : /\ j <= m => r[A(j)] = t[A(j - 1)]
                             /\ ~(j <= m) => r[A(j)] = t[A(j)]
  BY ShiftAt
<1>6. r[e] = s /\ Used(r, e) /\ Off(r, n, e) = p
  <2>1. r[e] = s
    BY ShiftAt
  <2>2. Off(r, n, e) = Behind(n, e, home)
    BY <2>1 DEF Off, home
  <2>3. Behind(n, e, home) = p
    BY <1>2, BehindAfter DEF home
  <2> QED BY <2>1, <2>2, <2>3 DEF Used
<1>7. ASSUME NEW j \in 1..(n - 1), j <= m
      PROVE  /\ j - 1 \in 0..(n - 1) /\ A(j - 1) \in 0..(n - 1) /\ A(j) = After(n, A(j - 1), 1)
             /\ Used(t, A(j - 1))
             /\ Used(r, A(j)) /\ Off(r, n, A(j)) = Off(t, n, A(j - 1)) + 1
  <2>1. j - 1 \in 0..(n - 1) /\ j - 1 < m /\ (j - 1) + 1 = j /\ j - 1 < n - 1
        /\ j \in 0..(n - 1) /\ j > 0
    BY <1>7
  <2>2. PICK y \in 0..(n - 1) : y = A(j - 1)
    BY <1>3, <2>1
  <2>3. PICK x \in 0..(n - 1) : x = A(j)
    BY <1>3, <2>1
  <2>4. x = After(n, y, 1)
    BY <2>1, <2>2, <2>3, AfterNext
  <2>5. Used(t, y)
    BY <2>1, <2>2
  <2>6. r[x] = t[y]
    BY <1>7, <1>51, <2>2, <2>3
  <2>7. PICK z \in 0..(n - 1) : z = A(q) /\ ~Used(t, z)
    BY <1>3
  <2>8. Behind(n, y, z) < n - 1 /\ Behind(n, y, z) \in 0..(n - 1)
    <3>1. (j - 1) + 1 < q
      BY <1>7
    <3> QED BY <2>1, <2>2, <2>7, <3>1, BehindLater, Zenon
  <2>9. Off(t, n, y) < Behind(n, y, z)
    BY <2>5, <2>7, BeforeFree
  <2>10. Off(t, n, y) + 1 < n
    <3>1. Off(t, n, y) \in 0..(n - 1)
      BY <1>5
    <3> QED BY <2>8, <2>9, <3>1
  <2>11. Off(r, n, x) = Off(t, n, y) + 1
    <3>1. PICK g \in 0..(n - 1) : g = t[y].hashValue % n
      BY DisplacementIs, Zenon
    <3>2. Off(t, n, y) = Behind(n, y, g) /\ Off(r, n, x) = Behind(n, x, g)
      BY <2>6, <3>1, Zenon DEF Off
    <3>3. Behind(n, y, g) + 1 < n
      BY <2>10, <3>2
    <3>4. Behind(n, x, g) = Behind(n, y, g) + 1
      BY <2>4, <3>3 DEF After, Behind
    <3> QED BY <3>2, <3>4
  <2> QED BY <2>1, <2>2, <2>3, <2>4, <2>5, <2>6, <2>11 DEF Used
<1>8. ASSUME NEW j \in 1..(n - 1), ~(j <= m), NEW x, x = A(j)
      PROVE  /\ Off(r, n, x) = Off(t, n, x) /\ (Used(r, x) <=> Used(t, x))
             /\ Reach(r, n, x) = Reach(t, n, x)
  <2>1. r[x] = t[x]
    BY <1>8, <1>51
  <2> QED BY <2>1, OffSame
<1>9. m < n - 1
  OBVIOUS
<1>10. ASSUME NEW j \in 0..(n - 1), NEW y \in 0..(n - 1), y = A(j),
              NEW x \in 0..(n - 1), x = After(n, y, 1), Used(r, x)
       PROVE  Off(r, n, x) <= Reach(r, n, y)
  <2>0. /\ Off(r, n, x) \in 0..(n - 1) /\ Off(t, n, x) \in 0..(n - 1)
        /\ Off(r, n, y) \in 0..(n - 1) /\ Off(t, n, y) \in 0..(n - 1)
        /\ Reach(r, n, y) \in 0..n /\ Reach(t, n, y) \in 0..n
        /\ Used(t, x) => Off(t, n, x) <= Reach(t, n, y)
    BY <1>5, <1>50, <1>10 DEF Ordered
  <2>1. CASE j < m
    <3>1. j + 1 \in 1..(n - 1) /\ j + 1 <= m /\ (j + 1) - 1 = j /\ j < n - 1
      BY <1>9, <2>1
    <3>2. x = A(j + 1)
      BY <1>3, <1>10, <3>1
    <3>3. Off(r, n, x) = Off(t, n, y) + 1 /\ Used(t, y)
      BY <1>7, <1>10, <3>1, <3>2
    <3>4. CASE j = 0
      <4>1. y = e
        BY <1>4, <1>10, <3>4
      <4>2. Off(t, n, y) < p
        BY <3>3, <4>1
      <4>3. Reach(r, n, y) = p + 1
        BY <1>6, <4>1 DEF Reach
      <4> QED BY <2>0, <3>3, <4>2, <4>3
    <3>5. CASE j # 0
      <4>1. j \in 1..(n - 1) /\ j <= m
        BY <2>1, <3>5
      <4>2. PICK w \in 0..(n - 1) : w = A(j - 1)
        BY <1>7, <4>1
      <4>3. y = After(n, w, 1) /\ Used(t, w) /\ Used(r, y) /\ Off(r, n, y) = Off(t, n, w) + 1
        BY <1>7, <1>10, <4>1, <4>2
      <4>4. Off(t, n, y) <= Off(t, n, w) + 1
        BY <3>3, <4>3 DEF Ordered, Reach
      <4>5. Reach(r, n, y) = Off(r, n, y) + 1
        BY <4>3 DEF Reach
      <4> QED BY <1>5, <2>0, <3>3, <4>3, <4>4, <4>5
    <3> QED BY <3>4, <3>5
  <2>2. CASE j = m
    <3>1. j + 1 \in 1..(n - 1) /\ ~(j + 1 <= m) /\ j < n - 1
      BY <1>9, <2>2
    <3>2. x = A(j + 1)
      BY <1>3, <1>10, <3>1
    <3>3. Used(t, x) /\ Off(r, n, x) = Off(t, n, x)
      BY <1>8, <1>10, <3>1, <3>2
    <3>4. Reach(t, n, y) = 0
      BY <1>10, <2>2 DEF Reach
    <3> QED BY <2>0, <3>3, <3>4
  <2>3. CASE j > m /\ j < n - 1
    <3>1. j + 1 \in 1..(n - 1) /\ ~(j + 1 <= m) /\ j \in 1..(n - 1) /\ ~(j <= m)
      BY <2>3
    <3>2. x = A(j + 1)
      BY <1>3, <1>10, <2>3
    <3>3. Used(t, x) /\ Off(r, n, x) = Off(t, n, x)
      BY <1>8, <1>10, <3>1, <3>2
    <3>4. Reach(r, n, y) = Reach(t, n, y)
      BY <1>8, <1>10, <3>1
    <3> QED BY <2>0, <3>3, <3>4
  <2>4. CASE j > m /\ j = n - 1
    <3>1. j \in 1..(n - 1) /\ ~(j <= m)
      BY <2>4
    <3>2. x = e
      BY <1>4, <1>10, <2>4
    <3>3. Off(r, n, x) = p
      BY <1>6, <3>2
    <3>4. Reach(r, n, y) = Reach(t, n, y)
      BY <1>8, <1>10, <3>1
    <3>5. p # 0 => Used(t, y) /\ Off(t, n, y) >= p - 1
      <4> SUFFICES ASSUME p # 0 PROVE Used(t, y) /\ Off(t, n, y) >= p - 1
        OBVIOUS
      <4>1. p \in 1..(n - 1) /\ p - 1 \in 0..(n - 1) /\ p - 1 < p
        OBVIOUS
      <4>2. e = After(n, home, p)
        BY DEF home
      <4>3. After(n, home, p - 1) = y
        <5>1. After(n, home, p - 1) = After(n, e, n - 1)
          BY <1>2, <4>1, <4>2, AfterBefore
        <5> QED BY <1>10, <2>4, <5>1
      <4> QED BY <4>1, <4>3 DEF home
    <3>6. Used(t, y) => Reach(t, n, y) = Off(t, n, y) + 1
      BY DEF Reach
    <3> QED BY <2>0, <3>3, <3>4, <3>5, <3>6
  <2> QED BY <2>1, <2>2, <2>3, <2>4
<1>11. ASSUME NEW i \in 0..(n - 1), Used(r, After(n, i, 1))
       PROVE  Off(r, n, After(n, i, 1)) <= Reach(r, n, i)
  <2> DEFINE j == Behind(n, i, e)
  <2>1. j \in 0..(n - 1) /\ A(j) = i
    BY AfterOnto
  <2>2. After(n, i, 1) \in 0..(n - 1)
    BY DEF After
  <2> HIDE DEF j, A
  <2> QED BY <1>10, <1>11, <2>1, <2>2
<1> QED BY <1>11 DEF Ordered

-----------------------------------------------------------------------------
(* What is in a table.                                                     *)
Pairs(t) == {<<t[i].key, t[i].payload>> : i \in Occupied(t)}

Gained(r, t, k, v) == Pairs(r) = Pairs(t) \cup {<<k, v>>}
Lost(r, t, k, v) ==
  /\ Pairs(r) = Pairs(t) \ {<<k, v>>}
  /\ \A i \in DOMAIN r : Used(r, i) => r[i].key # k

(* Without slot a of r and slot b of t, both hold the same entries, in     *)
(* different places.                                                       *)
IsMoved(r, t, n, a, b, G) ==
  /\ G \in [0..(n - 1) -> 0..(n - 1)]
  /\ \A x \in 0..(n - 1) : x # a => r[x] = t[G[x]] /\ G[x] # b
  /\ \A x, y \in 0..(n - 1) : x # a /\ y # a /\ G[x] = G[y] => x = y
  /\ \A y \in 0..(n - 1) : y # b => \E x \in 0..(n - 1) : x # a /\ G[x] = y

KeysOnce(t, n) ==
  \A i, j \in 0..(n - 1) : Used(t, i) /\ Used(t, j) /\ t[i].key = t[j].key => i = j

HashesAre(t, n, h) == \A i \in 0..(n - 1) : Used(t, i) => t[i].hashValue = h[t[i].key]

(* The new entry is in slot a, and slot b was free.                        *)
LEMMA MovedIn ==
  ASSUME NEW n \in Nat \ {0}, NEW h, NEW r \in [0..(n - 1) -> Slots], NEW t \in [0..(n - 1) -> Slots],
         NEW a \in 0..(n - 1), NEW b \in 0..(n - 1), NEW G, IsMoved(r, t, n, a, b, G),
         KeysOnce(t, n), HashesAre(t, n, h), ~Used(t, b),
         Used(r, a), r[a].hashValue = h[r[a].key], \A i \in 0..(n - 1) : t[i].key # r[a].key
  PROVE  /\ KeysOnce(r, n) /\ HashesAre(r, n, h)
         /\ Gained(r, t, r[a].key, r[a].payload)
<1>1. \A x \in 0..(n - 1) : x # a => r[x] = t[G[x]] /\ G[x] \in 0..(n - 1)
  BY DEF IsMoved
<1>2. HashesAre(r, n, h)
  <2> SUFFICES ASSUME NEW x \in 0..(n - 1), Used(r, x) PROVE r[x].hashValue = h[r[x].key]
    BY DEF HashesAre
  <2>1. CASE x = a
    BY <2>1
  <2>2. CASE x # a
    BY <1>1, <2>2 DEF HashesAre, Used
  <2> QED BY <2>1, <2>2
<1>3. KeysOnce(r, n)
  <2> SUFFICES ASSUME NEW x \in 0..(n - 1), NEW y \in 0..(n - 1), Used(r, x), Used(r, y),
                      r[x].key = r[y].key, x # a
               PROVE  x = y
    BY DEF KeysOnce
  <2>1. r[x] = t[G[x]] /\ G[x] \in 0..(n - 1)
    BY <1>1
  <2>2. y # a
    BY <2>1
  <2>3. r[y] = t[G[y]] /\ G[y] \in 0..(n - 1)
    BY <1>1, <2>2
  <2>4. G[x] = G[y]
    BY <2>1, <2>3 DEF KeysOnce, Used
  <2> QED BY <2>2, <2>4 DEF IsMoved
<1>4. ASSUME NEW z \in Pairs(r) PROVE z \in Pairs(t) \cup {<<r[a].key, r[a].payload>>}
  <2>1. PICK x \in 0..(n - 1) : Used(r, x) /\ z = <<r[x].key, r[x].payload>>
    BY DEF Pairs, Occupied
  <2>2. CASE x = a
    BY <2>1, <2>2
  <2>3. CASE x # a
    <3>1. r[x] = t[G[x]] /\ G[x] \in 0..(n - 1) /\ Used(t, G[x])
      BY <1>1, <2>1, <2>3 DEF Used
    <3> QED BY <2>1, <3>1 DEF Pairs, Occupied
  <2> QED BY <2>2, <2>3
<1>5. ASSUME NEW z \in Pairs(t) PROVE z \in Pairs(r)
  <2>1. PICK y \in 0..(n - 1) : Used(t, y) /\ z = <<t[y].key, t[y].payload>>
    BY DEF Pairs, Occupied
  <2>2. PICK x \in 0..(n - 1) : x # a /\ G[x] = y
    BY <2>1 DEF IsMoved
  <2>3. r[x] = t[y] /\ Used(r, x)
    BY <1>1, <2>1, <2>2 DEF Used
  <2> QED BY <2>1, <2>3 DEF Pairs, Occupied
<1>6. <<r[a].key, r[a].payload>> \in Pairs(r)
  BY DEF Pairs, Occupied
<1> QED BY <1>2, <1>3, <1>4, <1>5, <1>6 DEF Gained

(* The entry in slot b is gone, and slot a is free.                        *)
LEMMA MovedOut ==
  ASSUME NEW n \in Nat \ {0}, NEW h, NEW r \in [0..(n - 1) -> Slots], NEW t \in [0..(n - 1) -> Slots],
         NEW a \in 0..(n - 1), NEW b \in 0..(n - 1), NEW G, IsMoved(r, t, n, a, b, G),
         KeysOnce(t, n), HashesAre(t, n, h), Used(t, b), ~Used(r, a)
  PROVE  /\ KeysOnce(r, n) /\ HashesAre(r, n, h)
         /\ Lost(r, t, t[b].key, t[b].payload)
<1>1. \A x \in 0..(n - 1) : x # a => r[x] = t[G[x]] /\ G[x] \in 0..(n - 1) /\ G[x] # b
  BY DEF IsMoved
<1>2. HashesAre(r, n, h)
  <2> SUFFICES ASSUME NEW x \in 0..(n - 1), Used(r, x) PROVE r[x].hashValue = h[r[x].key]
    BY DEF HashesAre
  <2>1. x # a
    OBVIOUS
  <2> QED BY <1>1, <2>1 DEF HashesAre, Used
<1>3. KeysOnce(r, n)
  <2> SUFFICES ASSUME NEW x \in 0..(n - 1), NEW y \in 0..(n - 1), Used(r, x), Used(r, y),
                      r[x].key = r[y].key
               PROVE  x = y
    BY DEF KeysOnce
  <2>1. x # a /\ y # a
    OBVIOUS
  <2>2. r[x] = t[G[x]] /\ G[x] \in 0..(n - 1) /\ r[y] = t[G[y]] /\ G[y] \in 0..(n - 1)
    BY <1>1, <2>1
  <2>3. G[x] = G[y]
    BY <2>2 DEF KeysOnce, Used
  <2> QED BY <2>1, <2>3 DEF IsMoved
<1>4. ASSUME NEW i \in 0..(n - 1), Used(r, i)
      PROVE  r[i] = t[G[i]] /\ G[i] \in 0..(n - 1) /\ Used(t, G[i]) /\ t[G[i]].key # t[b].key
  <2>1. i # a
    BY <1>4
  <2>2. r[i] = t[G[i]] /\ G[i] \in 0..(n - 1) /\ G[i] # b /\ Used(t, G[i])
    BY <1>1, <1>4, <2>1 DEF Used
  <2> QED BY <2>2 DEF KeysOnce
<1>5. ASSUME NEW z \in Pairs(r) PROVE z \in Pairs(t) /\ z # <<t[b].key, t[b].payload>>
  <2>1. PICK x \in 0..(n - 1) : Used(r, x) /\ z = <<r[x].key, r[x].payload>>
    BY DEF Pairs, Occupied
  <2> QED BY <1>4, <2>1 DEF Pairs, Occupied
<1>6. ASSUME NEW z \in Pairs(t), z # <<t[b].key, t[b].payload>> PROVE z \in Pairs(r)
  <2>1. PICK y \in 0..(n - 1) : Used(t, y) /\ z = <<t[y].key, t[y].payload>> /\ y # b
    BY <1>6 DEF Pairs, Occupied
  <2>2. PICK x \in 0..(n - 1) : x # a /\ G[x] = y
    BY <2>1 DEF IsMoved
  <2>3. r[x] = t[y] /\ Used(r, x)
    BY <1>1, <2>1, <2>2 DEF Used
  <2> QED BY <2>1, <2>3 DEF Pairs, Occupied
<1> QED BY <1>2, <1>3, <1>4, <1>5, <1>6 DEF Lost

LEMMA ShiftMoves ==
  ASSUME NEW n \in Nat \ {0}, NEW t, NEW e \in 0..(n - 1), NEW m \in 0..(n - 1), NEW s, NEW r,
         IsShift(r, t, n, e, m, s)
  PROVE  \E G : IsMoved(r, t, n, e, After(n, e, m), G)
<1> DEFINE B(x) == Behind(n, x, e)
           G == [x \in 0..(n - 1) |-> IF B(x) = 0 THEN e
                                      ELSE IF B(x) <= m THEN After(n, e, B(x) - 1) ELSE x]
           inv(y) == IF Behind(n, y, e) < m THEN After(n, y, 1) ELSE y
<1>1. G \in [0..(n - 1) -> 0..(n - 1)]
  BY DEF After, Behind
<1>2. \A j \in 1..(n - 1) : /\ j <= m => r[After(n, e, j)] = t[After(n, e, j - 1)]
                            /\ ~(j <= m) => r[After(n, e, j)] = t[After(n, e, j)]
  BY ShiftAt
<1>3. ASSUME NEW x \in 0..(n - 1), x # e
      PROVE  r[x] = t[G[x]] /\ G[x] # After(n, e, m)
  <2>1. PICK j \in 1..(n - 1) : j = B(x) /\ After(n, e, j) = x
    <3>1. B(x) \in 1..(n - 1) /\ After(n, e, B(x)) = x
      BY <1>3 DEF After, Behind
    <3> QED BY <3>1, Zenon
  <2>2. CASE j <= m
    <3>1. G[x] = After(n, e, j - 1)
      BY <2>1, <2>2
    <3>2. After(n, e, j - 1) # After(n, e, m)
      BY <2>2 DEF After
    <3> QED BY <1>2, <2>1, <2>2, <3>1, <3>2
  <2>3. CASE ~(j <= m)
    <3>1. G[x] = x
      BY <2>1, <2>3
    <3>2. After(n, e, j) # After(n, e, m)
      BY <2>3 DEF After
    <3> QED BY <1>2, <2>1, <2>3, <3>1, <3>2
  <2> QED BY <2>2, <2>3
<1>4. ASSUME NEW x \in 0..(n - 1), NEW y \in 0..(n - 1), x # e, y # e, G[x] = G[y]
      PROVE  x = y
  BY <1>4 DEF After, Behind
<1>5. ASSUME NEW y \in 0..(n - 1), y # After(n, e, m)
      PROVE  \E x \in 0..(n - 1) : x # e /\ G[x] = y
  <2>1. inv(y) \in 0..(n - 1) /\ inv(y) # e
    BY <1>5 DEF After, Behind
  <2>2. G[inv(y)] = y
    BY <1>5, <2>1 DEF After, Behind
  <2> QED BY <2>1, <2>2, Zenon
<1> HIDE DEF G
<1>6. IsMoved(r, t, n, e, After(n, e, m), G)
  BY <1>1, <1>3, <1>4, <1>5 DEF IsMoved
<1> QED BY <1>6

LEMMA IsTableIs ==
  ASSUME NEW n, NEW t, NEW h
  PROVE  IsTable(t, n, h) <=> /\ t \in [0..(n - 1) -> Slots]
                             /\ HashesAre(t, n, h) /\ KeysOnce(t, n) /\ Ordered(t, n)
BY DEF IsTable, HashesAre, KeysOnce

(* What xmlHashUpdateInternal makes of a table with room.                  *)
LEMMA InsertedIs ==
  ASSUME NEW n \in Nat \ {0}, NEW t, NEW h, IsTable(t, n, h),
         NEW k \in Keys, h[k] \in Nat, NEW v \in Payloads,
         \A i \in 0..(n - 1) : t[i].key # k,
         NEW f \in 0..(n - 1), NEW g \in 0..(n - 1), f # g, ~Used(t, f), ~Used(t, g)
  PROVE  LET r == HashInserted(t, k, h[k], v)
         IN  /\ IsTable(r, n, h)
             /\ Gained(r, t, k, v)
             /\ \E c \in 0..(n - 1) : ~Used(t, c) /\ Occupied(r) = Occupied(t) \cup {c}
<1> DEFINE hv == h[k]
           home == hv % n
           e == xmlHashFindEntry(t, k, hv)
           s == [hashValue |-> hv, key |-> k, payload |-> v]
           r == [ShiftRight(t, e) EXCEPT ![e] = s]
<1>1. t \in [0..(n - 1) -> Slots] /\ Ordered(t, n) /\ KeysOnce(t, n) /\ HashesAre(t, n, h)
  BY IsTableIs
<1>2. PICK p \in 0..(n - 1) :
        /\ e = After(n, home, p)
        /\ ~Used(t, e) \/ Off(t, n, e) < p
        /\ \A j \in 0..(n - 1) : j < p => /\ Used(t, After(n, home, j))
                                         /\ Off(t, n, After(n, home, j)) >= j
  BY <1>1, FindAbsent
<1>3. home \in 0..(n - 1)
  <2>1. hv \in Int
    OBVIOUS
  <2> QED BY <2>1, ModIn, Zenon
<1>4. e \in 0..(n - 1)
  BY <1>2, <1>3 DEF After
<1>5. s \in Slots /\ s.key # NoKey /\ s.hashValue = hv /\ s.key = k /\ s.payload = v
  BY PayloadsAssumption DEF Slots
<1>6. HashInserted(t, k, hv, v) = r
  BY Zenon DEF HashInserted
<1> HIDE DEF e, s, home
<1>7. PICK m \in 0..(n - 1) :
        /\ NextFree(t, e) = After(n, e, m)
        /\ ~Used(t, After(n, e, m))
        /\ \A j \in 0..(n - 1) : j < m => Used(t, After(n, e, j))
  <2>1. PICK d \in 0..(n - 1) : After(n, e, d) = f
    BY <1>4, AfterOnto
  <2>2. PICK m \in 0..d :
        /\ NextFree(t, e) = After(n, e, m)
        /\ ~Used(t, After(n, e, m))
        /\ \A j \in 0..(n - 1) : j < m => Used(t, After(n, e, j))
    BY <1>1, <1>4, <2>1, NextFreeIs
  <2>3. m \in 0..(n - 1)
    BY <2>1, <2>2
  <2> QED BY <2>2, <2>3
<1> DEFINE c == After(n, e, m)
<1>8. c \in 0..(n - 1)
  BY <1>4 DEF After
<1>9. PICK q \in 0..(n - 1) : q > m /\ ~Used(t, After(n, e, q))
  <2>1. PICK f2 \in 0..(n - 1) : f2 # c /\ ~Used(t, f2)
    OBVIOUS
  <2>2. PICK q \in 0..(n - 1) : After(n, e, q) = f2
    BY <1>4, AfterOnto
  <2>3. q > m
    BY <1>7, <2>1, <2>2
  <2> QED BY <2>1, <2>2, <2>3
<1>10. IsShift(r, t, n, e, m, s)
  BY <1>1, <1>4, <1>7, ShiftedSlots, Zenon
<1> HIDE DEF r
<1>11. r \in [0..(n - 1) -> Slots]
  BY <1>1, <1>4, <1>5, <1>10, ShiftTyped
<1>12. Ordered(r, n)
  <2>1. s.hashValue % n = home
    BY <1>5 DEF home
  <2> QED BY <1>1, <1>2, <1>4, <1>5, <1>7, <1>9, <1>10, <2>1, ShiftOrdered
<1>13. PICK G : IsMoved(r, t, n, e, c, G)
  BY <1>4, <1>10, ShiftMoves
<1>14. r[e] = s /\ Used(r, e) /\ r[e].hashValue = h[r[e].key] /\ r[e].key = k /\ r[e].payload = v
  BY <1>5, <1>10, ShiftAt DEF Used, hv
<1>15. /\ KeysOnce(r, n) /\ HashesAre(r, n, h)
       /\ Gained(r, t, r[e].key, r[e].payload)
  <2>1. ~Used(t, c) /\ \A i \in 0..(n - 1) : t[i].key # r[e].key
    BY <1>7, <1>14
  <2> HIDE DEF c
  <2> QED BY <1>1, <1>4, <1>8, <1>11, <1>13, <1>14, <2>1, MovedIn, Zenon
<1>16. Occupied(r) = Occupied(t) \cup {c}
  <2>1. ASSUME NEW i \in 0..(n - 1) PROVE Used(r, i) <=> Used(t, i) \/ i = c
    <3> DEFINE j == Behind(n, i, e)
    <3>1. j \in 0..(n - 1) /\ After(n, e, j) = i
      BY <1>4, AfterOnto
    <3> HIDE DEF j
    <3>2. CASE j = 0
      <4>1. i = e
        BY <1>4, <3>1, <3>2, AfterZero
      <4>2. Used(t, e) \/ e = c
        <5>1. 0 < m => Used(t, After(n, e, 0))
          BY <1>7
        <5>2. After(n, e, 0) = e
          BY <1>4, AfterZero
        <5> QED BY <5>1, <5>2
      <4> QED BY <1>14, <4>1, <4>2
    <3>3. CASE j \in 1..(n - 1) /\ j <= m
      <4>1. r[i] = t[After(n, e, j - 1)]
        BY <1>10, <3>1, <3>3, ShiftAt
      <4>2. Used(t, After(n, e, j - 1))
        BY <1>7, <3>3
      <4>3. Used(t, i) \/ i = c
        BY <1>7, <3>1, <3>3
      <4> QED BY <4>1, <4>2, <4>3 DEF Used
    <3>4. CASE j \in 1..(n - 1) /\ ~(j <= m)
      <4>1. r[i] = t[i]
        BY <1>10, <3>1, <3>4, ShiftAt
      <4>2. i # c
        BY <1>4, <3>1, <3>4 DEF After
      <4> QED BY <4>1, <4>2 DEF Used
    <3> QED BY <3>1, <3>2, <3>3, <3>4
  <2>2. DOMAIN r = 0..(n - 1) /\ DOMAIN t = 0..(n - 1)
    BY <1>1, <1>11
  <2> QED BY <1>8, <2>1, <2>2 DEF Occupied
<1>17. IsTable(r, n, h)
  BY <1>11, <1>12, <1>15, IsTableIs
<1> QED BY <1>6, <1>7, <1>8, <1>14, <1>15, <1>16, <1>17 DEF hv

-----------------------------------------------------------------------------
(* xmlHashRemoveEntry3: the slots after the entry at e is removed, where   *)
(* the last entry that is shifted is p steps after it.                     *)
IsUnshift(r, t, n, e, p) ==
  /\ r = [i \in 0..(n - 1) |-> r[i]]
  /\ r[After(n, e, p)] = Free
  /\ \A j \in 0..(n - 1) : /\ j < p => r[After(n, e, j)] = t[After(n, e, j + 1)]
                           /\ j > p => r[After(n, e, j)] = t[After(n, e, j)]

LEMMA ProbeEndIs ==
  ASSUME NEW n \in Nat \ {0}, NEW t \in [0..(n - 1) -> Slots], NEW e \in 0..(n - 1),
         NEW f \in 0..(n - 1), f # e, ~Used(t, f)
  PROVE  \E p \in 0..(n - 2) :
           /\ ProbeEnd(t, e) = After(n, e, p)
           /\ ~Used(t, After(n, e, p + 1)) \/ Off(t, n, After(n, e, p + 1)) = 0
           /\ \A j \in 0..(n - 1) : j < p => /\ Used(t, After(n, e, j + 1))
                                            /\ Off(t, n, After(n, e, j + 1)) # 0
<1> DEFINE last(j) == LET i == Around(t, e, j + 1)
                      IN  ~Used(t, i) \/ Displacement(t, i) = 0
           S == {j \in 0..(Size(t) - 1) : last(j)}
           p == LeastOf(S)
<1>1. Size(t) = n
  BY SizeIs
<1>2. ASSUME NEW j \in 0..(n - 1)
      PROVE  last(j) <=> ~Used(t, After(n, e, j + 1)) \/ Off(t, n, After(n, e, j + 1)) = 0
  <2>1. j + 1 \in 0..n
    OBVIOUS
  <2>2. PICK x \in 0..(n - 1) : x = After(n, e, j + 1) /\ x = Around(t, e, j + 1)
    <3>1. Around(t, e, j + 1) = After(n, e, j + 1)
      BY <2>1, AroundSlot
    <3>2. After(n, e, j + 1) \in 0..(n - 1)
      BY <2>1, AfterIn
    <3> QED BY <3>1, <3>2, Zenon
  <2>3. Displacement(t, x) = Off(t, n, x)
    BY DisplacementIs
  <2> QED BY <2>2, <2>3
<1>3. PICK d \in 0..(n - 2) : After(n, e, d + 1) = f
  <2>1. Behind(n, f, e) - 1 \in 0..(n - 2) /\ After(n, e, (Behind(n, f, e) - 1) + 1) = f
    BY DEF After, Behind
  <2> QED BY <2>1, Zenon
<1>4. ProbeEnd(t, e) = Around(t, e, p)
  BY Zenon DEF ProbeEnd
<1> HIDE DEF last
<1>5. S \in SUBSET Nat /\ d \in S
  BY <1>1, <1>2, <1>3
<1> HIDE DEF S
<1>6. p \in S /\ \A j \in S : p <= j
  BY <1>5, LeastOfIs, Zenon
<1> HIDE DEF p
<1>7. p \in 0..(n - 1) /\ last(p) /\ p <= d
  BY <1>1, <1>5, <1>6 DEF S
<1>8. ASSUME NEW j \in 0..(n - 1), j < p PROVE ~last(j)
  BY <1>1, <1>6, <1>7, <1>8 DEF S
<1>9. Around(t, e, p) = After(n, e, p)
  BY <1>7, AroundSlot
<1>10. p \in 0..(n - 2)
  BY <1>3, <1>7
<1> QED BY <1>2, <1>4, <1>7, <1>8, <1>9, <1>10

LEMMA RemovedSlots ==
  ASSUME NEW n \in Nat \ {0}, NEW t \in [0..(n - 1) -> Slots],
         NEW e \in 0..(n - 1), NEW p \in 0..(n - 2), ProbeEnd(t, e) = After(n, e, p)
  PROVE  IsUnshift(Removed(t, e), t, n, e, p)
<1> DEFINE cur == After(n, e, p)
           wrapped == [Memmove(t, e, e + 1, n - 1 - e) EXCEPT ![n - 1] = t[0]]
           moved == IF cur < e THEN Memmove(wrapped, 0, 1, cur) ELSE Memmove(t, e, e + 1, cur - e)
           r == Removed(t, e)
<1>1. Size(t) = n
  BY SizeIs
<1>2. r = [moved EXCEPT ![cur] = Free]
  BY <1>1, Zenon DEF Removed
<1>3. cur \in 0..(n - 1)
  BY DEF After
<1>4. CASE e + p < n
  <2>1. cur = e + p /\ ~(cur < e) /\ cur - e = p
    BY <1>4 DEF After
  <2>2. moved = [i \in 0..(n - 1) |-> IF i \in e..(e + p - 1) THEN t[e + 1 + i - e] ELSE t[i]]
    BY <2>1 DEF Memmove
  <2> HIDE DEF moved
  <2>3. DOMAIN r = 0..(n - 1) /\ r = [i \in DOMAIN r |-> r[i]] /\ r[cur] = Free
    BY <1>2, <1>3, <2>2
  <2>4. ASSUME NEW i \in 0..(n - 1), i # cur
        PROVE  r[i] = IF i >= e /\ i < cur THEN t[i + 1] ELSE t[i]
    <3>1. e + 1 + i - e = i + 1
      OBVIOUS
    <3> QED BY <1>2, <2>1, <2>2, <2>4, <3>1
  <2> HIDE DEF r
  <2>5. ASSUME NEW j \in 0..(n - 1)
        PROVE  /\ j < p => r[After(n, e, j)] = t[After(n, e, j + 1)]
               /\ j > p => r[After(n, e, j)] = t[After(n, e, j)]
    <3>1. After(n, e, j) \in 0..(n - 1)
      BY DEF After
    <3>2. j < p => /\ After(n, e, j) # cur /\ After(n, e, j) >= e /\ After(n, e, j) < cur
                   /\ After(n, e, j + 1) = After(n, e, j) + 1
      BY <1>4 DEF After
    <3>3. j > p => After(n, e, j) # cur /\ ~(After(n, e, j) >= e /\ After(n, e, j) < cur)
      BY <1>4 DEF After
    <3> HIDE DEF cur
    <3> QED BY <2>4, <3>1, <3>2, <3>3
  <2>6. r = [i \in 0..(n - 1) |-> r[i]]
    BY <2>3
  <2> QED BY <2>3, <2>5, <2>6 DEF IsUnshift, r
<1>5. CASE e + p >= n
  <2>1. cur = e + p - n /\ cur < e
    BY <1>5 DEF After
  <2>2. wrapped = [i \in 0..(n - 1) |-> IF i = n - 1 THEN t[0]
                     ELSE IF i \in e..(e + (n - 1 - e) - 1) THEN t[e + 1 + i - e] ELSE t[i]]
    BY DEF Memmove
  <2>3. moved = [i \in 0..(n - 1) |-> IF i \in 0..(0 + cur - 1) THEN wrapped[1 + i - 0] ELSE wrapped[i]]
    BY <2>1, <2>2 DEF Memmove
  <2>4. DOMAIN r = 0..(n - 1) /\ r = [i \in DOMAIN r |-> r[i]] /\ r[cur] = Free
    BY <1>2, <1>3, <2>3
  <2> HIDE DEF moved, wrapped
  <2>5. ASSUME NEW i \in 0..(n - 1), i # cur
        PROVE  r[i] = IF i = n - 1 THEN t[0]
                      ELSE IF i >= e \/ i < cur THEN t[i + 1] ELSE t[i]
    <3>1. e + 1 + i - e = i + 1 /\ 1 + i - 0 = i + 1
      OBVIOUS
    <3>2. r[i] = moved[i]
      BY <1>2, <2>3, <2>5
    <3>3. i < cur => moved[i] = wrapped[i + 1]
      <4> SUFFICES ASSUME i < cur PROVE moved[i] = wrapped[i + 1]
        OBVIOUS
      <4>1. i \in 0..(0 + cur - 1)
        BY <1>3
      <4>2. moved[i] = wrapped[1 + i - 0]
        BY <2>3, <4>1, Zenon
      <4> QED BY <3>1, <4>2
    <3>4. i < cur => wrapped[i + 1] = t[i + 1] /\ i # n - 1
      <4> SUFFICES ASSUME i < cur PROVE wrapped[i + 1] = t[i + 1] /\ i # n - 1
        OBVIOUS
      <4>1. i + 1 \in 0..(n - 1) /\ i + 1 < e /\ i + 1 # n - 1
        BY <2>1, <1>3
      <4>2. i + 1 \notin e..(e + (n - 1 - e) - 1)
        BY <4>1
      <4> QED BY <2>2, <4>1, <4>2
    <3>5. ~(i < cur) => moved[i] = wrapped[i]
      BY <1>3, <2>3
    <3>6. ~(i < cur) => wrapped[i] = IF i = n - 1 THEN t[0] ELSE IF i >= e THEN t[i + 1] ELSE t[i]
      BY <2>2, <3>1
    <3> QED BY <3>2, <3>3, <3>4, <3>5, <3>6
  <2> HIDE DEF r
  <2>6. ASSUME NEW j \in 0..(n - 1)
        PROVE  /\ j < p => r[After(n, e, j)] = t[After(n, e, j + 1)]
               /\ j > p => r[After(n, e, j)] = t[After(n, e, j)]
    <3>1. After(n, e, j) \in 0..(n - 1)
      BY DEF After
    <3>2. j < p => After(n, e, j) # cur
      BY DEF After
    <3>3. j < p /\ After(n, e, j) = n - 1 => After(n, e, j + 1) = 0
      BY DEF After
    <3>4. j < p /\ After(n, e, j) # n - 1 =>
            /\ After(n, e, j) >= e \/ After(n, e, j) < cur
            /\ After(n, e, j + 1) = After(n, e, j) + 1
      BY <1>5 DEF After
    <3>5. j > p => /\ After(n, e, j) # cur /\ After(n, e, j) # n - 1
                   /\ ~(After(n, e, j) >= e \/ After(n, e, j) < cur)
      BY <1>5 DEF After
    <3> HIDE DEF cur
    <3> QED BY <2>5, <3>1, <3>2, <3>3, <3>4, <3>5
  <2>7. r = [i \in 0..(n - 1) |-> r[i]]
    BY <2>4
  <2> QED BY <2>4, <2>6, <2>7 DEF IsUnshift, r
<1> QED BY <1>4, <1>5

LEMMA UnshiftAt ==
  ASSUME NEW n, NEW t, NEW e, NEW p, NEW r, IsUnshift(r, t, n, e, p)
  PROVE  /\ r[After(n, e, p)] = Free
         /\ \A j \in 0..(n - 1) : /\ j < p => r[After(n, e, j)] = t[After(n, e, j + 1)]
                                  /\ j > p => r[After(n, e, j)] = t[After(n, e, j)]
BY Zenon DEF IsUnshift

LEMMA UnshiftTyped ==
  ASSUME NEW n \in Nat \ {0}, NEW t \in [0..(n - 1) -> Slots],
         NEW e \in 0..(n - 1), NEW p \in 0..(n - 2), NEW r, IsUnshift(r, t, n, e, p)
  PROVE  r \in [0..(n - 1) -> Slots]
<1>1. ASSUME NEW i \in 0..(n - 1) PROVE r[i] \in Slots
  <2> DEFINE j == Behind(n, i, e)
  <2>1. j \in 0..(n - 1) /\ After(n, e, j) = i
    BY AfterOnto
  <2> HIDE DEF j
  <2>2. After(n, e, j + 1) \in 0..(n - 1)
    BY <2>1 DEF After
  <2>3. r[i] = Free \/ r[i] = t[After(n, e, j + 1)] \/ r[i] = t[i]
    BY <2>1, UnshiftAt
  <2>4. Free \in Slots
    BY PayloadsAssumption DEF Free, Slots
  <2> QED BY <2>2, <2>3, <2>4
<1>2. r = [i \in 0..(n - 1) |-> r[i]]
  BY DEF IsUnshift
<1> QED BY <1>1, <1>2

(* The displacement of what was moved shrinks by one.                      *)
LEMMA OffShrinks ==
  ASSUME NEW n \in Nat \ {0}, NEW t \in [0..(n - 1) -> Slots], NEW r \in [0..(n - 1) -> Slots],
         NEW i \in 0..(n - 1), NEW x \in 0..(n - 1), x = After(n, i, 1), r[i] = t[x],
         Off(t, n, x) # 0
  PROVE  Off(r, n, i) = Off(t, n, x) - 1
<1>1. t[x].hashValue % n \in 0..(n - 1)
  BY DisplacementIs
<1> QED BY <1>1 DEF Off, After, Behind

LEMMA StepBack ==
  ASSUME NEW a \in Nat, NEW b \in Nat, NEW c \in Nat, a = b - 1, b <= c + 1
  PROVE  a <= c
OBVIOUS

LEMMA StepOn ==
  ASSUME NEW a \in Nat, NEW b \in Nat, NEW c \in Nat, NEW d \in Nat, b = c - 1, d = b + 1, a <= c
  PROVE  a <= d
OBVIOUS

LEMMA NotMore ==
  ASSUME NEW a \in Nat, NEW b \in Nat, NEW c \in Nat, a <= b, b <= c
  PROVE  a <= c
OBVIOUS

(* The order is kept: the shift ends before an entry that is at its home.  *)
LEMMA UnshiftOrdered ==
  ASSUME NEW n \in Nat \ {0}, NEW t \in [0..(n - 1) -> Slots], Ordered(t, n),
         NEW e \in 0..(n - 1), Used(t, e), NEW p \in 0..(n - 2),
         ~Used(t, After(n, e, p + 1)) \/ Off(t, n, After(n, e, p + 1)) = 0,
         \A j \in 0..(n - 1) : j < p => /\ Used(t, After(n, e, j + 1))
                                       /\ Off(t, n, After(n, e, j + 1)) # 0,
         NEW r, IsUnshift(r, t, n, e, p)
  PROVE  Ordered(r, n)
<1> DEFINE A(j) == After(n, e, j)
<1>1. r \in [0..(n - 1) -> Slots]
  BY UnshiftTyped
<1>2. /\ r[A(p)] = Free
      /\ \A j \in 0..(n - 1) : /\ j < p => r[A(j)] = t[A(j + 1)]
                               /\ j > p => r[A(j)] = t[A(j)]
  BY UnshiftAt
<1>3. \A j \in 0..(n - 1) : A(j) \in 0..(n - 1) /\ (j < n - 1 => A(j + 1) = After(n, A(j), 1))
  BY AfterSteps, Zenon
<1>4. A(0) = e /\ After(n, A(n - 1), 1) = e
  <2>1. n - 1 \in 0..(n - 1)
    OBVIOUS
  <2> QED BY <2>1, AfterNext, AfterZero
<1>5. \A i \in 0..(n - 1) : Off(t, n, i) \in 0..(n - 1) /\ Off(r, n, i) \in 0..(n - 1)
  BY <1>1, DisplacementIs
<1>6. ASSUME NEW i \in 0..(n - 1) PROVE Reach(t, n, i) \in 0..n /\ Reach(r, n, i) \in 0..n
  <2>1. Off(t, n, i) \in 0..(n - 1) /\ Off(r, n, i) \in 0..(n - 1)
    BY <1>5
  <2> QED BY <2>1 DEF Reach
<1>7. ~Used(r, A(p))
  BY <1>2 DEF Used, Free
<1>8. ASSUME NEW j \in 0..(n - 1), j < p, NEW y \in 0..(n - 1), y = A(j),
             NEW x \in 0..(n - 1), x = After(n, y, 1)
      PROVE  Used(t, x) /\ Used(r, y) /\ Off(r, n, y) = Off(t, n, x) - 1 /\ Off(t, n, x) # 0
  <2>1. x = A(j + 1)
    BY <1>3, <1>8
  <2>2. Used(t, x) /\ Off(t, n, x) # 0
    BY <1>8, <2>1
  <2>3. r[y] = t[x]
    BY <1>2, <1>8, <2>1
  <2>4. Off(r, n, y) = Off(t, n, x) - 1
    BY <1>1, <1>8, <2>2, <2>3, OffShrinks
  <2> QED BY <2>2, <2>3, <2>4 DEF Used
<1>9. ASSUME NEW j \in 0..(n - 1), j > p, NEW y, y = A(j)
      PROVE  /\ Off(r, n, y) = Off(t, n, y) /\ (Used(r, y) <=> Used(t, y))
             /\ Reach(r, n, y) = Reach(t, n, y)
  <2>1. r[y] = t[y]
    BY <1>2, <1>9
  <2> QED BY <2>1, OffSame
<1>10. ASSUME NEW j \in 0..(n - 1), NEW y \in 0..(n - 1), y = A(j),
              NEW x \in 0..(n - 1), x = After(n, y, 1), Used(r, x)
       PROVE  Off(r, n, x) <= Reach(r, n, y)
  <2>0. /\ Off(r, n, x) \in 0..(n - 1) /\ Off(t, n, x) \in 0..(n - 1)
        /\ Off(r, n, y) \in 0..(n - 1) /\ Off(t, n, y) \in 0..(n - 1)
        /\ Reach(r, n, y) \in 0..n /\ Reach(t, n, y) \in 0..n
        /\ Used(t, x) => Off(t, n, x) <= Reach(t, n, y)
    BY <1>5, <1>6, <1>10 DEF Ordered
  <2>1. CASE j + 1 < p
    <3>1. j + 1 \in 0..(n - 1) /\ j < p /\ j < n - 1
      BY <2>1
    <3>2. x = A(j + 1)
      BY <1>3, <1>10, <3>1
    <3>3. PICK z \in 0..(n - 1) : z = After(n, x, 1) /\ Off(t, n, z) \in 0..(n - 1)
      <4>1. After(n, x, 1) \in 0..(n - 1)
        BY NextIn
      <4> QED BY <1>5, <4>1
    <3>4. /\ Used(t, x) /\ Used(r, y) /\ Off(r, n, y) = Off(t, n, x) - 1
      BY <1>8, <1>10, <3>1
    <3>5. Used(t, z) /\ Off(r, n, x) = Off(t, n, z) - 1
      BY <1>8, <2>1, <3>1, <3>2, <3>3
    <3>6. Off(t, n, z) <= Reach(t, n, x)
      BY <3>3, <3>5 DEF Ordered
    <3>7. Reach(t, n, x) = Off(t, n, x) + 1 /\ Reach(r, n, y) = Off(r, n, y) + 1
      BY <3>4 DEF Reach
    <3>8. Off(t, n, z) <= Off(t, n, x) + 1
      BY <3>6, <3>7
    <3>9. Off(r, n, x) <= Off(t, n, x)
      <4>1. Off(r, n, x) \in Nat /\ Off(t, n, z) \in Nat /\ Off(t, n, x) \in Nat
        BY <2>0, <3>3
      <4> QED BY <4>1, <3>5, <3>8, StepBack, Zenon
    <3> QED BY <2>0, <3>4, <3>7, <3>9, StepOn
  <2>2. CASE j + 1 = p
    <3>1. x = A(p)
      BY <1>3, <1>10, <2>2
    <3> QED BY <1>7, <1>10, <3>1
  <2>3. CASE j = p
    <3>1. j < n - 1 /\ j + 1 \in 0..(n - 1) /\ j + 1 > p
      BY <2>3
    <3>2. x = A(j + 1)
      BY <1>3, <1>10, <3>1
    <3>3. Used(t, x) /\ Off(r, n, x) = Off(t, n, x)
      BY <1>9, <1>10, <3>1, <3>2
    <3>4. Off(t, n, x) = 0
      BY <2>3, <3>2, <3>3
    <3> QED BY <2>0, <3>3, <3>4
  <2>4. CASE j > p /\ j < n - 1
    <3>1. j + 1 \in 0..(n - 1) /\ j + 1 > p
      BY <2>4
    <3>2. x = A(j + 1)
      BY <1>3, <1>10, <2>4
    <3>3. Used(t, x) /\ Off(r, n, x) = Off(t, n, x)
      BY <1>9, <1>10, <3>1, <3>2
    <3>4. Reach(r, n, y) = Reach(t, n, y)
      BY <1>9, <1>10, <2>4
    <3> QED BY <2>0, <3>3, <3>4
  <2>5. CASE j > p /\ j = n - 1
    <3>1. x = e
      BY <1>4, <1>10, <2>5
    <3>2. Reach(r, n, y) = Reach(t, n, y)
      BY <1>9, <1>10, <2>5
    <3>3. Off(t, n, x) <= Reach(t, n, y)
      BY <2>0, <3>1
    <3>4. p # 0
      <4> SUFFICES ASSUME p = 0 PROVE FALSE
        OBVIOUS
      <4> QED BY <1>4, <1>7, <1>10, <3>1
    <3>5. 0 \in 0..(n - 1) /\ 0 < p
      BY <3>4
    <3>6. PICK z \in 0..(n - 1) : z = After(n, x, 1) /\ Off(t, n, z) \in 0..(n - 1)
      <4>1. After(n, x, 1) \in 0..(n - 1)
        BY NextIn
      <4> QED BY <1>5, <4>1
    <3>7. Used(t, z) /\ Off(r, n, x) = Off(t, n, z) - 1
      BY <1>4, <1>8, <3>1, <3>5, <3>6
    <3>8. Off(t, n, z) <= Off(t, n, x) + 1
      BY <3>1, <3>6, <3>7 DEF Ordered, Reach
    <3>9. Off(r, n, x) <= Off(t, n, x)
      <4>1. Off(r, n, x) \in Nat /\ Off(t, n, z) \in Nat /\ Off(t, n, x) \in Nat
        BY <2>0, <3>6
      <4> QED BY <4>1, <3>7, <3>8, StepBack, Zenon
    <3> QED BY <2>0, <3>2, <3>3, <3>9, NotMore
  <2> QED BY <2>1, <2>2, <2>3, <2>4, <2>5
<1>11. ASSUME NEW i \in 0..(n - 1), Used(r, After(n, i, 1))
       PROVE  Off(r, n, After(n, i, 1)) <= Reach(r, n, i)
  <2> DEFINE j == Behind(n, i, e)
  <2>1. j \in 0..(n - 1) /\ A(j) = i
    BY AfterOnto
  <2>2. After(n, i, 1) \in 0..(n - 1)
    BY DEF After
  <2> HIDE DEF j, A
  <2> QED BY <1>10, <1>11, <2>1, <2>2
<1> QED BY <1>11 DEF Ordered

LEMMA UnshiftMoves ==
  ASSUME NEW n \in Nat \ {0}, NEW t, NEW e \in 0..(n - 1), NEW p \in 0..(n - 2), NEW r,
         IsUnshift(r, t, n, e, p)
  PROVE  \E G : IsMoved(r, t, n, After(n, e, p), e, G)
<1> DEFINE B(x) == Behind(n, x, e)
           G == [x \in 0..(n - 1) |-> IF B(x) < p THEN After(n, e, B(x) + 1) ELSE x]
           inv(y) == IF B(y) <= p THEN After(n, e, B(y) - 1) ELSE y
<1>1. G \in [0..(n - 1) -> 0..(n - 1)]
  BY DEF After, Behind
<1>2. \A j \in 0..(n - 1) : /\ j < p => r[After(n, e, j)] = t[After(n, e, j + 1)]
                            /\ j > p => r[After(n, e, j)] = t[After(n, e, j)]
  BY UnshiftAt
<1>3. ASSUME NEW x \in 0..(n - 1), x # After(n, e, p)
      PROVE  r[x] = t[G[x]] /\ G[x] # e
  <2>1. PICK j \in 0..(n - 1) : j = B(x) /\ After(n, e, j) = x
    <3>1. B(x) \in 0..(n - 1) /\ After(n, e, B(x)) = x
      BY DEF After, Behind
    <3> QED BY <3>1, Zenon
  <2>2. CASE j < p
    <3>1. G[x] = After(n, e, j + 1)
      BY <2>1, <2>2
    <3>2. After(n, e, j + 1) # e
      BY <2>2 DEF After
    <3> QED BY <1>2, <2>1, <2>2, <3>1, <3>2
  <2>3. CASE j > p
    <3>1. G[x] = x
      BY <2>1, <2>3
    <3>2. After(n, e, j) # e
      BY <2>3 DEF After
    <3> QED BY <1>2, <2>1, <2>3, <3>1, <3>2
  <2>4. j # p
    BY <1>3, <2>1
  <2> QED BY <2>2, <2>3, <2>4
<1>4. ASSUME NEW x \in 0..(n - 1), NEW y \in 0..(n - 1), x # After(n, e, p), y # After(n, e, p),
             G[x] = G[y]
      PROVE  x = y
  BY <1>4 DEF After, Behind
<1>5. ASSUME NEW y \in 0..(n - 1), y # e
      PROVE  \E x \in 0..(n - 1) : x # After(n, e, p) /\ G[x] = y
  <2>1. inv(y) \in 0..(n - 1) /\ inv(y) # After(n, e, p)
    BY <1>5 DEF After, Behind
  <2>2. G[inv(y)] = y
    BY <1>5, <2>1 DEF After, Behind
  <2> QED BY <2>1, <2>2, Zenon
<1> HIDE DEF G
<1>6. IsMoved(r, t, n, After(n, e, p), e, G)
  BY <1>1, <1>3, <1>4, <1>5 DEF IsMoved
<1> QED BY <1>6

(* What xmlHashRemoveEntry3 makes of a table that has the key.             *)
LEMMA RemovedIs ==
  ASSUME NEW n \in Nat \ {0}, NEW t, NEW h, IsTable(t, n, h),
         NEW e \in 0..(n - 1), Used(t, e), NEW f \in 0..(n - 1), ~Used(t, f)
  PROVE  LET r == Removed(t, e)
         IN  /\ IsTable(r, n, h)
             /\ Lost(r, t, t[e].key, t[e].payload)
             /\ \E p \in 0..(n - 2) :
                  /\ IsUnshift(r, t, n, e, p)
                  /\ Used(t, After(n, e, p)) /\ Occupied(r) = Occupied(t) \ {After(n, e, p)}
                  /\ \A j \in 0..p : Used(t, After(n, e, j))
<1> DEFINE r == Removed(t, e)
<1>1. t \in [0..(n - 1) -> Slots] /\ Ordered(t, n) /\ KeysOnce(t, n) /\ HashesAre(t, n, h)
  BY IsTableIs
<1>2. PICK p \in 0..(n - 2) :
        /\ ProbeEnd(t, e) = After(n, e, p)
        /\ ~Used(t, After(n, e, p + 1)) \/ Off(t, n, After(n, e, p + 1)) = 0
        /\ \A j \in 0..(n - 1) : j < p => /\ Used(t, After(n, e, j + 1))
                                         /\ Off(t, n, After(n, e, j + 1)) # 0
  <2>1. f # e
    OBVIOUS
  <2> QED BY <1>1, <2>1, ProbeEndIs, Zenon
<1>3. IsUnshift(r, t, n, e, p)
  BY <1>1, <1>2, RemovedSlots, Zenon
<1> HIDE DEF r
<1>4. r \in [0..(n - 1) -> Slots]
  BY <1>1, <1>3, UnshiftTyped
<1>5. Ordered(r, n)
  BY <1>1, <1>2, <1>3, UnshiftOrdered
<1> DEFINE c == After(n, e, p)
<1>6. c \in 0..(n - 1) /\ ~Used(r, c)
  <2>1. r[c] = Free
    BY <1>3, UnshiftAt
  <2> QED BY <2>1 DEF After, Used, Free
<1>7. PICK G : IsMoved(r, t, n, c, e, G)
  BY <1>3, UnshiftMoves
<1>8. KeysOnce(r, n) /\ HashesAre(r, n, h) /\ Lost(r, t, t[e].key, t[e].payload)
  <2> HIDE DEF c
  <2> QED BY <1>1, <1>4, <1>6, <1>7, MovedOut, Zenon
<1>9. ASSUME NEW j \in 0..p PROVE Used(t, After(n, e, j))
  <2>1. CASE j = 0
    BY <2>1, AfterZero
  <2>2. CASE j # 0
    <3>1. j - 1 \in 0..(n - 1) /\ j - 1 < p /\ (j - 1) + 1 = j
      BY <2>2
    <3> QED BY <1>2, <3>1
  <2> QED BY <2>1, <2>2
<1>10. Occupied(r) = Occupied(t) \ {c}
  <2>1. ASSUME NEW i \in 0..(n - 1) PROVE Used(r, i) <=> Used(t, i) /\ i # c
    <3> DEFINE j == Behind(n, i, e)
    <3>1. j \in 0..(n - 1) /\ After(n, e, j) = i
      BY AfterOnto
    <3> HIDE DEF j
    <3>2. CASE j < p
      <4>1. r[i] = t[After(n, e, j + 1)] /\ Used(t, After(n, e, j + 1))
        BY <1>2, <1>3, <3>1, <3>2, UnshiftAt
      <4>2. Used(t, i)
        BY <1>9, <3>1, <3>2
      <4>3. i # c
        BY <1>6, <4>1 DEF Used
      <4> QED BY <4>1, <4>2, <4>3 DEF Used
    <3>3. CASE j = p
      BY <1>6, <3>1, <3>3
    <3>4. CASE j > p
      <4>1. r[i] = t[i]
        BY <1>3, <3>1, <3>4, UnshiftAt
      <4>2. i # c
        BY <3>1, <3>4 DEF After
      <4> QED BY <4>1, <4>2 DEF Used
    <3> QED BY <3>1, <3>2, <3>3, <3>4
  <2>2. DOMAIN r = 0..(n - 1) /\ DOMAIN t = 0..(n - 1)
    BY <1>1, <1>4
  <2> QED BY <1>6, <2>1, <2>2 DEF Occupied
<1>11. IsTable(r, n, h)
  BY <1>4, <1>5, <1>8, IsTableIs
<1>12. Used(t, c)
  <2>1. p \in 0..p
    OBVIOUS
  <2> QED BY <1>9, <2>1
<1> QED BY <1>3, <1>8, <1>9, <1>10, <1>11, <1>12 DEF r

-----------------------------------------------------------------------------
(* xmlHashGrow.  The position of a slot, in the old table or in the one    *)
(* of twice its size, is counted from the slot where the copy starts.      *)
Pos(n, s, w) == Behind(n, IF w < n THEN w ELSE w - n, s)

LEMMA PosIn ==
  ASSUME NEW n \in Nat \ {0}, NEW s \in 0..(n - 1), NEW w \in 0..(2 * n - 1)
  PROVE  Pos(n, s, w) \in 0..(n - 1)
BY DEF Pos, Behind

LEMMA PosAfter ==
  ASSUME NEW n \in Nat \ {0}, NEW s \in 0..(n - 1), NEW w \in 0..(2 * n - 1),
         NEW x \in 0..(n - 1), Pos(n, s, w) + x < n
  PROVE  Pos(n, s, After(2 * n, w, x)) = Pos(n, s, w) + x
BY DEF Pos, Behind, After

LEMMA PosHome ==
  ASSUME NEW n \in Nat \ {0}, NEW s \in 0..(n - 1), NEW i \in 0..(n - 1), NEW a \in 0..(n - 1),
         NEW x, x = After(n, s, i), NEW d, d = Behind(n, x, a), d <= i,
         NEW w, w = a \/ w = a + n
  PROVE  Pos(n, s, w) = i - d
BY DEF Pos, Behind, After

LEMMA PosStart ==
  ASSUME NEW n \in Nat \ {0}, NEW s \in 0..(n - 1)
  PROVE  Pos(n, s, s) = 0 /\ Pos(n, s, s + n) = 0
BY DEF Pos, Behind

(* In the order of the slots from a free one, homes do not go back.        *)
LEMMA HomesGrow ==
  ASSUME NEW n \in Nat \ {0}, NEW t \in [0..(n - 1) -> Slots], Ordered(t, n),
         NEW s \in 0..(n - 1), NEW i \in 0..(n - 1), Used(t, After(n, s, i))
  PROVE  \A j \in 0..(n - 1) : i <= j /\ Used(t, After(n, s, j)) =>
           i - Off(t, n, After(n, s, i)) <= j - Off(t, n, After(n, s, j))
<1> DEFINE A(j) == After(n, s, j)
           P == {j \in Nat : j \in 0..(n - 1) /\ i <= j /\ Used(t, A(j)) =>
                               i - Off(t, n, A(i)) <= j - Off(t, n, A(j))}
<1>1. \A j \in 0..(n - 1) : A(j) \in 0..(n - 1) /\ (j < n - 1 => A(j + 1) = After(n, A(j), 1))
  BY AfterSteps, Zenon
<1>2. \A j \in 0..(n - 1) : Off(t, n, A(j)) \in 0..(n - 1)
  <2> SUFFICES ASSUME NEW j \in 0..(n - 1) PROVE Off(t, n, A(j)) \in 0..(n - 1)
    OBVIOUS
  <2>1. PICK x \in 0..(n - 1) : x = A(j)
    BY <1>1
  <2> QED BY <2>1, DisplacementIs
<1>3. 0 \in P
  <2> SUFFICES ASSUME i <= 0 PROVE i - Off(t, n, A(i)) <= 0 - Off(t, n, A(0))
    OBVIOUS
  <2>1. i = 0
    OBVIOUS
  <2> QED BY <1>2, <2>1
<1>4. ASSUME NEW j \in Nat, j \in P PROVE j + 1 \in P
  <2> SUFFICES ASSUME j + 1 \in 0..(n - 1), i <= j + 1, Used(t, A(j + 1))
               PROVE  i - Off(t, n, A(i)) <= (j + 1) - Off(t, n, A(j + 1))
    OBVIOUS
  <2>1. j \in 0..(n - 1) /\ j < n - 1
    OBVIOUS
  <2>2. PICK a \in Nat : a = Off(t, n, A(i)) /\ a <= n - 1
    BY <1>2
  <2>3. PICK b \in Nat : b = Off(t, n, A(j + 1)) /\ b <= n - 1
    BY <1>2
  <2>4. PICK c \in Nat : c = Off(t, n, A(j)) /\ c <= n - 1
    BY <1>2, <2>1
  <2>5. CASE i = j + 1
    BY <2>2, <2>5
  <2>6. CASE i <= j
    <3>1. PICK x \in 0..(n - 1) : x = A(j) /\ A(j + 1) = After(n, x, 1)
      BY <1>1, <2>1
    <3>2. b <= Reach(t, n, x)
      BY <2>3, <3>1 DEF Ordered
    <3>3. CASE Used(t, x)
      <4>1. i - a <= j - c
        BY <1>4, <2>1, <2>2, <2>4, <2>6, <3>1, <3>3
      <4>2. b <= c + 1
        BY <2>4, <3>1, <3>2, <3>3 DEF Reach
      <4> QED BY <2>2, <2>3, <2>4, <4>1, <4>2
    <3>4. CASE ~Used(t, x)
      <4>1. b <= 0
        BY <3>2, <3>4 DEF Reach
      <4> QED BY <2>2, <2>3, <2>6, <4>1
    <3> QED BY <3>3, <3>4
  <2> QED BY <2>5, <2>6
<1>5. \A j \in Nat : j \in P
  <2> HIDE DEF P
  <2> QED BY <1>3, <1>4, Induct
<1> QED BY <1>5

(* The new table when the first i slots have been copied.                  *)
GrowFree(new, n, s, i) ==
  \A w \in 0..(2 * n - 1) : Pos(n, s, w) >= i => ~Used(new, w)
GrowHomes(new, t, n, s, i) ==
  \A w \in 0..(2 * n - 1) : Used(new, w) =>
    /\ Off(new, 2 * n, w) < Pos(n, s, w)
    /\ \A j \in 0..(n - 1) : i <= j /\ Used(t, After(n, s, j)) =>
         Pos(n, s, w) - Off(new, 2 * n, w) <= j - Off(t, n, After(n, s, j))
GrowPairs(new, t, n, s, i) ==
  Pairs(new) = {<<t[After(n, s, j)].key, t[After(n, s, j)].payload>> :
                  j \in {x \in 0..(n - 1) : x < i /\ Used(t, After(n, s, x))}}
GrowInv(new, t, n, h, s, i) ==
  /\ IsTable(new, 2 * n, h)
  /\ GrowFree(new, n, s, i)
  /\ GrowHomes(new, t, n, s, i)
  /\ GrowPairs(new, t, n, s, i)

LEMMA EmptyIs ==
  ASSUME NEW n \in Nat \ {0}, NEW h
  PROVE  /\ IsTable(EmptyTable(n), n, h)
         /\ Pairs(EmptyTable(n)) = {} /\ Occupied(EmptyTable(n)) = {}
         /\ \A i \in 0..(n - 1) : ~Used(EmptyTable(n), i)
<1> DEFINE t == EmptyTable(n)
<1>1. \A i \in 0..(n - 1) : ~Used(t, i)
  BY DEF EmptyTable, Used, Free
<1>2. t \in [0..(n - 1) -> Slots]
  BY PayloadsAssumption DEF EmptyTable, Free, Slots
<1> HIDE DEF t
<1>3. Occupied(t) = {}
  BY <1>1, <1>2 DEF Occupied
<1>4. Pairs(t) = {}
  BY <1>3 DEF Pairs
<1>5. Ordered(t, n)
  BY <1>1, NextIn DEF Ordered
<1>6. HashesAre(t, n, h) /\ KeysOnce(t, n)
  BY <1>1 DEF HashesAre, KeysOnce
<1>7. IsTable(t, n, h)
  BY <1>2, <1>5, <1>6, IsTableIs
<1> QED BY <1>1, <1>3, <1>4, <1>7 DEF t

LEMMA GrowStarts ==
  ASSUME NEW n \in Nat \ {0}, NEW t, NEW h, NEW s
  PROVE  GrowInv(EmptyTable(2 * n), t, n, h, s, 0)
<1>1. 2 * n \in Nat \ {0}
  OBVIOUS
<1>2. /\ IsTable(EmptyTable(2 * n), 2 * n, h)
      /\ Pairs(EmptyTable(2 * n)) = {}
      /\ \A i \in 0..(2 * n - 1) : ~Used(EmptyTable(2 * n), i)
  BY <1>1, EmptyIs
<1>3. GrowFree(EmptyTable(2 * n), n, s, 0) /\ GrowHomes(EmptyTable(2 * n), t, n, s, 0)
  BY <1>2 DEF GrowFree, GrowHomes
<1>4. GrowPairs(EmptyTable(2 * n), t, n, s, 0)
  <2>1. {x \in 0..(n - 1) : x < 0 /\ Used(t, After(n, s, x))} = {}
    OBVIOUS
  <2> QED BY <1>2, <2>1 DEF GrowPairs
<1> QED BY <1>2, <1>3, <1>4 DEF GrowInv

(* Where the next entry e goes: m steps after its home w, where m is not   *)
(* larger than its displacement before.                                    *)
IsPlace(new, t, n, s, i, x, m, w, q) ==
  /\ w = t[x].hashValue % (2 * n) /\ q = After(2 * n, w, m)
  /\ HashMoved(new, t[x]) = [new EXCEPT ![q] = t[x]]
  /\ ~Used(new, q)
  /\ m <= Off(t, n, x) /\ Off(t, n, x) < i
  /\ Pos(n, s, w) = i - Off(t, n, x)
  /\ \A j \in 0..(2 * n - 1) : j < m => Used(new, After(2 * n, w, j))

LEMMA GrowPlace ==
  ASSUME NEW n \in Nat \ {0}, NEW t, NEW h, IsTable(t, n, h),
         NEW s \in 0..(n - 1), ~Used(t, s), NEW i \in 0..(n - 1),
         NEW new, GrowInv(new, t, n, h, s, i),
         NEW x \in 0..(n - 1), x = After(n, s, i), Used(t, x)
  PROVE  \E m \in 0..(n - 1), w \in 0..(2 * n - 1), q \in 0..(2 * n - 1) :
           IsPlace(new, t, n, s, i, x, m, w, q)
<1> DEFINE e == t[x]
           a == e.hashValue % n
           w == e.hashValue % (2 * n)
           d == Off(t, n, x)
<1>1. /\ t \in [0..(n - 1) -> Slots] /\ Ordered(t, n)
      /\ new \in [0..(2 * n - 1) -> Slots]
      /\ GrowFree(new, n, s, i)
  BY DEF IsTable, GrowInv
<1>2. e.hashValue \in Nat /\ e.key # NoKey
  BY <1>1 DEF Slots, Used
<1>3. a \in 0..(n - 1) /\ d \in 0..(n - 1) /\ d = Behind(n, x, a)
  BY <1>1, DisplacementIs DEF Off
<1>4. w \in {a, a + n}
  BY <1>2, ModTwice
<1> HIDE DEF w
<1>5. w \in 0..(2 * n - 1)
  BY <1>3, <1>4
<1> HIDE DEF a, d
<1>6. d < i
  <2>1. d < Behind(n, x, s)
    BY <1>1, BeforeFree DEF d
  <2>2. Behind(n, x, s) = i
    BY BehindAfter
  <2> QED BY <2>1, <2>2
<1>7. Pos(n, s, w) = i - d
  <2>1. w = a \/ w = a + n
    BY <1>4
  <2>2. d <= i
    BY <1>3, <1>6
  <2> QED BY <1>3, <2>1, <2>2, PosHome
<1>8. d \in 0..(2 * n - 1) /\ ~Used(new, After(2 * n, w, d))
  <2>1. Pos(n, s, w) + d = i
    BY <1>3, <1>7
  <2>2. Pos(n, s, After(2 * n, w, d)) = i
    BY <1>3, <1>5, <2>1, PosAfter
  <2>3. After(2 * n, w, d) \in 0..(2 * n - 1)
    BY <1>3, <1>5 DEF After
  <2> QED BY <1>1, <1>3, <2>2, <2>3 DEF GrowFree
<1>9. PICK m \in 0..d :
        /\ NextFree(new, w) = After(2 * n, w, m)
        /\ ~Used(new, After(2 * n, w, m))
        /\ \A j \in 0..(2 * n - 1) : j < m => Used(new, After(2 * n, w, j))
  <2>1. 2 * n \in Nat \ {0}
    OBVIOUS
  <2> QED BY <1>1, <1>5, <1>8, <2>1, NextFreeIs
<1>10. PICK q \in 0..(2 * n - 1) : q = After(2 * n, w, m)
  <2>1. After(2 * n, w, m) \in 0..(2 * n - 1)
    BY <1>3, <1>5 DEF After
  <2> QED BY <2>1, Zenon
<1>11. HashMoved(new, e) = [new EXCEPT ![q] = e]
  <2>1. 2 * n \in Nat \ {0} /\ DOMAIN new = 0..(2 * n - 1)
    BY <1>1
  <2>2. Size(new) = 2 * n
    BY <2>1, SizeIs
  <2>3. NextFree(new, e.hashValue % Size(new)) = q
    BY <1>9, <1>10, <2>2 DEF w
  <2> QED BY <1>2, <2>3, Zenon DEF HashMoved
<1>12. m \in 0..(n - 1) /\ m <= d
  BY <1>3, <1>9
<1>13. IsPlace(new, t, n, s, i, x, m, w, q)
  BY <1>6, <1>7, <1>9, <1>10, <1>11, <1>12 DEF w, d, IsPlace
<1> QED BY <1>5, <1>12, <1>13

LEMMA PutAt ==
  ASSUME NEW N, NEW new \in [0..(N - 1) -> Slots], NEW q \in 0..(N - 1), NEW e \in Slots
  PROVE  LET r == [new EXCEPT ![q] = e]
         IN  /\ r \in [0..(N - 1) -> Slots] /\ r[q] = e
             /\ \A y \in 0..(N - 1) : y # q => r[y] = new[y]
OBVIOUS

LEMMA GrowOrdered ==
  ASSUME NEW N \in Nat \ {0}, N >= 2, NEW new \in [0..(N - 1) -> Slots], Ordered(new, N),
         NEW r \in [0..(N - 1) -> Slots], NEW q \in 0..(N - 1), NEW m \in 0..(N - 1),
         ~Used(new, q), Off(r, N, q) = m, Used(r, q),
         \A y \in 0..(N - 1) : y # q => r[y] = new[y],
         m > 0 => \A y \in 0..(N - 1) : After(N, y, 1) = q =>
                    Used(new, y) /\ Off(new, N, y) >= m - 1
  PROVE  Ordered(r, N)
<1> SUFFICES ASSUME NEW y \in 0..(N - 1), NEW z \in 0..(N - 1), z = After(N, y, 1), Used(r, z)
             PROVE  Off(r, N, z) <= Reach(r, N, y)
  BY NextIn DEF Ordered
<1>1. z # y
  BY DEF After
<1>2. /\ Off(r, N, z) \in 0..(N - 1) /\ Off(new, N, z) \in 0..(N - 1)
      /\ Off(r, N, y) \in 0..(N - 1) /\ Off(new, N, y) \in 0..(N - 1)
  BY DisplacementIs
<1>3. CASE z = q
  <2>1. r[y] = new[y]
    BY <1>1, <1>3
  <2>2. Reach(r, N, y) = Reach(new, N, y)
    BY <2>1, OffSame
  <2>3. Off(r, N, z) = m
    BY <1>3
  <2>4. m > 0 => Used(new, y) /\ Off(new, N, y) >= m - 1
    BY <1>3
  <2> QED BY <1>2, <2>2, <2>3, <2>4 DEF Reach
<1>4. CASE z # q
  <2>1. r[z] = new[z]
    BY <1>4
  <2>2. Off(r, N, z) = Off(new, N, z) /\ Used(new, z)
    BY <2>1 DEF Off, Used
  <2>3. Off(new, N, z) <= Reach(new, N, y)
    BY <2>2 DEF Ordered
  <2>4. CASE y = q
    BY <1>2, <2>2, <2>3, <2>4 DEF Reach
  <2>5. CASE y # q
    <3>1. r[y] = new[y]
      BY <2>5
    <3>2. Reach(r, N, y) = Reach(new, N, y)
      BY <3>1, OffSame
    <3> QED BY <2>2, <2>3, <3>2
  <2> QED BY <2>4, <2>5
<1> QED BY <1>3, <1>4

LEMMA BeforeAfter ==
  ASSUME NEW N \in Nat \ {0}, NEW w \in 0..(N - 1), NEW m \in 1..(N - 1), NEW y \in 0..(N - 1),
         After(N, y, 1) = After(N, w, m)
  PROVE  y = After(N, w, m - 1)
BY DEF After

LEMMA GrowTable ==
  ASSUME NEW n \in Nat \ {0}, NEW t, NEW h, IsTable(t, n, h),
         NEW s \in 0..(n - 1), ~Used(t, s), NEW i \in 0..(n - 1),
         NEW new, GrowInv(new, t, n, h, s, i),
         NEW x \in 0..(n - 1), x = After(n, s, i), Used(t, x)
  PROVE  LET r == HashMoved(new, t[x])
         IN  \E q \in 0..(2 * n - 1) :
               /\ IsTable(r, 2 * n, h)
               /\ r[q] = t[x] /\ \A y \in 0..(2 * n - 1) : y # q => r[y] = new[y]
               /\ ~Used(new, q) /\ Used(r, q)
               /\ Off(r, 2 * n, q) < Pos(n, s, q) /\ Pos(n, s, q) <= i
               /\ Pos(n, s, q) - Off(r, 2 * n, q) = i - Off(t, n, x)
<1> DEFINE N == 2 * n
           e == t[x]
           r == HashMoved(new, e)
<1>0. N \in Nat \ {0} /\ N >= 2
  OBVIOUS
<1>1. /\ t \in [0..(n - 1) -> Slots] /\ Ordered(t, n) /\ KeysOnce(t, n) /\ HashesAre(t, n, h)
      /\ new \in [0..(N - 1) -> Slots] /\ Ordered(new, N) /\ KeysOnce(new, N) /\ HashesAre(new, N, h)
      /\ GrowFree(new, n, s, i) /\ GrowHomes(new, t, n, s, i) /\ GrowPairs(new, t, n, s, i)
  BY IsTableIs DEF GrowInv
<1>20. PICK m \in 0..(n - 1), w \in 0..(N - 1), q \in 0..(N - 1) :
           IsPlace(new, t, n, s, i, x, m, w, q)
  BY GrowPlace, Zenon
<1>2.      /\ w = e.hashValue % N /\ q = After(N, w, m)
           /\ r = [new EXCEPT ![q] = e]
           /\ ~Used(new, q)
           /\ m <= Off(t, n, x) /\ Off(t, n, x) < i
           /\ Pos(n, s, w) = i - Off(t, n, x)
           /\ \A j \in 0..(N - 1) : j < m => Used(new, After(N, w, j))
  BY <1>20 DEF IsPlace
<1>3. e \in Slots /\ e.key # NoKey /\ e.hashValue = h[e.key]
  BY <1>1 DEF Used, HashesAre
<1>4. r \in [0..(N - 1) -> Slots] /\ r[q] = e /\ \A y \in 0..(N - 1) : y # q => r[y] = new[y]
  BY <1>1, <1>2, <1>3, PutAt
<1>5. Used(r, q)
  BY <1>3, <1>4 DEF Used
<1>6. m \in 0..(N - 1)
  OBVIOUS
<1> HIDE DEF N, r
<1>7. Off(r, N, q) = m
  <2>1. Off(r, N, q) = Behind(N, q, w)
    BY <1>2, <1>4 DEF Off
  <2>2. Behind(N, q, w) = m
    BY <1>0, <1>2, <1>6, BehindAfter
  <2> QED BY <2>1, <2>2
<1>8. PICK d \in Nat : d = Off(t, n, x) /\ m <= d /\ d < i
  <2>1. Off(t, n, x) \in 0..(n - 1)
    BY <1>1, DisplacementIs
  <2> QED BY <1>2, <2>1
<1>9. Pos(n, s, q) = i - d + m
  <2>1. w \in 0..(2 * n - 1) /\ Pos(n, s, w) + m < n
    BY <1>2, <1>8 DEF N
  <2>2. Pos(n, s, After(2 * n, w, m)) = Pos(n, s, w) + m
    BY <2>1, PosAfter
  <2> QED BY <1>2, <1>8, <2>2 DEF N
<1>10. m > 0 => \A y \in 0..(N - 1) : After(N, y, 1) = q => Used(new, y) /\ Off(new, N, y) >= m - 1
  <2> SUFFICES ASSUME m > 0, NEW y \in 0..(N - 1), After(N, y, 1) = q
               PROVE  Used(new, y) /\ Off(new, N, y) >= m - 1
    OBVIOUS
  <2>1. m \in 1..(N - 1) /\ m - 1 \in 0..(N - 1) /\ m - 1 < m /\ m - 1 \in 0..(n - 1)
    BY DEF N
  <2>2. y = After(N, w, m - 1)
    BY <1>0, <1>2, <2>1, BeforeAfter
  <2>3. Used(new, y)
    BY <1>2, <2>1, <2>2
  <2>4. Pos(n, s, y) = i - d + (m - 1)
    <3>1. w \in 0..(2 * n - 1) /\ Pos(n, s, w) + (m - 1) < n
      BY <1>2, <1>8 DEF N
    <3>2. Pos(n, s, After(2 * n, w, m - 1)) = Pos(n, s, w) + (m - 1)
      BY <2>1, <3>1, PosAfter
    <3> QED BY <1>2, <1>8, <2>2, <3>2 DEF N
  <2>5. Pos(n, s, y) - Off(new, N, y) <= i - d
    BY <1>1, <1>8, <2>3 DEF GrowHomes, N
  <2>6. Off(new, N, y) \in 0..(N - 1)
    BY <1>0, <1>1, DisplacementIs
  <2> QED BY <1>8, <2>3, <2>4, <2>5, <2>6
<1>11. Ordered(r, N)
  BY <1>0, <1>1, <1>2, <1>4, <1>5, <1>6, <1>7, <1>10, GrowOrdered
<1>12. HashesAre(r, N, h)
  <2> SUFFICES ASSUME NEW y \in 0..(N - 1), Used(r, y) PROVE r[y].hashValue = h[r[y].key]
    BY DEF HashesAre
  <2>1. y = q \/ r[y] = new[y]
    BY <1>4
  <2> QED BY <1>1, <1>3, <1>4, <2>1 DEF HashesAre, Used
<1>13. ASSUME NEW y \in 0..(N - 1), Used(new, y) PROVE new[y].key # e.key
  <2>1. <<new[y].key, new[y].payload>> \in Pairs(new)
    BY <1>1, <1>13 DEF Pairs, Occupied
  <2>2. PICK j \in 0..(n - 1) : /\ j < i /\ Used(t, After(n, s, j))
                               /\ <<new[y].key, new[y].payload>>
                                    = <<t[After(n, s, j)].key, t[After(n, s, j)].payload>>
    BY <1>1, <2>1 DEF GrowPairs
  <2>3. PICK z \in 0..(n - 1) : z = After(n, s, j)
    BY AfterNext
  <2>4. z # x
    BY <2>2, <2>3 DEF After
  <2>5. new[y].key = t[z].key
    BY <2>2, <2>3
  <2> QED BY <1>1, <2>2, <2>3, <2>4, <2>5 DEF KeysOnce
<1>14. KeysOnce(r, N)
  <2> SUFFICES ASSUME NEW y \in 0..(N - 1), NEW z \in 0..(N - 1), Used(r, y), Used(r, z),
                      r[y].key = r[z].key, y # z
               PROVE  FALSE
    BY DEF KeysOnce
  <2>1. CASE y = q
    BY <1>4, <1>13, <2>1 DEF Used
  <2>2. CASE z = q
    BY <1>4, <1>13, <2>2 DEF Used
  <2>3. CASE y # q /\ z # q
    BY <1>1, <1>4, <2>3 DEF KeysOnce, Used
  <2> QED BY <2>1, <2>2, <2>3
<1>15. IsTable(r, N, h)
  BY <1>4, <1>11, <1>12, <1>14, IsTableIs
<1>16. m < i - d + m /\ i - d + m <= i /\ (i - d + m) - m = i - d
  BY <1>8
<1> QED BY <1>2, <1>4, <1>5, <1>7, <1>8, <1>9, <1>15, <1>16 DEF N, r

LEMMA GrowStep ==
  ASSUME NEW n \in Nat \ {0}, NEW t, NEW h, IsTable(t, n, h),
         NEW s \in 0..(n - 1), ~Used(t, s), NEW i \in 0..(n - 1),
         NEW new, GrowInv(new, t, n, h, s, i)
  PROVE  GrowInv(HashMoved(new, t[After(n, s, i)]), t, n, h, s, i + 1)
<1> DEFINE A(j) == After(n, s, j)
           N == 2 * n
<1>1. PICK x \in 0..(n - 1) : x = A(i)
  BY AfterNext
<1> DEFINE r == HashMoved(new, t[x])
<1>2. /\ IsTable(new, N, h) /\ GrowFree(new, n, s, i)
      /\ GrowHomes(new, t, n, s, i) /\ GrowPairs(new, t, n, s, i)
  BY DEF GrowInv
<1>3. t \in [0..(n - 1) -> Slots] /\ Ordered(t, n) /\ new \in [0..(N - 1) -> Slots]
  BY <1>2 DEF IsTable
<1>4. \A w \in 0..(N - 1) : Pos(n, s, w) \in 0..(n - 1)
  BY PosIn
<1>5. CASE ~Used(t, x)
  <2>1. r = new
    BY <1>5 DEF HashMoved, Used
  <2> HIDE DEF r
  <2>2. GrowFree(new, n, s, i + 1)
    <3> SUFFICES ASSUME NEW w \in 0..(N - 1), Pos(n, s, w) >= i + 1 PROVE ~Used(new, w)
      BY DEF GrowFree
    <3>1. Pos(n, s, w) >= i
      BY <1>4
    <3> QED BY <1>2, <3>1 DEF GrowFree
  <2>3. GrowHomes(new, t, n, s, i + 1)
    <3> SUFFICES ASSUME NEW w \in 0..(N - 1), Used(new, w)
                 PROVE  /\ Off(new, N, w) < Pos(n, s, w)
                        /\ \A j \in 0..(n - 1) : i + 1 <= j /\ Used(t, After(n, s, j)) =>
                             Pos(n, s, w) - Off(new, 2 * n, w) <= j - Off(t, n, After(n, s, j))
      BY DEF GrowHomes
    <3>1. \A j \in 0..(n - 1) : i + 1 <= j => i <= j
      OBVIOUS
    <3> QED BY <1>2, <3>1 DEF GrowHomes
  <2>4. GrowPairs(new, t, n, s, i + 1)
    <3>1. {y \in 0..(n - 1) : y < i + 1 /\ Used(t, A(y))} = {y \in 0..(n - 1) : y < i /\ Used(t, A(y))}
      <4>1. ~Used(t, A(i))
        BY <1>1, <1>5
      <4>2. \A y \in 0..(n - 1) : y < i + 1 <=> y < i \/ y = i
        OBVIOUS
      <4> HIDE DEF A
      <4> QED BY <4>1, <4>2
    <3> QED BY <1>2, <3>1 DEF GrowPairs
  <2> QED BY <1>1, <1>2, <2>1, <2>2, <2>3, <2>4 DEF GrowInv, r
<1>6. CASE Used(t, x)
  <2>1. PICK q \in 0..(N - 1) :
               /\ IsTable(r, N, h)
               /\ r[q] = t[x] /\ \A y \in 0..(N - 1) : y # q => r[y] = new[y]
               /\ ~Used(new, q) /\ Used(r, q)
               /\ Off(r, N, q) < Pos(n, s, q) /\ Pos(n, s, q) <= i
               /\ Pos(n, s, q) - Off(r, N, q) = i - Off(t, n, x)
    BY <1>1, <1>6, GrowTable
  <2> HIDE DEF r
  <2>2. GrowFree(r, n, s, i + 1)
    <3> SUFFICES ASSUME NEW w \in 0..(N - 1), Pos(n, s, w) >= i + 1 PROVE ~Used(r, w)
      BY DEF GrowFree
    <3>1. Pos(n, s, w) >= i /\ w # q
      BY <1>4, <2>1
    <3> QED BY <1>2, <2>1, <3>1 DEF GrowFree, Used
  <2>3. GrowHomes(r, t, n, s, i + 1)
    <3> SUFFICES ASSUME NEW w \in 0..(N - 1), Used(r, w)
                 PROVE  /\ Off(r, N, w) < Pos(n, s, w)
                        /\ \A j \in 0..(n - 1) : i + 1 <= j /\ Used(t, After(n, s, j)) =>
                             Pos(n, s, w) - Off(r, N, w) <= j - Off(t, n, After(n, s, j))
      BY DEF GrowHomes
    <3>1. \A j \in 0..(n - 1) : i + 1 <= j => i <= j
      OBVIOUS
    <3>2. CASE w = q
      <4>1. \A j \in 0..(n - 1) : i <= j /\ Used(t, A(j)) => i - Off(t, n, A(i)) <= j - Off(t, n, A(j))
        BY <1>1, <1>3, <1>6, HomesGrow
      <4> HIDE DEF A
      <4> QED BY <1>1, <2>1, <3>1, <3>2, <4>1 DEF A
    <3>3. CASE w # q
      <4>1. r[w] = new[w]
        BY <2>1, <3>3
      <4>2. Off(r, N, w) = Off(new, N, w) /\ Used(new, w)
        BY <4>1, OffSame
      <4> QED BY <1>2, <3>1, <4>2 DEF GrowHomes
    <3> QED BY <3>2, <3>3
  <2>4. GrowPairs(r, t, n, s, i + 1)
    <3> DEFINE S(k) == {y \in 0..(n - 1) : y < k /\ Used(t, A(y))}
               p(j) == <<t[A(j)].key, t[A(j)].payload>>
    <3>1. S(i + 1) = S(i) \cup {i}
      <4>1. Used(t, A(i))
        BY <1>1, <1>6
      <4>2. \A y \in 0..(n - 1) : y < i + 1 <=> y < i \/ y = i
        OBVIOUS
      <4> HIDE DEF A
      <4> QED BY <4>1, <4>2
    <3>2. Pairs(new) = {p(j) : j \in S(i)}
      BY <1>2 DEF GrowPairs
    <3>3. Pairs(r) = Pairs(new) \cup {p(i)}
      <4>1. DOMAIN r = 0..(N - 1) /\ DOMAIN new = 0..(N - 1)
        BY <1>3, <2>1 DEF IsTable
      <4>2. p(i) = <<r[q].key, r[q].payload>>
        BY <1>1, <2>1
      <4> HIDE DEF p
      <4>3. ASSUME NEW z \in Pairs(r) PROVE z \in Pairs(new) \cup {p(i)}
        <5>1. PICK y \in 0..(N - 1) : Used(r, y) /\ z = <<r[y].key, r[y].payload>>
          BY <4>1 DEF Pairs, Occupied
        <5>2. y # q => Used(new, y) /\ z = <<new[y].key, new[y].payload>>
          BY <2>1, <5>1 DEF Used
        <5> QED BY <4>1, <4>2, <5>1, <5>2 DEF Pairs, Occupied
      <4>4. ASSUME NEW z \in Pairs(new) PROVE z \in Pairs(r)
        <5>1. PICK y \in 0..(N - 1) : Used(new, y) /\ z = <<new[y].key, new[y].payload>>
          BY <4>1 DEF Pairs, Occupied
        <5>2. y # q
          BY <2>1, <5>1
        <5>3. Used(r, y) /\ z = <<r[y].key, r[y].payload>>
          BY <2>1, <5>1, <5>2 DEF Used
        <5> QED BY <4>1, <5>3 DEF Pairs, Occupied
      <4>5. p(i) \in Pairs(r)
        BY <2>1, <4>1, <4>2 DEF Pairs, Occupied
      <4> QED BY <4>3, <4>4, <4>5
    <3>4. Pairs(r) = {p(j) : j \in S(i + 1)}
      <4> HIDE DEF p, S
      <4> QED BY <3>1, <3>2, <3>3
    <3> QED BY <3>4 DEF GrowPairs
  <2> QED BY <1>1, <2>1, <2>2, <2>3, <2>4 DEF GrowInv, r
<1> QED BY <1>5, <1>6

LEMMA MovedTyped ==
  ASSUME NEW D, NEW new \in [D -> Slots], NEW e \in Slots
  PROVE  HashMoved(new, e) \in [D -> Slots]
BY DEF HashMoved

IsGrowRun(new, t, size) ==
  new = [i \in 0..Size(t) |-> IF i = 0 THEN EmptyTable(size)
                              ELSE HashMoved(new[i - 1], t[Around(t, NextFree(t, 0), i - 1)])]

LEMMA GrowChosen ==
  ASSUME NEW t, NEW size, \E new : IsGrowRun(new, t, size)
  PROVE  \E new : IsGrowRun(new, t, size) /\ xmlHashGrow(t, size) = new[Size(t)]
<1>1. xmlHashGrow(t, size) = (CHOOSE new : IsGrowRun(new, t, size))[Size(t)]
  BY Zenon DEF xmlHashGrow, IsGrowRun
<1>2. IsGrowRun(CHOOSE new : IsGrowRun(new, t, size), t, size)
  BY Zenon
<1> QED BY <1>1, <1>2

LEMMA GrowRunExists ==
  ASSUME NEW n \in Nat \ {0}, NEW t \in [0..(n - 1) -> Slots], NEW size \in Nat \ {0},
         NEW s \in 0..(n - 1), NextFree(t, 0) = s
  PROVE  \E new : IsGrowRun(new, t, size)
<1> DEFINE S == [0..(size - 1) -> Slots]
           e(i) == IF i \in 1..n THEN t[After(n, s, i - 1)] ELSE Free
           F == [p \in Nat \X S |-> HashMoved(p[2], e(p[1]))]
<1>1. \A i \in Nat, g \in S : F[<<i, g>>] = HashMoved(g, e(i))
  OBVIOUS
<1>2. EmptyTable(size) \in S /\ Free \in Slots
  BY PayloadsAssumption DEF EmptyTable, Free, Slots
<1>3. ASSUME NEW i \in Nat PROVE e(i) \in Slots
  <2>1. i \in 1..n => After(n, s, i - 1) \in 0..(n - 1)
    BY DEF After
  <2> QED BY <1>2, <2>1
<1> HIDE DEF e, F
<1>4. ASSUME NEW i \in Nat, NEW g \in S PROVE F[<<i + 1, g>>] \in S
  <2>1. PICK x \in Slots, j \in Nat : j = i + 1 /\ x = e(j)
    <3>1. i + 1 \in Nat
      OBVIOUS
    <3> QED BY <1>3, <3>1
  <2>2. HashMoved(g, x) \in S
    BY MovedTyped
  <2> HIDE DEF S
  <2> QED BY <1>1, <2>1, <2>2
<1> HIDE DEF S
<1>5. PICK f : IsDefined(f, S, EmptyTable(size), F)
  BY <1>2, <1>4, TypedRecursion
<1>6. /\ \A i \in Nat : f[i] \in S
      /\ \A i \in Nat : f[i] = IF i = 0 THEN EmptyTable(size) ELSE F[<<i, f[i - 1]>>]
  BY <1>5, Zenon DEF IsDefined
<1> DEFINE g == [i \in 0..n |-> f[i]]
<1>7. Size(t) = n
  BY SizeIs
<1>8. ASSUME NEW i \in 1..n
      PROVE  f[i] = HashMoved(f[i - 1], t[Around(t, s, i - 1)])
  <2>1. i - 1 \in Nat /\ i \in Nat /\ i # 0 /\ i - 1 \in 0..n
    OBVIOUS
  <2>2. f[i] = F[<<i, f[i - 1]>>] /\ f[i - 1] \in S
    BY <1>6, <2>1, Zenon
  <2>3. Around(t, s, i - 1) = After(n, s, i - 1)
    BY <2>1, AroundSlot
  <2>4. e(i) = t[Around(t, s, i - 1)]
    BY <2>3 DEF e
  <2> QED BY <1>1, <2>1, <2>2, <2>4
<1>9. g = [i \in 0..n |-> IF i = 0 THEN EmptyTable(size)
                          ELSE HashMoved(g[i - 1], t[Around(t, s, i - 1)])]
  <2> SUFFICES ASSUME NEW i \in 0..n
               PROVE  g[i] = IF i = 0 THEN EmptyTable(size)
                             ELSE HashMoved(g[i - 1], t[Around(t, s, i - 1)])
    OBVIOUS
  <2>1. CASE i = 0
    <3>1. g[0] = f[0] /\ 0 \in Nat
      OBVIOUS
    <3>2. f[0] = EmptyTable(size)
      BY <1>6, <3>1, Zenon
    <3> HIDE DEF g
    <3> QED BY <2>1, <3>1, <3>2
  <2>2. CASE i # 0
    <3>1. i \in 1..n /\ i - 1 \in 0..n
      BY <2>2
    <3>2. g[i] = f[i] /\ g[i - 1] = f[i - 1]
      BY <3>1
    <3> HIDE DEF g
    <3> QED BY <1>8, <2>2, <3>1, <3>2
  <2> QED BY <2>1, <2>2
<1> HIDE DEF g
<1>10. IsGrowRun(g, t, size)
  BY <1>7, <1>9, Zenon DEF IsGrowRun
<1> QED BY <1>10

(* xmlHashGrow: twice the slots for the same entries, and two more of them *)
(* are free.                                                               *)
LEMMA GrowIs ==
  ASSUME NEW n \in Nat \ {0}, NEW t, NEW h, IsTable(t, n, h),
         NEW free \in 0..(n - 1), ~Used(t, free)
  PROVE  LET r == xmlHashGrow(t, 2 * n)
         IN  /\ IsTable(r, 2 * n, h)
             /\ Pairs(r) = Pairs(t)
             /\ \E f, g \in 0..(2 * n - 1) : f # g /\ ~Used(r, f) /\ ~Used(r, g)
<1>1. t \in [0..(n - 1) -> Slots]
  BY DEF IsTable
<1>2. Size(t) = n
  BY <1>1, SizeIs
<1>3. PICK s \in 0..(n - 1) : NextFree(t, 0) = s /\ ~Used(t, s)
  <2>1. 0 \in 0..(n - 1) /\ After(n, 0, free) = free
    BY DEF After
  <2>2. PICK m \in 0..free : NextFree(t, 0) = After(n, 0, m) /\ ~Used(t, After(n, 0, m))
    BY <1>1, <2>1, NextFreeIs
  <2>3. After(n, 0, m) \in 0..(n - 1)
    BY DEF After
  <2> QED BY <2>2, <2>3
<1>4. PICK new : IsGrowRun(new, t, 2 * n) /\ xmlHashGrow(t, 2 * n) = new[n]
  <2>1. 2 * n \in Nat \ {0}
    OBVIOUS
  <2>2. \E new : IsGrowRun(new, t, 2 * n)
    BY <1>1, <1>3, <2>1, GrowRunExists
  <2> QED BY <1>2, <2>2, GrowChosen
<1>5. new[0] = EmptyTable(2 * n)
  <2>1. 0 \in 0..n
    OBVIOUS
  <2> QED BY <1>2, <1>4, <2>1, Zenon DEF IsGrowRun
<1>6. ASSUME NEW i \in 0..(n - 1) PROVE new[i + 1] = HashMoved(new[i], t[After(n, s, i)])
  <2>1. i + 1 \in 0..n /\ i + 1 # 0 /\ (i + 1) - 1 = i /\ i \in 0..n
    OBVIOUS
  <2>2. new[i + 1] = HashMoved(new[i], t[Around(t, s, i)])
    BY <1>2, <1>3, <1>4, <2>1 DEF IsGrowRun
  <2>3. Around(t, s, i) = After(n, s, i)
    BY <1>1, <2>1, AroundSlot
  <2> QED BY <2>2, <2>3
<1> DEFINE P == {i \in Nat : i <= n => GrowInv(new[i], t, n, h, s, i)}
<1>7. 0 \in P
  BY <1>5, GrowStarts
<1>8. ASSUME NEW i \in Nat, i \in P PROVE i + 1 \in P
  <2> SUFFICES ASSUME i + 1 <= n PROVE GrowInv(new[i + 1], t, n, h, s, i + 1)
    OBVIOUS
  <2>1. i \in 0..(n - 1) /\ GrowInv(new[i], t, n, h, s, i)
    BY <1>8
  <2> QED BY <1>3, <1>6, <2>1, GrowStep
<1> HIDE DEF P
<1>9. n \in P
  BY <1>7, <1>8, Induct
<1>10. PICK r : r = new[n] /\ GrowInv(r, t, n, h, s, n)
  BY <1>9 DEF P
<1>11. IsTable(r, 2 * n, h) /\ GrowHomes(r, t, n, s, n) /\ GrowPairs(r, t, n, s, n)
  BY <1>10 DEF GrowInv
<1>12. \A w \in 0..(2 * n - 1) : Off(r, 2 * n, w) \in 0..(2 * n - 1)
  <2>1. 2 * n \in Nat \ {0} /\ r \in [0..(2 * n - 1) -> Slots]
    BY <1>11 DEF IsTable
  <2> QED BY <2>1, DisplacementIs
<1>13. ASSUME NEW w \in 0..(2 * n - 1), Pos(n, s, w) = 0 PROVE ~Used(r, w)
  <2>1. ~(Off(r, 2 * n, w) < Pos(n, s, w))
    BY <1>12, <1>13
  <2> QED BY <1>11, <2>1 DEF GrowHomes
<1>14. s \in 0..(2 * n - 1) /\ s + n \in 0..(2 * n - 1) /\ s # s + n
  OBVIOUS
<1>15. ~Used(r, s) /\ ~Used(r, s + n)
  BY <1>13, <1>14, PosStart
<1>16. Pairs(r) = Pairs(t)
  <2> DEFINE p(i) == <<t[i].key, t[i].payload>>
             S == {x \in 0..(n - 1) : x < n /\ Used(t, After(n, s, x))}
  <2>1. Pairs(r) = {p(After(n, s, j)) : j \in S}
    BY <1>11 DEF GrowPairs
  <2>2. Occupied(t) = {i \in 0..(n - 1) : Used(t, i)}
    BY <1>1 DEF Occupied
  <2>3. ASSUME NEW z \in Pairs(t) PROVE z \in Pairs(r)
    <3>1. PICK i \in 0..(n - 1) : Used(t, i) /\ z = p(i)
      BY <2>2 DEF Pairs
    <3>2. PICK j \in 0..(n - 1) : After(n, s, j) = i
      BY AfterOnto
    <3>3. j \in S
      BY <3>1, <3>2
    <3> HIDE DEF S, p
    <3> QED BY <2>1, <3>1, <3>2, <3>3
  <2>4. ASSUME NEW z \in Pairs(r) PROVE z \in Pairs(t)
    <3>1. PICK j \in 0..(n - 1) : Used(t, After(n, s, j)) /\ z = p(After(n, s, j))
      BY <2>1
    <3>2. PICK i \in 0..(n - 1) : i = After(n, s, j)
      BY AfterNext
    <3> QED BY <2>2, <3>1, <3>2 DEF Pairs
  <2> QED BY <2>3, <2>4
<1> QED BY <1>4, <1>10, <1>11, <1>14, <1>15, <1>16

(* The first table.                                                        *)
LEMMA GrowNothing ==
  ASSUME NEW size
  PROVE  xmlHashGrow(NoTable, size) = EmptyTable(size)
<1>1. Size(NoTable) = 0
  <2>1. DOMAIN NoTable = {}
    BY DEF NoTable
  <2> QED BY <2>1, FS_EmptySet, Zenon DEF Size
<1>2. 0..0 = {0}
  OBVIOUS
<1> DEFINE g == [i \in {0} |-> EmptyTable(size)]
<1>3. IsGrowRun(g, NoTable, size)
  BY <1>1, <1>2 DEF IsGrowRun
<1>4. PICK new : IsGrowRun(new, NoTable, size) /\ xmlHashGrow(NoTable, size) = new[Size(NoTable)]
  BY <1>3, GrowChosen
<1>5. new[0] = EmptyTable(size)
  BY <1>1, <1>2, <1>4 DEF IsGrowRun
<1> QED BY <1>1, <1>4, <1>5

-----------------------------------------------------------------------------
(* How many entries a table has.                                           *)
HasRoom(t, n) == \E f \in 0..(n - 1) : ~Used(t, f)
HasRoomForMore(t, n) == \E f, g \in 0..(n - 1) : f # g /\ ~Used(t, f) /\ ~Used(t, g)

IsHash(t, h) ==
  t = NoTable \/ \E n \in Nat \ {0} : IsTable(t, n, h) /\ HasRoom(t, n)

LEMMA OccupiedIs ==
  ASSUME NEW n \in Nat \ {0}, NEW t \in [0..(n - 1) -> Slots]
  PROVE  /\ Occupied(t) = {i \in 0..(n - 1) : Used(t, i)}
         /\ IsFiniteSet(Occupied(t)) /\ Cardinality(Occupied(t)) \in Nat
<1>1. Occupied(t) = {i \in 0..(n - 1) : Used(t, i)}
  BY DEF Occupied
<1>2. IsFiniteSet(0..(n - 1))
  <2>1. 0 \in Int /\ n - 1 \in Int
    OBVIOUS
  <2> QED BY <2>1, FS_Interval
<1>3. IsFiniteSet(Occupied(t))
  <2>1. Occupied(t) \in SUBSET (0..(n - 1))
    BY <1>1
  <2> QED BY <1>2, <2>1, FS_Subset
<1>4. Cardinality(Occupied(t)) \in Nat
  BY <1>3, FS_CardinalityType
<1> QED BY <1>1, <1>3, <1>4

LEMMA KeysCounted ==
  ASSUME NEW n \in Nat \ {0}, NEW t, NEW h, IsTable(t, n, h)
  PROVE  Cardinality(KeysIn(t)) = Cardinality(Occupied(t))
<1> DEFINE O == Occupied(t)
           K == KeysIn(t)
           f == [i \in O |-> t[i].key]
<1>1. O = {i \in 0..(n - 1) : Used(t, i)} /\ IsFiniteSet(O)
  BY OccupiedIs DEF IsTable
<1>2. K = {t[i].key : i \in O}
  BY DEF KeysIn
<1> HIDE DEF O, K
<1>3. f \in Surjection(O, K)
  BY <1>2 DEF Surjection
<1>4. f \in Injection(O, K)
  <2>1. f \in [O -> K]
    BY <1>2
  <2>2. \A i, j \in O : t[i].key = t[j].key => i = j
    BY <1>1 DEF IsTable
  <2>3. \A i, j \in O : f[i] = f[j] => i = j
    BY <2>2
  <2> HIDE DEF f
  <2> QED BY <2>1, <2>3 DEF Injection, IsInjective
<1> HIDE DEF f
<1>5. Cardinality(K) = Cardinality(O)
  BY <1>1, <1>3, <1>4, FS_Surjection
<1> QED BY <1>5 DEF O, K

LEMMA KeysOfPairs ==
  ASSUME NEW t
  PROVE  KeysIn(t) = {z[1] : z \in Pairs(t)}
<1>1. ASSUME NEW k \in KeysIn(t) PROVE \E z \in Pairs(t) : k = z[1]
  <2>1. PICK i \in Occupied(t) : k = t[i].key
    BY DEF KeysIn
  <2> DEFINE z == <<t[i].key, t[i].payload>>
  <2>2. z \in Pairs(t) /\ k = z[1]
    BY <2>1 DEF Pairs
  <2> QED BY <2>2, Zenon
<1>2. ASSUME NEW z \in Pairs(t) PROVE z[1] \in KeysIn(t)
  <2>1. PICK i \in Occupied(t) : z = <<t[i].key, t[i].payload>>
    BY DEF Pairs
  <2> QED BY <2>1 DEF KeysIn
<1> QED BY <1>1, <1>2

LEMMA NothingCounted ==
  Size(NoTable) = 0 /\ Occupied(NoTable) = {} /\ Cardinality(Occupied(NoTable)) = 0
  /\ Pairs(NoTable) = {} /\ KeysIn(NoTable) = {}
<1>1. DOMAIN NoTable = {}
  BY DEF NoTable
<1>2. Cardinality({}) = 0
  BY FS_EmptySet
<1>3. Occupied(NoTable) = {}
  BY <1>1 DEF Occupied
<1> QED BY <1>1, <1>2, <1>3 DEF Size, Pairs, KeysIn

(* A table that is not too full has at least two free slots.               *)
LEMMA RoomBound ==
  ASSUME NEW S \in Nat, NEW c \in Nat, NEW a \in Nat \ {0}, NEW b \in Nat, a < b,
         ~(c + 1 > (S \div b) * a)
  PROVE  c + 2 <= S
<1> DEFINE q == S \div b
<1>1. q \in Nat /\ q * b <= S
  <2>1. b \in Nat \ {0}
    OBVIOUS
  <2>2. q \in Int /\ S % b \in 0..(b - 1) /\ S = q * b + (S % b)
    BY <2>1
  <2> HIDE DEF q
  <2>3. q >= 0
    <3> SUFFICES ASSUME q <= 0 - 1 PROVE FALSE
      BY <2>2
    <3>1. q * b <= (0 - 1) * b
      BY <2>1, <2>2
    <3> QED BY <2>2, <3>1
  <2> QED BY <2>2, <2>3
<1> HIDE DEF q
<1>2. c + 1 <= q * a
  <2>1. q * a \in Nat
    BY <1>1
  <2> QED BY <2>1 DEF q
<1>3. q >= 1
  <2> SUFFICES ASSUME q = 0 PROVE FALSE
    BY <1>1
  <2>1. q * a = 0
    OBVIOUS
  <2> QED BY <1>2, <2>1
<1>4. q * b = q * a + q * (b - a) /\ q * (b - a) >= q
  <2>1. q * b = q * a + q * (b - a)
    BY <1>1
  <2>2. b - a >= 1 /\ b - a \in Nat
    OBVIOUS
  <2>3. PICK x \in Nat : x = b - a /\ x >= 1
    BY <2>2
  <2>4. q * x >= q
    BY <1>1, <2>3
  <2> QED BY <2>1, <2>3, <2>4
<1>5. PICK u \in Int, v \in Int : u = q * a /\ v = q * (b - a)
  BY <1>1
<1> QED BY <1>1, <1>2, <1>3, <1>4, <1>5

LEMMA TwoFree ==
  ASSUME NEW n \in Nat \ {0}, NEW t \in [0..(n - 1) -> Slots], Cardinality(Occupied(t)) + 2 <= n
  PROVE  HasRoomForMore(t, n)
<1> DEFINE I == 0..(n - 1)
           O == Occupied(t)
<1>1. O = {i \in I : Used(t, i)} /\ IsFiniteSet(O) /\ Cardinality(O) \in Nat
  BY OccupiedIs
<1>2. IsFiniteSet(I) /\ Cardinality(I) = n
  <2>1. 0 \in Int /\ n - 1 \in Int /\ ~(0 > n - 1) /\ (n - 1) - 0 + 1 = n
    OBVIOUS
  <2> QED BY <2>1, FS_Interval
<1> SUFFICES ASSUME ~HasRoomForMore(t, n) PROVE FALSE
  OBVIOUS
<1> HIDE DEF O
<1>3. PICK f \in I : \A i \in I : ~Used(t, i) => i = f
  <2>1. CASE \A i \in I : Used(t, i)
    <3>1. 0 \in I
      OBVIOUS
    <3> QED BY <2>1, <3>1
  <2>2. CASE \E i \in I : ~Used(t, i)
    BY <2>2 DEF HasRoomForMore
  <2> QED BY <2>1, <2>2
<1>4. I \in SUBSET (O \cup {f})
  BY <1>1, <1>3
<1>5. IsFiniteSet(O \cup {f}) /\ Cardinality(O \cup {f}) <= Cardinality(O) + 1
  <2>1. IsFiniteSet(O \cup {f})
    BY <1>1, FS_AddElement
  <2>2. Cardinality(O \cup {f}) = IF f \in O THEN Cardinality(O) ELSE Cardinality(O) + 1
    BY <1>1, FS_AddElement
  <2> QED BY <1>1, <2>1, <2>2
<1>6. Cardinality(I) <= Cardinality(O \cup {f})
  BY <1>4, <1>5, FS_Subset
<1>7. Cardinality(O \cup {f}) \in Nat
  BY <1>5, FS_CardinalityType
<1> QED BY <1>1, <1>2, <1>5, <1>6, <1>7 DEF O

LEMMA MinSizeIs == MinSize \in Nat \ {0} /\ MinSize >= 2
<1>1. MinSize \in Nat \ {0} /\ MinSize % FillDenom = 0 /\ FillDenom \in Nat /\ FillDenom >= 2
  BY SizesAssumption
<1>2. MinSize # 1
  <2> SUFFICES ASSUME MinSize = 1 PROVE FALSE
    OBVIOUS
  <2>1. 1 \in 0..(FillDenom - 1) /\ FillDenom \in Nat \ {0}
    BY <1>1
  <2>2. 1 % FillDenom = 1
    BY <2>1, ModSmall
  <2> QED BY <1>1, <2>2
<1> QED BY <1>1, <1>2

(* What a search tells of a key.                                           *)
LEMMA NotFoundIs ==
  ASSUME NEW n \in Nat \ {0}, NEW t, NEW h, IsTable(t, n, h), NEW k \in Keys,
         ~HashFound(t, k, h[k])
  PROVE  \A i \in 0..(n - 1) : t[i].key # k
<1> SUFFICES ASSUME NEW i \in 0..(n - 1), t[i].key = k PROVE FALSE
  OBVIOUS
<1>1. Used(t, i)
  BY PayloadsAssumption DEF Used
<1>2. xmlHashFindEntry(t, k, h[k]) = i
  BY <1>1, FindPresent
<1>3. Size(t) > 0
  BY SizeIs DEF IsTable
<1> QED BY <1>2, <1>3 DEF HashFound

LEMMA FoundIs ==
  ASSUME NEW n \in Nat \ {0}, NEW t, NEW h, IsTable(t, n, h), HasRoom(t, n),
         NEW k \in Keys, h[k] \in Nat, HashFound(t, k, h[k])
  PROVE  LET e == xmlHashFindEntry(t, k, h[k])
         IN  e \in 0..(n - 1) /\ Used(t, e) /\ t[e].key = k
<1> DEFINE e == xmlHashFindEntry(t, k, h[k])
<1>1. t \in [0..(n - 1) -> Slots]
  BY DEF IsTable
<1>2. t[e].key = k
  BY Zenon DEF HashFound
<1> HIDE DEF e
<1>3. CASE \E i \in 0..(n - 1) : t[i].key = k
  <2>1. PICK i \in 0..(n - 1) : t[i].key = k
    BY <1>3
  <2>2. Used(t, i)
    BY <2>1, PayloadsAssumption DEF Used
  <2>3. e = i
    BY <2>1, <2>2, FindPresent DEF e
  <2> QED BY <2>1, <2>2, <2>3 DEF e
<1>4. CASE ~\E i \in 0..(n - 1) : t[i].key = k
  <2>1. PICK f \in 0..(n - 1) : ~Used(t, f)
    BY DEF HasRoom
  <2>2. PICK p \in 0..(n - 1) : e = After(n, h[k] % n, p)
    <3>1. \A i \in 0..(n - 1) : t[i].key # k
      BY <1>4
    <3> QED BY <1>1, <2>1, <3>1, FindAbsent DEF e
  <2>3. h[k] % n \in 0..(n - 1)
    <3>1. h[k] \in Int
      OBVIOUS
    <3> QED BY <3>1, ModIn, Zenon
  <2>4. e \in 0..(n - 1)
    BY <2>2, <2>3 DEF After
  <2> QED BY <1>2, <1>4, <2>4
<1> QED BY <1>3, <1>4

-----------------------------------------------------------------------------
(* xmlHashUpdateInternal and xmlHashCopySafe: a table that has grown if    *)
(* need be, for a key that is not in it.                                   *)
GrownFor(t, c) ==
  IF NewSize(t, c) > 0 THEN xmlHashGrow(t, NewSize(t, c)) ELSE t

IsGrown(g, t, n, h) ==
  /\ IsTable(g, n, h) /\ HasRoomForMore(g, n)
  /\ Pairs(g) = Pairs(t)
  /\ Cardinality(Occupied(g)) = Cardinality(Occupied(t))

LEMMA GrownIs ==
  ASSUME NEW t, NEW h, IsHash(t, h), NEW c, c = Cardinality(Occupied(t))
  PROVE  \E n \in Nat \ {0} : IsGrown(GrownFor(t, c), t, n, h)
<1>1. CASE t = NoTable
  <2>1. NewSize(t, c) = MinSize /\ MinSize > 0
    BY <1>1, NothingCounted, MinSizeIs DEF NewSize
  <2>2. GrownFor(t, c) = EmptyTable(MinSize)
    BY <1>1, <2>1, GrowNothing DEF GrownFor
  <2> DEFINE g == EmptyTable(MinSize)
  <2>3. /\ IsTable(g, MinSize, h) /\ Pairs(g) = {} /\ Occupied(g) = {}
        /\ \A i \in 0..(MinSize - 1) : ~Used(g, i)
    BY MinSizeIs, EmptyIs
  <2> HIDE DEF g
  <2>4. HasRoomForMore(g, MinSize)
    <3>1. 0 \in 0..(MinSize - 1) /\ 1 \in 0..(MinSize - 1) /\ 0 # 1
      BY MinSizeIs
    <3> QED BY <2>3, <3>1 DEF HasRoomForMore
  <2>5. IsGrown(g, t, MinSize, h)
    BY <1>1, <2>3, <2>4, NothingCounted DEF IsGrown
  <2> QED BY <2>2, <2>5, MinSizeIs DEF g
<1>2. CASE t # NoTable
  <2>1. PICK n \in Nat \ {0} : IsTable(t, n, h) /\ HasRoom(t, n)
    BY <1>2 DEF IsHash
  <2>2. t \in [0..(n - 1) -> Slots] /\ Size(t) = n /\ c \in Nat
    BY <2>1, SizeIs, OccupiedIs DEF IsTable
  <2>3. CASE TooFull(t, c)
    <3>1. NewSize(t, c) = 2 * n /\ NewSize(t, c) > 0
      BY <2>2, <2>3 DEF NewSize
    <3> DEFINE g == xmlHashGrow(t, 2 * n)
    <3>2. GrownFor(t, c) = g
      BY <3>1 DEF GrownFor
    <3>3. PICK f \in 0..(n - 1) : ~Used(t, f)
      BY <2>1 DEF HasRoom
    <3>4. /\ IsTable(g, 2 * n, h) /\ Pairs(g) = Pairs(t)
          /\ HasRoomForMore(g, 2 * n)
      BY <2>1, <3>3, GrowIs DEF HasRoomForMore
    <3> HIDE DEF g
    <3>5. 2 * n \in Nat \ {0}
      OBVIOUS
    <3>6. KeysIn(g) = KeysIn(t)
      BY <3>4, KeysOfPairs
    <3>7. Cardinality(Occupied(g)) = Cardinality(Occupied(t))
      BY <2>1, <3>4, <3>5, <3>6, KeysCounted
    <3>8. IsGrown(g, t, 2 * n, h)
      BY <3>4, <3>7 DEF IsGrown
    <3> QED BY <3>2, <3>5, <3>8
  <2>4. CASE ~TooFull(t, c)
    <3>1. GrownFor(t, c) = t
      <4>1. NewSize(t, c) = 0
        BY <2>2, <2>4 DEF NewSize
      <4> QED BY <4>1 DEF GrownFor
    <3>2. c + 2 <= n
      <4>1. ~(c + 1 > (n \div FillDenom) * FillNum)
        BY <2>2, <2>4 DEF TooFull
      <4>2. FillNum \in Nat \ {0} /\ FillDenom \in Nat /\ FillNum < FillDenom
        BY SizesAssumption
      <4> QED BY <2>2, <4>1, <4>2, RoomBound
    <3>3. HasRoomForMore(t, n)
      BY <2>2, <3>2, TwoFree
    <3>4. IsGrown(t, t, n, h)
      BY <2>1, <3>3 DEF IsGrown
    <3> QED BY <3>1, <3>4
  <2> QED BY <2>3, <2>4
<1> QED BY <1>1, <1>2

LEMMA HashKeys ==
  ASSUME NEW t, NEW h, IsHash(t, h), NEW k \in Keys, ~HashFound(t, k, h[k])
  PROVE  k \notin KeysIn(t)
<1>1. CASE t = NoTable
  BY <1>1, NothingCounted
<1>2. CASE t # NoTable
  <2>1. PICK n \in Nat \ {0} : IsTable(t, n, h)
    BY <1>2 DEF IsHash
  <2>2. \A i \in 0..(n - 1) : t[i].key # k
    BY <2>1, NotFoundIs
  <2>3. DOMAIN t = 0..(n - 1)
    BY <2>1 DEF IsTable
  <2> QED BY <2>2, <2>3 DEF KeysIn, Occupied
<1> QED BY <1>1, <1>2

LEMMA KeyNotIn ==
  ASSUME NEW n \in Nat \ {0}, NEW t, NEW h, IsTable(t, n, h), NEW k \in Keys, k \notin KeysIn(t)
  PROVE  \A i \in 0..(n - 1) : t[i].key # k
<1> SUFFICES ASSUME NEW i \in 0..(n - 1), t[i].key = k PROVE FALSE
  OBVIOUS
<1>1. DOMAIN t = 0..(n - 1)
  BY DEF IsTable
<1>2. i \in Occupied(t)
  BY <1>1, PayloadsAssumption DEF Occupied, Used
<1> QED BY <1>2 DEF KeysIn

(* The insertion of a key that is not in the table.                        *)
LEMMA PlacedIs ==
  ASSUME NEW t, NEW h, IsHash(t, h), NEW c, c = Cardinality(Occupied(t)),
         NEW k \in Keys, h[k] \in Nat, NEW v \in Payloads, k \notin KeysIn(t)
  PROVE  LET r == HashInserted(GrownFor(t, c), k, h[k], v)
         IN  /\ IsHash(r, h)
             /\ Gained(r, t, k, v)
             /\ Cardinality(Occupied(r)) = c + 1
<1> DEFINE g == GrownFor(t, c)
           r == HashInserted(g, k, h[k], v)
<1>1. PICK n \in Nat \ {0} : IsGrown(g, t, n, h)
  BY GrownIs
<1> HIDE DEF g
<1>2. /\ IsTable(g, n, h) /\ Pairs(g) = Pairs(t)
      /\ Cardinality(Occupied(g)) = c
  BY <1>1 DEF IsGrown
<1>3. PICK f1 \in 0..(n - 1), f2 \in 0..(n - 1) : f1 # f2 /\ ~Used(g, f1) /\ ~Used(g, f2)
  BY <1>1 DEF IsGrown, HasRoomForMore
<1>4. \A i \in 0..(n - 1) : g[i].key # k
  <2>1. k \notin KeysIn(g)
    BY <1>2, KeysOfPairs
  <2> QED BY <1>2, <2>1, KeyNotIn
<1>5. /\ IsTable(r, n, h) /\ Gained(r, g, k, v)
      /\ \E y \in 0..(n - 1) : ~Used(g, y) /\ Occupied(r) = Occupied(g) \cup {y}
  BY <1>2, <1>3, <1>4, InsertedIs
<1> HIDE DEF r
<1>6. PICK y \in 0..(n - 1) : ~Used(g, y) /\ Occupied(r) = Occupied(g) \cup {y}
  BY <1>5
<1>7. /\ IsFiniteSet(Occupied(g)) /\ Occupied(g) = {i \in 0..(n - 1) : Used(g, i)}
      /\ Occupied(r) = {i \in 0..(n - 1) : Used(r, i)}
  BY <1>2, <1>5, OccupiedIs DEF IsTable
<1>8. Cardinality(Occupied(r)) = c + 1
  <2>1. y \notin Occupied(g)
    BY <1>6, <1>7
  <2>2. Cardinality(Occupied(g) \cup {y}) = IF y \in Occupied(g) THEN Cardinality(Occupied(g))
                                           ELSE Cardinality(Occupied(g)) + 1
    BY <1>7, FS_AddElement
  <2> QED BY <1>2, <1>6, <2>1, <2>2
<1>9. HasRoom(r, n)
  <2>1. PICK f \in 0..(n - 1) : ~Used(g, f) /\ f # y
    BY <1>3
  <2>2. f \notin Occupied(r)
    BY <1>6, <1>7, <2>1
  <2>3. ~Used(r, f)
    BY <1>7, <2>2
  <2> QED BY <2>3 DEF HasRoom
<1>10. IsHash(r, h)
  BY <1>5, <1>9 DEF IsHash
<1>11. Gained(r, t, k, v)
  BY <1>2, <1>5 DEF Gained
<1> QED BY <1>8, <1>10, <1>11 DEF r, g

(* The update of a key that is in the table.                               *)
LEMMA UpdatedIs ==
  ASSUME NEW n \in Nat \ {0}, NEW t, NEW h, IsTable(t, n, h),
         NEW e \in 0..(n - 1), Used(t, e), NEW v \in Payloads
  PROVE  LET r == [t EXCEPT ![e].payload = v]
         IN  /\ IsTable(r, n, h)
             /\ \A i \in 0..(n - 1) : Used(r, i) <=> Used(t, i)
             /\ Occupied(r) = Occupied(t)
             /\ Pairs(r) = (Pairs(t) \ {<<t[e].key, t[e].payload>>}) \cup {<<t[e].key, v>>}
<1> DEFINE r == [t EXCEPT ![e].payload = v]
<1>1. t \in [0..(n - 1) -> Slots]
  BY DEF IsTable
<1>2. r \in [0..(n - 1) -> Slots]
  BY <1>1 DEF Slots
<1>3. \A i \in 0..(n - 1) : /\ r[i].key = t[i].key /\ r[i].hashValue = t[i].hashValue
                            /\ r[i].payload = IF i = e THEN v ELSE t[i].payload
  BY <1>1 DEF Slots
<1> HIDE DEF r
<1>4. \A i \in 0..(n - 1) : /\ Used(r, i) <=> Used(t, i)
                            /\ Off(r, n, i) = Off(t, n, i)
                            /\ Reach(r, n, i) = Reach(t, n, i)
  BY <1>3 DEF Used, Off, Reach
<1>5. Ordered(r, n)
  <2> SUFFICES ASSUME NEW i \in 0..(n - 1), Used(r, After(n, i, 1))
               PROVE  Off(r, n, After(n, i, 1)) <= Reach(r, n, i)
    BY DEF Ordered
  <2>1. PICK x \in 0..(n - 1) : x = After(n, i, 1)
    BY NextIn
  <2>2. Used(t, x) /\ Off(r, n, x) = Off(t, n, x) /\ Reach(r, n, i) = Reach(t, n, i)
    BY <1>4, <2>1
  <2> QED BY <2>1, <2>2 DEF IsTable, Ordered
<1>6. IsTable(r, n, h)
  BY <1>2, <1>3, <1>4, <1>5 DEF IsTable
<1>7. Occupied(t) = {i \in 0..(n - 1) : Used(t, i)} /\ Occupied(r) = {i \in 0..(n - 1) : Used(r, i)}
  BY <1>1, <1>2, OccupiedIs
<1>8. Occupied(r) = Occupied(t)
  BY <1>4, <1>7
<1> DEFINE R == (Pairs(t) \ {<<t[e].key, t[e].payload>>}) \cup {<<t[e].key, v>>}
<1>9. ASSUME NEW z \in Pairs(r) PROVE z \in R
  <2>1. PICK i \in 0..(n - 1) : Used(t, i) /\ z = <<r[i].key, r[i].payload>>
    BY <1>7, <1>8, <1>9 DEF Pairs
  <2>2. CASE i = e
    BY <1>3, <2>1, <2>2
  <2>3. CASE i # e
    <3>1. z = <<t[i].key, t[i].payload>> /\ z \in Pairs(t)
      BY <1>3, <1>7, <2>1, <2>3 DEF Pairs
    <3>2. t[i].key # t[e].key
      BY <2>1, <2>3 DEF IsTable
    <3> QED BY <3>1, <3>2
  <2> QED BY <2>2, <2>3
<1>10. ASSUME NEW z \in R PROVE z \in Pairs(r)
  <2>1. CASE z = <<t[e].key, v>>
    <3>1. z = <<r[e].key, r[e].payload>> /\ e \in Occupied(r)
      BY <1>3, <1>4, <1>7, <2>1
    <3> QED BY <3>1 DEF Pairs
  <2>2. CASE z \in Pairs(t) /\ z # <<t[e].key, t[e].payload>>
    <3>1. PICK i \in 0..(n - 1) : Used(t, i) /\ z = <<t[i].key, t[i].payload>>
      BY <1>7, <2>2 DEF Pairs
    <3>2. z = <<r[i].key, r[i].payload>> /\ i \in Occupied(r)
      BY <1>3, <1>7, <1>8, <2>2, <3>1
    <3> QED BY <3>2 DEF Pairs
  <2> QED BY <2>1, <2>2
<1>11. Pairs(r) = R
  BY <1>9, <1>10
<1> QED BY <1>4, <1>6, <1>8, <1>11 DEF r

(* xmlHashCreate.                                                          *)
LEMMA DoubledIs == \A j \in Nat : Doubled[j] \in Nat \ {0} /\ Doubled[j] >= j
<1> DEFINE F == [p \in Nat \X Nat |-> 2 * p[2]]
           S == Nat
<1>1. \A i \in Nat, g \in S : F[<<i, g>>] = 2 * g
  OBVIOUS
<1> HIDE DEF F
<1>2. \A i \in Nat, g \in S : F[<<i + 1, g>>] \in S
  BY <1>1
<1>3. PICK f : IsDefined(f, S, MinSize, F)
  BY <1>2, MinSizeIs, TypedRecursion
<1>4. \A i \in Nat : f[i] \in S
  BY <1>3, Zenon DEF IsDefined
<1>5. f = [j \in Nat |-> IF j = 0 THEN MinSize ELSE F[<<j, f[j - 1]>>]]
  BY <1>3, Zenon DEF IsDefined
<1>6. \A j \in Nat : f[j] = IF j = 0 THEN MinSize ELSE 2 * f[j - 1]
  <2> SUFFICES ASSUME NEW j \in Nat, j # 0 PROVE F[<<j, f[j - 1]>>] = 2 * f[j - 1]
    BY <1>5
  <2>1. j - 1 \in Nat
    OBVIOUS
  <2> QED BY <1>1, <1>4, <2>1
<1>7. f = [j \in Nat |-> IF j = 0 THEN MinSize ELSE 2 * f[j - 1]]
  BY <1>5, <1>6
<1> DEFINE Is(g) == g = [j \in Nat |-> IF j = 0 THEN MinSize ELSE 2 * g[j - 1]]
<1>8. Doubled = CHOOSE g : Is(g)
  BY Zenon DEF Doubled
<1>9. Is(Doubled)
  <2>1. \E g : Is(g)
    BY <1>7
  <2> HIDE DEF Is
  <2> QED BY <1>8, <2>1, Zenon
<1>10. \A j \in Nat : Doubled[j] = IF j = 0 THEN MinSize ELSE 2 * Doubled[j - 1]
  BY <1>9
<1> DEFINE P == {j \in Nat : Doubled[j] \in Nat \ {0} /\ Doubled[j] >= j}
<1>11. 0 \in P
  BY <1>10, MinSizeIs
<1>12. ASSUME NEW j \in Nat, j \in P PROVE j + 1 \in P
  <2>1. Doubled[j + 1] = 2 * Doubled[j]
    <3>1. j + 1 \in Nat /\ j + 1 # 0 /\ (j + 1) - 1 = j
      OBVIOUS
    <3> QED BY <1>10, <3>1
  <2>2. PICK d \in Nat \ {0} : d = Doubled[j] /\ d >= j
    BY <1>12
  <2>3. 2 * d \in Nat \ {0} /\ 2 * d >= j + 1
    BY <2>2
  <2> QED BY <2>1, <2>2, <2>3
<1> HIDE DEF P
<1>13. \A j \in Nat : j \in P
  BY <1>11, <1>12, Induct
<1> QED BY <1>13 DEF P

LEMMA CreatedIs ==
  ASSUME NEW c \in Nat, NEW h
  PROVE  /\ IsHash(Created(c), h)
         /\ Occupied(Created(c)) = {} /\ Pairs(Created(c)) = {} /\ KeysIn(Created(c)) = {}
<1>1. CASE c <= MinSize
  BY <1>1, NothingCounted DEF Created, IsHash
<1>2. CASE ~(c <= MinSize)
  <2> DEFINE S == {j \in 1..c : Doubled[j] >= c \/ Doubled[j] >= MaxSize}
             j == LeastOf(S)
             t == EmptyTable(Doubled[j])
  <2>1. Created(c) = t
    BY <1>2, Zenon DEF Created
  <2>2. c \in S /\ S \in SUBSET Nat
    <3>1. c \in 1..c
      BY <1>2, MinSizeIs
    <3> QED BY <3>1, DoubledIs
  <2> HIDE DEF S
  <2>3. j \in Nat
    BY <2>2, LeastOfIs
  <2> HIDE DEF j
  <2>4. PICK n \in Nat \ {0} : n = Doubled[j]
    BY <2>3, DoubledIs
  <2>5. /\ IsTable(t, n, h) /\ Pairs(t) = {} /\ Occupied(t) = {}
        /\ \A i \in 0..(n - 1) : ~Used(t, i)
    BY <2>4, EmptyIs
  <2> HIDE DEF t
  <2>6. HasRoom(t, n)
    <3>1. 0 \in 0..(n - 1)
      OBVIOUS
    <3> QED BY <2>5, <3>1 DEF HasRoom
  <2>7. KeysIn(t) = {}
    BY <2>5 DEF KeysIn
  <2> QED BY <2>1, <2>5, <2>6, <2>7 DEF IsHash
<1> QED BY <1>1, <1>2

-----------------------------------------------------------------------------
(* xmlHashScanFull: the keys it has yet to call for, from offset i after   *)
(* the start.                                                              *)
Remaining(t, n, start, i) ==
  {t[After(n, start, j)].key : j \in {x \in 0..(n - 1) : i <= x /\ Called(t, After(n, start, x))}}

LEMMA RemainingIs ==
  ASSUME NEW t, NEW n, NEW start, NEW i, NEW k
  PROVE  k \in Remaining(t, n, start, i) <=>
           \E j \in 0..(n - 1) : /\ i <= j /\ Called(t, After(n, start, j))
                                 /\ k = t[After(n, start, j)].key
BY DEF Remaining

(* The slot of offset i, when the scan gets there.                         *)
LEMMA RemainingNext ==
  ASSUME NEW n \in Nat \ {0}, NEW t, NEW h, IsTable(t, n, h), NEW start \in 0..(n - 1),
         NEW i \in 0..(n - 1), NEW x \in 0..(n - 1), x = After(n, start, i)
  PROVE  /\ ~Called(t, x) => Remaining(t, n, start, i) = Remaining(t, n, start, i + 1)
         /\ Called(t, x) =>
              /\ Remaining(t, n, start, i) = Remaining(t, n, start, i + 1) \cup {t[x].key}
              /\ t[x].key \notin Remaining(t, n, start, i + 1)
<1> DEFINE A(j) == After(n, start, j)
           R(k) == Remaining(t, n, start, k)
<1>1. \A j \in 0..(n - 1) : A(j) \in 0..(n - 1) /\ (i + 1 <= j => A(j) # x)
  BY DEF After
<1>2. \A j \in 0..(n - 1) : i <= j <=> j = i \/ i + 1 <= j
  OBVIOUS
<1>3. \A k : k \in R(i) <=> \E j \in 0..(n - 1) : i <= j /\ Called(t, A(j)) /\ k = t[A(j)].key
  BY DEF Remaining
<1>4. \A k : k \in R(i + 1) <=> \E j \in 0..(n - 1) : i + 1 <= j /\ Called(t, A(j)) /\ k = t[A(j)].key
  BY DEF Remaining
<1>5. A(i) = x
  OBVIOUS
<1> HIDE DEF A, R
<1>6. CASE ~Called(t, x)
  <2>1. \A k : k \in R(i) <=> k \in R(i + 1)
    BY <1>2, <1>3, <1>4, <1>5, <1>6
  <2>2. R(i) = R(i + 1)
    BY <2>1
  <2> QED BY <1>6, <2>2 DEF R
<1>7. CASE Called(t, x)
  <2>1. ASSUME NEW k PROVE k \in R(i) <=> k \in R(i + 1) \/ k = t[x].key
    BY <1>2, <1>3, <1>4, <1>5, <1>7
  <2>2. R(i) = R(i + 1) \cup {t[x].key}
    BY <2>1
  <2>3. t[x].key \notin R(i + 1)
    <3> SUFFICES ASSUME NEW j \in 0..(n - 1), i + 1 <= j, Called(t, A(j)), t[x].key = t[A(j)].key
                 PROVE  FALSE
      BY <1>4
    <3>1. A(j) \in 0..(n - 1) /\ A(j) # x
      BY <1>1
    <3>2. Used(t, A(j)) /\ Used(t, x)
      BY <1>7 DEF Called
    <3> QED BY <3>1, <3>2 DEF IsTable
  <2> QED BY <1>7, <2>2, <2>3 DEF R
<1> QED BY <1>6, <1>7

LEMMA AfterSum ==
  ASSUME NEW n \in Nat \ {0}, NEW a \in 0..(n - 1), NEW i \in 0..(n - 1), NEW x \in Nat, i + x <= n
  PROVE  After(n, After(n, a, i), x) = After(n, a, i + x)
BY DEF After

LEMMA AfterAll ==
  ASSUME NEW n \in Nat \ {0}, NEW a \in 0..(n - 1)
  PROVE  After(n, a, n) = a
BY DEF After

(* The callback removes the entry it is called for: no entry moves across  *)
(* the start of the scan.                                                  *)
LEMMA RemainingRemoved ==
  ASSUME NEW n \in Nat \ {0}, NEW t, NEW h, IsTable(t, n, h),
         NEW start \in 0..(n - 1), ~Used(t, start),
         NEW i \in 0..(n - 1), NEW e \in 0..(n - 1), e = After(n, start, i), Used(t, e)
  PROVE  LET r == Removed(t, e)
         IN  /\ ~Used(r, start)
             /\ Remaining(r, n, start, i) = Remaining(t, n, start, i) \ {t[e].key}
<1> DEFINE r == Removed(t, e)
           A(j) == After(n, start, j)
<1>1. PICK p \in 0..(n - 2) :
        /\ IsUnshift(r, t, n, e, p)
        /\ Used(t, After(n, e, p)) /\ Occupied(r) = Occupied(t) \ {After(n, e, p)}
        /\ \A j \in 0..p : Used(t, After(n, e, j))
  BY RemovedIs
<1>2. IsTable(r, n, h) /\ Lost(r, t, t[e].key, t[e].payload)
  BY RemovedIs
<1> HIDE DEF r
<1>3. i + p <= n - 1
  <2> SUFFICES ASSUME i + p >= n PROVE FALSE
    OBVIOUS
  <2>1. n - i \in 0..p /\ n - i \in Nat /\ i + (n - i) = n
    OBVIOUS
  <2>2. After(n, e, n - i) = After(n, start, n)
    BY <2>1, AfterSum
  <2>3. After(n, e, n - i) = start
    BY <2>2, AfterAll
  <2> QED BY <1>1, <2>1, <2>3
<1>4. ~Used(r, start)
  <2>1. start \notin Occupied(t)
    BY DEF Occupied
  <2>2. start \notin Occupied(r) /\ DOMAIN r = 0..(n - 1)
    BY <1>1, <1>2, <2>1 DEF IsTable
  <2> QED BY <2>2 DEF Occupied
<1>5. ASSUME NEW j \in 0..(n - 1), i <= j
      PROVE  /\ j < i + p => r[A(j)] = t[A(j + 1)]
             /\ j = i + p => r[A(j)] = Free
             /\ j > i + p => r[A(j)] = t[A(j)]
  <2>1. j - i \in 0..(n - 1) /\ i + (j - i) = j
    BY <1>5
  <2>2. A(j) = After(n, e, j - i)
    BY <2>1, AfterSum
  <2>3. j < i + p => A(j + 1) = After(n, e, (j - i) + 1)
    <3> SUFFICES ASSUME j < i + p PROVE A(j + 1) = After(n, e, (j - i) + 1)
      OBVIOUS
    <3>1. PICK x \in Nat : x = (j - i) + 1 /\ i + x <= n /\ i + x = j + 1
      BY <1>3, <2>1
    <3>2. After(n, After(n, start, i), x) = After(n, start, i + x)
      BY <3>1, AfterSum
    <3> QED BY <3>1, <3>2
  <2>4. /\ j - i < p => r[After(n, e, j - i)] = t[After(n, e, (j - i) + 1)]
        /\ j - i = p => r[After(n, e, j - i)] = Free
        /\ j - i > p => r[After(n, e, j - i)] = t[After(n, e, j - i)]
    BY <1>1, <2>1, UnshiftAt
  <2>5. (j < i + p <=> j - i < p) /\ (j = i + p <=> j - i = p) /\ (j > i + p <=> j - i > p)
    OBVIOUS
  <2> QED BY <2>2, <2>3, <2>4, <2>5
<1> HIDE DEF A
<1>6. \A x, y : r[x] = t[y] => (Called(r, x) <=> Called(t, y))
  BY DEF Called, Used
<1>7. ASSUME NEW k \in Remaining(r, n, start, i) PROVE k \in Remaining(t, n, start, i) /\ k # t[e].key
  <2>1. PICK j \in 0..(n - 1) : i <= j /\ Called(r, A(j)) /\ k = r[A(j)].key
    BY <1>7, RemainingIs DEF A
  <2>2. k # t[e].key
    <3>1. A(j) \in 0..(n - 1) /\ DOMAIN r = 0..(n - 1)
      BY <1>2 DEF A, After, IsTable
    <3> QED BY <1>2, <2>1, <3>1 DEF Lost, Called
  <2>3. PICK q \in 0..(n - 1) : i <= q /\ r[A(j)] = t[A(q)]
    <3>1. CASE j < i + p
      <4>1. j + 1 \in 0..(n - 1) /\ i <= j + 1
        BY <1>3, <2>1, <3>1
      <4> QED BY <1>5, <2>1, <3>1, <4>1
    <3>2. CASE j > i + p
      BY <1>5, <2>1, <3>2
    <3>3. j # i + p
      BY <1>5, <2>1 DEF Free, Called
    <3> QED BY <3>1, <3>2, <3>3
  <2>4. Called(t, A(q)) /\ k = t[A(q)].key
    BY <1>6, <2>1, <2>3
  <2> QED BY <2>2, <2>3, <2>4, RemainingIs DEF A
<1>8. ASSUME NEW k \in Remaining(t, n, start, i), k # t[e].key PROVE k \in Remaining(r, n, start, i)
  <2>1. PICK j \in 0..(n - 1) : i <= j /\ Called(t, A(j)) /\ k = t[A(j)].key
    BY <1>8, RemainingIs DEF A
  <2>2. j # i
    BY <1>8, <2>1 DEF A
  <2>3. PICK q \in 0..(n - 1) : i <= q /\ r[A(q)] = t[A(j)]
    <3>1. CASE j <= i + p
      <4>1. j - 1 \in 0..(n - 1) /\ i <= j - 1 /\ j - 1 < i + p /\ (j - 1) + 1 = j
        BY <2>1, <2>2, <3>1
      <4> QED BY <1>5, <4>1
    <3>2. CASE j > i + p
      BY <1>5, <2>1, <3>2
    <3> QED BY <3>1, <3>2
  <2>4. Called(r, A(q)) /\ k = r[A(q)].key
    BY <1>6, <2>1, <2>3
  <2> QED BY <2>3, <2>4, RemainingIs DEF A
<1>9. Remaining(r, n, start, i) = Remaining(t, n, start, i) \ {t[e].key}
  BY <1>7, <1>8
<1> QED BY <1>4, <1>9 DEF r

LEMMA VisitedNext ==
  ASSUME NEW s \in Seq(Keys), NEW k \in Keys
  PROVE  /\ Append(s, k) \in Seq(Keys)
         /\ ToSet(Append(s, k)) = ToSet(s) \cup {k}
         /\ IsInjective(s) /\ k \notin ToSet(s) => IsInjective(Append(s, k))
<1> DEFINE r == Append(s, k)
<1>1. /\ r \in Seq(Keys) /\ Len(r) = Len(s) + 1 /\ Len(s) \in Nat
      /\ \A i \in 1..Len(s) : r[i] = s[i]
      /\ r[Len(s) + 1] = k
  OBVIOUS
<1>2. DOMAIN r = 1..(Len(s) + 1) /\ DOMAIN s = 1..Len(s)
  OBVIOUS
<1> HIDE DEF r
<1>3. 1..(Len(s) + 1) = 1..Len(s) \cup {Len(s) + 1}
  BY <1>1
<1>4. ToSet(r) = ToSet(s) \cup {k}
  <2>1. \A x : x \in ToSet(r) <=> \E i \in 1..(Len(s) + 1) : x = r[i]
    BY <1>2 DEF ToSet
  <2>2. \A x : x \in ToSet(s) <=> \E i \in 1..Len(s) : x = s[i]
    BY <1>2 DEF ToSet
  <2> QED BY <1>1, <1>3, <2>1, <2>2
<1>5. ASSUME IsInjective(s), k \notin ToSet(s) PROVE IsInjective(r)
  <2>1. \A i \in 1..Len(s) : s[i] # k
    BY <1>2, <1>5 DEF ToSet
  <2>2. \A i, j \in 1..Len(s) : s[i] = s[j] => i = j
    BY <1>2, <1>5 DEF IsInjective
  <2> QED BY <1>1, <1>2, <1>3, <2>1, <2>2 DEF IsInjective
<1> QED BY <1>1, <1>4, <1>5 DEF r

LEMMA NoVisit == IsInjective(<<>>) /\ ToSet(<<>>) = {} /\ <<>> \in Seq(Keys)
BY DEF IsInjective, ToSet

-----------------------------------------------------------------------------
(* The inductive invariant of the hash table and its scan.                 *)
ScanDue(d, vis, R) == d = ToSet(vis) \cup R /\ R \cap ToSet(vis) = {}

ScanFrom(n, start) ==
  /\ IsTable(table, n, hash) /\ ~Used(table, start)
  /\ scan.i \in 0..n /\ scan.entry = After(n, start, scan.i)
  /\ ScanDue(due, visited, Remaining(table, n, start, scan.i))

RobinInv ==
  /\ hash \in [Keys -> HashValues]
  /\ IsHash(table, hash)
  /\ nbElems = Cardinality(Occupied(table))
  /\ scan \in [on : BOOLEAN, entry : Nat, i : Nat]
  /\ visited \in Seq(Keys) /\ IsInjective(visited)
  /\ ~scan.on => visited = <<>>
  /\ scan.on => \E n \in Nat \ {0} : \E start \in 0..(n - 1) : ScanFrom(n, start)

LEMMA HashNat ==
  ASSUME RobinInv, NEW k \in Keys
  PROVE  hash[k] \in Nat
BY SizesAssumption DEF RobinInv

LEMMA FoundHash ==
  ASSUME NEW t, NEW h, IsHash(t, h), NEW k \in Keys, h[k] \in Nat, HashFound(t, k, h[k])
  PROVE  LET e == xmlHashFindEntry(t, k, h[k])
         IN  \E n \in Nat \ {0} : /\ IsTable(t, n, h) /\ HasRoom(t, n)
                                  /\ e \in 0..(n - 1) /\ Used(t, e) /\ t[e].key = k
<1>1. t # NoTable
  BY NothingCounted DEF HashFound
<1>2. PICK n \in Nat \ {0} : IsTable(t, n, h) /\ HasRoom(t, n)
  BY <1>1 DEF IsHash
<1> QED BY <1>2, FoundIs

(* The removal of the entry at e.                                          *)
LEMMA RemovedHash ==
  ASSUME NEW n \in Nat \ {0}, NEW t, NEW h, IsTable(t, n, h), HasRoom(t, n),
         NEW e \in 0..(n - 1), Used(t, e)
  PROVE  LET r == Removed(t, e)
         IN  /\ IsTable(r, n, h) /\ HasRoom(r, n)
             /\ Lost(r, t, t[e].key, t[e].payload)
             /\ Cardinality(Occupied(r)) = Cardinality(Occupied(t)) - 1
<1> DEFINE r == Removed(t, e)
<1>1. PICK f \in 0..(n - 1) : ~Used(t, f)
  BY DEF HasRoom
<1>2. /\ IsTable(r, n, h) /\ Lost(r, t, t[e].key, t[e].payload)
      /\ \E p \in 0..(n - 2) :
           /\ Used(t, After(n, e, p)) /\ Occupied(r) = Occupied(t) \ {After(n, e, p)}
  BY <1>1, RemovedIs
<1> HIDE DEF r
<1>3. PICK p \in 0..(n - 2) : Used(t, After(n, e, p)) /\ Occupied(r) = Occupied(t) \ {After(n, e, p)}
  BY <1>2
<1>4. PICK c \in 0..(n - 1) : c = After(n, e, p)
  <2>1. p \in 0..n
    OBVIOUS
  <2> QED BY <2>1, AfterIn
<1>5. /\ Occupied(t) = {i \in 0..(n - 1) : Used(t, i)} /\ IsFiniteSet(Occupied(t))
      /\ Occupied(r) = {i \in 0..(n - 1) : Used(r, i)}
  BY <1>2, OccupiedIs DEF IsTable
<1>6. Cardinality(Occupied(r)) = Cardinality(Occupied(t)) - 1
  <2>1. c \in Occupied(t)
    BY <1>3, <1>4, <1>5
  <2>2. Cardinality(Occupied(t) \ {c}) = IF c \in Occupied(t) THEN Cardinality(Occupied(t)) - 1
                                         ELSE Cardinality(Occupied(t))
    BY <1>5, FS_RemoveElement
  <2> QED BY <1>3, <1>4, <2>1, <2>2
<1>7. HasRoom(r, n)
  <2>1. f \notin Occupied(r)
    BY <1>1, <1>3, <1>5
  <2> QED BY <1>1, <1>5, <2>1 DEF HasRoom
<1> QED BY <1>2, <1>6, <1>7 DEF r

LEMMA RobinInit == HashInit => RobinInv
<1> SUFFICES ASSUME HashInit PROVE RobinInv
  OBVIOUS
<1>1. PICK c \in CreateSizes : table = Created(c)
  BY DEF HashInit
<1>2. c \in Nat
  BY SizesAssumption
<1>3. IsHash(table, hash) /\ Occupied(table) = {}
  BY <1>1, <1>2, CreatedIs
<1>4. nbElems = Cardinality(Occupied(table))
  BY <1>3, FS_EmptySet DEF HashInit
<1>5. scan \in [on : BOOLEAN, entry : Nat, i : Nat] /\ ~scan.on
  BY DEF HashInit, NoScan
<1>6. visited = <<>> /\ visited \in Seq(Keys) /\ IsInjective(visited)
  BY NoVisit DEF HashInit
<1>7. hash \in [Keys -> HashValues]
  BY DEF HashInit
<1> QED BY <1>3, <1>4, <1>5, <1>6, <1>7 DEF RobinInv

(* A step between scans.                                                   *)
LEMMA RobinIdle ==
  ASSUME RobinInv, HashIdle, UNCHANGED <<hash, scan, visited, due>>,
         IsHash(table', hash), nbElems' = Cardinality(Occupied(table'))
  PROVE  RobinInv'
BY DEF RobinInv, HashIdle

LEMMA RobinUpdateFound ==
  ASSUME RobinInv, NEW k \in Keys, NEW v \in Payloads, NEW update \in BOOLEAN,
         UpdateFound(k, v, update)
  PROVE  RobinInv'
<1> DEFINE e == xmlHashFindEntry(table, k, hash[k])
<1>1. /\ HashIdle /\ UNCHANGED <<hash, scan, visited, due>> /\ nbElems' = nbElems
      /\ HashFound(table, k, hash[k])
      /\ table' = IF update THEN [table EXCEPT ![e].payload = v] ELSE table
  BY DEF UpdateFound
<1>2. IsHash(table, hash) /\ nbElems = Cardinality(Occupied(table))
  BY DEF RobinInv
<1>3. PICK n \in Nat \ {0} : /\ IsTable(table, n, hash) /\ HasRoom(table, n)
                             /\ e \in 0..(n - 1) /\ Used(table, e)
  BY <1>1, <1>2, HashNat, FoundHash
<1>4. CASE ~update
  BY <1>1, <1>2, <1>4, RobinIdle
<1>5. CASE update
  <2>1. /\ IsTable(table', n, hash) /\ Occupied(table') = Occupied(table)
        /\ \A i \in 0..(n - 1) : Used(table', i) <=> Used(table, i)
    <3>1. table' = [table EXCEPT ![e].payload = v]
      BY <1>1, <1>5
    <3> HIDE DEF e
    <3> QED BY <1>3, <3>1, UpdatedIs
  <2>2. HasRoom(table', n)
    BY <1>3, <2>1 DEF HasRoom
  <2>3. IsHash(table', hash)
    BY <2>1, <2>2 DEF IsHash
  <2> QED BY <1>1, <1>2, <2>1, <2>3, RobinIdle
<1> QED BY <1>4, <1>5

LEMMA RobinUpdateInsert ==
  ASSUME RobinInv, NEW k \in Keys, NEW v \in Payloads, NEW copied \in BOOLEAN,
         UpdateInsert(k, v, copied)
  PROVE  RobinInv'
<1> DEFINE g == GrownFor(table, nbElems)
<1>1. /\ HashIdle /\ UNCHANGED <<hash, scan, visited, due>>
      /\ ~HashFound(table, k, hash[k])
      /\ table' = IF copied THEN HashInserted(g, k, hash[k], v) ELSE g
      /\ nbElems' = IF copied THEN nbElems + 1 ELSE nbElems
  BY DEF UpdateInsert, GrownFor
<1>2. IsHash(table, hash) /\ nbElems = Cardinality(Occupied(table))
  BY DEF RobinInv
<1>3. k \notin KeysIn(table) /\ hash[k] \in Nat
  BY <1>1, <1>2, HashKeys, HashNat
<1>4. CASE copied
  <2>1. IsHash(table', hash) /\ Cardinality(Occupied(table')) = nbElems + 1
    BY <1>1, <1>2, <1>3, <1>4, PlacedIs
  <2> QED BY <1>1, <1>4, <2>1, RobinIdle
<1>5. CASE ~copied
  <2>1. PICK n \in Nat \ {0} : IsGrown(g, table, n, hash)
    BY <1>2, GrownIs
  <2>2. table' = g
    BY <1>1, <1>5
  <2> HIDE DEF g
  <2>3. IsTable(g, n, hash) /\ HasRoom(g, n) /\ Cardinality(Occupied(g)) = nbElems
    BY <1>2, <2>1 DEF IsGrown, HasRoomForMore, HasRoom
  <2>4. IsHash(table', hash)
    BY <2>2, <2>3 DEF IsHash
  <2> QED BY <1>1, <1>5, <2>2, <2>3, <2>4, RobinIdle
<1> QED BY <1>4, <1>5

LEMMA RobinRemove ==
  ASSUME RobinInv, NEW k \in Keys, xmlHashRemoveEntry3(k)
  PROVE  RobinInv'
<1> DEFINE e == xmlHashFindEntry(table, k, hash[k])
<1>1. /\ HashIdle /\ UNCHANGED <<hash, scan, visited, due>> /\ nbElems' = nbElems - 1
      /\ HashFound(table, k, hash[k]) /\ table' = Removed(table, e)
  BY DEF xmlHashRemoveEntry3
<1>2. IsHash(table, hash) /\ nbElems = Cardinality(Occupied(table))
  BY DEF RobinInv
<1>3. PICK n \in Nat \ {0} : /\ IsTable(table, n, hash) /\ HasRoom(table, n)
                             /\ e \in 0..(n - 1) /\ Used(table, e)
  BY <1>1, <1>2, HashNat, FoundHash
<1>4. /\ IsTable(table', n, hash) /\ HasRoom(table', n)
      /\ Cardinality(Occupied(table')) = nbElems - 1
  BY <1>1, <1>2, <1>3, RemovedHash
<1>5. IsHash(table', hash)
  BY <1>4 DEF IsHash
<1> QED BY <1>1, <1>4, <1>5, RobinIdle

LEMMA RobinFree ==
  ASSUME RobinInv, xmlHashFree
  PROVE  RobinInv'
<1>1. /\ HashIdle /\ UNCHANGED <<hash, scan, visited, due>> /\ nbElems' = 0 /\ table' = NoTable
  BY DEF xmlHashFree
<1>2. IsHash(table', hash) /\ nbElems' = Cardinality(Occupied(table'))
  BY <1>1, NothingCounted DEF IsHash
<1> QED BY <1>1, <1>2, RobinIdle

(* A step of a scan.                                                       *)
LEMMA RobinScan ==
  ASSUME RobinInv, hash' = hash, NEW n \in Nat \ {0}, NEW start \in 0..(n - 1),
         IsTable(table', n, hash), ~Used(table', start),
         nbElems' = Cardinality(Occupied(table')),
         scan' \in [on : BOOLEAN, entry : Nat, i : Nat], scan'.on,
         scan'.i \in 0..n, scan'.entry = After(n, start, scan'.i),
         visited' \in Seq(Keys), IsInjective(visited'),
         ScanDue(due', visited', Remaining(table', n, start, scan'.i))
  PROVE  RobinInv'
<1>1. ScanFrom(n, start)'
  BY DEF ScanFrom
<1>2. IsHash(table', hash')
  BY DEF IsHash, HasRoom
<1>3. hash' \in [Keys -> HashValues]
  BY DEF RobinInv
<1> HIDE DEF ScanFrom
<1> QED BY <1>1, <1>2, <1>3 DEF RobinInv

LEMMA RobinScanStart ==
  ASSUME RobinInv, ScanStart
  PROVE  RobinInv'
<1>1. /\ HashIdle /\ Size(table) > 0 /\ UNCHANGED <<hash, table, nbElems>>
      /\ scan' = [on |-> TRUE, entry |-> NextFree(table, 0), i |-> 0]
      /\ visited' = <<>>
      /\ due' = {table[i].key : i \in {j \in DOMAIN table : Called(table, j)}}
  BY DEF ScanStart
<1>2. IsHash(table, hash) /\ nbElems = Cardinality(Occupied(table))
  BY DEF RobinInv
<1>3. PICK n \in Nat \ {0} : IsTable(table, n, hash) /\ HasRoom(table, n)
  BY <1>1, <1>2, NothingCounted DEF IsHash
<1>4. PICK start \in 0..(n - 1) : NextFree(table, 0) = start /\ ~Used(table, start)
  <2>1. PICK f \in 0..(n - 1) : ~Used(table, f)
    BY <1>3 DEF HasRoom
  <2>2. 0 \in 0..(n - 1) /\ After(n, 0, f) = f
    BY DEF After
  <2>3. PICK m \in 0..f : NextFree(table, 0) = After(n, 0, m) /\ ~Used(table, After(n, 0, m))
    BY <1>3, <2>1, <2>2, NextFreeIs DEF IsTable
  <2>4. After(n, 0, m) \in 0..(n - 1)
    BY DEF After
  <2> QED BY <2>3, <2>4
<1>5. due' = Remaining(table, n, start, 0)
  <2>1. ASSUME NEW k PROVE k \in due' <=> k \in Remaining(table, n, start, 0)
    <3>1. k \in due' <=> \E i \in 0..(n - 1) : Called(table, i) /\ k = table[i].key
      BY <1>1, <1>3 DEF IsTable
    <3>2. k \in Remaining(table, n, start, 0) <=>
            \E j \in 0..(n - 1) : /\ 0 <= j /\ Called(table, After(n, start, j))
                                  /\ k = table[After(n, start, j)].key
      BY RemainingIs
    <3>3. \A j \in 0..(n - 1) : 0 <= j /\ After(n, start, j) \in 0..(n - 1)
      BY AfterNext
    <3>4. \A i \in 0..(n - 1) : \E j \in 0..(n - 1) : After(n, start, j) = i
      BY AfterOnto
    <3> QED BY <3>1, <3>2, <3>3, <3>4
  <2> QED BY <2>1
<1>6. ScanDue(due', visited', Remaining(table', n, start, scan'.i))
  BY <1>1, <1>5, NoVisit DEF ScanDue
<1>7. /\ scan' \in [on : BOOLEAN, entry : Nat, i : Nat] /\ scan'.on
      /\ scan'.i = 0 /\ scan'.entry = start
  BY <1>1, <1>4
<1>8. scan'.i \in 0..n /\ scan'.entry = After(n, start, scan'.i)
  BY <1>7, AfterZero
<1>9. visited' \in Seq(Keys) /\ IsInjective(visited')
  BY <1>1, NoVisit
<1>10. /\ IsTable(table', n, hash) /\ ~Used(table', start) /\ hash' = hash
       /\ nbElems' = Cardinality(Occupied(table'))
  BY <1>1, <1>2, <1>3, <1>4
<1> QED BY <1>6, <1>7, <1>8, <1>9, <1>10, RobinScan

LEMMA ScanEntry ==
  ASSUME RobinInv, NEW n \in Nat \ {0}, NEW start \in 0..(n - 1), ScanFrom(n, start),
         scan.i < Size(table)
  PROVE  /\ scan.i \in 0..(n - 1) /\ scan.entry \in 0..(n - 1)
         /\ scan.entry = After(n, start, scan.i)
<1>1. Size(table) = n
  BY SizeIs DEF ScanFrom, IsTable
<1>2. scan.i \in 0..(n - 1)
  BY <1>1 DEF ScanFrom
<1>3. scan.entry = After(n, start, scan.i)
  BY DEF ScanFrom
<1>4. After(n, start, scan.i) \in 0..(n - 1)
  BY <1>2, AfterNext
<1> QED BY <1>2, <1>3, <1>4

LEMMA AdvancedIs ==
  ASSUME RobinInv, NEW n \in Nat \ {0}, NEW start \in 0..(n - 1), ScanFrom(n, start),
         scan.on, scan.i < Size(table), scan' = Advanced
  PROVE  /\ scan' \in [on : BOOLEAN, entry : Nat, i : Nat] /\ scan'.on
         /\ scan'.i = scan.i + 1 /\ scan'.i \in 0..n
         /\ scan'.entry = After(n, start, scan'.i)
<1>1. /\ scan.i \in 0..(n - 1) /\ scan.entry \in 0..(n - 1)
      /\ scan.entry = After(n, start, scan.i)
  BY ScanEntry
<1>2. scan \in [on : BOOLEAN, entry : Nat, i : Nat]
  BY DEF RobinInv
<1>3. Around(table, scan.entry, 1) = After(n, scan.entry, 1)
  <2>1. 1 \in 0..n /\ DOMAIN table = 0..(n - 1)
    BY DEF ScanFrom, IsTable
  <2> QED BY <1>1, <2>1, AroundSlot
<1>4. After(n, scan.entry, 1) = After(n, start, scan.i + 1)
  <2>1. 1 \in Nat /\ scan.i + 1 <= n
    BY <1>1
  <2> QED BY <1>1, <2>1, AfterSum
<1>5. After(n, start, scan.i + 1) \in 0..(n - 1)
  <2>1. scan.i + 1 \in 0..n
    BY <1>1
  <2> QED BY <2>1, AfterIn
<1>6. scan' = [scan EXCEPT !.entry = After(n, start, scan.i + 1), !.i = scan.i + 1]
  BY <1>3, <1>4 DEF Advanced
<1>7. PICK x \in Nat, j \in Nat : /\ x = After(n, start, scan.i + 1) /\ j = scan.i + 1
                                  /\ j \in 0..n
  BY <1>1, <1>5
<1>8. /\ scan' \in [on : BOOLEAN, entry : Nat, i : Nat] /\ scan'.on = scan.on
      /\ scan'.i = j /\ scan'.entry = x
  BY <1>2, <1>6, <1>7
<1> QED BY <1>7, <1>8

LEMMA RobinScanSkip ==
  ASSUME RobinInv, ScanSkip
  PROVE  RobinInv'
<1>1. /\ scan.on /\ scan.i < Size(table) /\ ~Called(table, scan.entry)
      /\ scan' = Advanced /\ UNCHANGED <<hash, table, nbElems, visited, due>>
  BY DEF ScanSkip
<1>20. PICK n \in Nat \ {0} : \E start \in 0..(n - 1) : ScanFrom(n, start)
  BY <1>1 DEF RobinInv
<1>2. PICK start \in 0..(n - 1) : ScanFrom(n, start)
  BY <1>20
<1>3. /\ IsTable(table, n, hash) /\ ~Used(table, start)
      /\ ScanDue(due, visited, Remaining(table, n, start, scan.i))
  BY <1>2 DEF ScanFrom
<1>4. /\ scan.i \in 0..(n - 1) /\ scan.entry \in 0..(n - 1)
      /\ scan.entry = After(n, start, scan.i)
  BY <1>1, <1>2, ScanEntry
<1>5. /\ scan' \in [on : BOOLEAN, entry : Nat, i : Nat] /\ scan'.on
      /\ scan'.i = scan.i + 1 /\ scan'.i \in 0..n
      /\ scan'.entry = After(n, start, scan'.i)
  BY <1>1, <1>2, AdvancedIs
<1>6. Remaining(table, n, start, scan.i) = Remaining(table, n, start, scan.i + 1)
  BY <1>1, <1>3, <1>4, RemainingNext
<1>7. ScanDue(due', visited', Remaining(table', n, start, scan'.i))
  BY <1>1, <1>3, <1>5, <1>6
<1>8. /\ visited' \in Seq(Keys) /\ IsInjective(visited')
      /\ nbElems' = Cardinality(Occupied(table'))
      /\ IsTable(table', n, hash) /\ ~Used(table', start) /\ hash' = hash
  BY <1>1, <1>3 DEF RobinInv
<1> QED BY <1>5, <1>7, <1>8, RobinScan

(* The scan calls for the entry; what remains is what remained without it. *)
LEMMA DueNext ==
  ASSUME NEW d, NEW vis \in Seq(Keys), IsInjective(vis), NEW R, NEW Q, NEW k \in Keys,
         ScanDue(d, vis, R), R = Q \cup {k}, k \notin Q
  PROVE  /\ ScanDue(d, Append(vis, k), Q)
         /\ Append(vis, k) \in Seq(Keys) /\ IsInjective(Append(vis, k))
<1>1. d = ToSet(vis) \cup R /\ R \cap ToSet(vis) = {}
  BY DEF ScanDue
<1>2. k \notin ToSet(vis)
  BY <1>1
<1>3. /\ Append(vis, k) \in Seq(Keys) /\ IsInjective(Append(vis, k))
      /\ ToSet(Append(vis, k)) = ToSet(vis) \cup {k}
  BY <1>2, VisitedNext
<1>4. d = ToSet(Append(vis, k)) \cup Q /\ Q \cap ToSet(Append(vis, k)) = {}
  BY <1>1, <1>3
<1> QED BY <1>3, <1>4 DEF ScanDue

LEMMA RobinScanCall ==
  ASSUME RobinInv, NEW remove \in BOOLEAN, ScanCall(remove)
  PROVE  RobinInv'
<1> DEFINE e == scan.entry
           k == table[e].key
<1>1. /\ scan.on /\ scan.i < Size(table) /\ Called(table, e)
      /\ visited' = Append(visited, k)
      /\ table' = IF remove THEN Removed(table, xmlHashFindEntry(table, k, hash[k])) ELSE table
      /\ nbElems' = IF remove THEN nbElems - 1 ELSE nbElems
      /\ scan' = IF Called(table', e) /\ table'[e].key # k THEN scan ELSE Advanced
      /\ UNCHANGED <<hash, due>>
  BY DEF ScanCall
<1>20. PICK n \in Nat \ {0} : \E start \in 0..(n - 1) : ScanFrom(n, start)
  BY <1>1 DEF RobinInv
<1>2. PICK start \in 0..(n - 1) : ScanFrom(n, start)
  BY <1>20
<1> DEFINE R(i) == Remaining(table, n, start, i)
<1>3. /\ IsTable(table, n, hash) /\ ~Used(table, start)
      /\ ScanDue(due, visited, R(scan.i))
  BY <1>2 DEF ScanFrom
<1>4. /\ scan.i \in 0..(n - 1) /\ e \in 0..(n - 1)
      /\ e = After(n, start, scan.i)
  BY <1>1, <1>2, ScanEntry
<1>5. /\ R(scan.i) = R(scan.i + 1) \cup {k}
      /\ k \notin R(scan.i + 1)
  BY <1>1, <1>3, <1>4, RemainingNext
<1>6. Used(table, e) /\ k \in Keys
  <2>1. Used(table, e) /\ table[e] \in Slots
    BY <1>1, <1>3, <1>4 DEF Called, IsTable
  <2> QED BY <2>1 DEF Slots, Used
<1>7. visited \in Seq(Keys) /\ IsInjective(visited) /\ nbElems = Cardinality(Occupied(table))
  BY DEF RobinInv
<1> HIDE DEF R
<1>8. /\ ScanDue(due', visited', R(scan.i + 1))
      /\ visited' \in Seq(Keys) /\ IsInjective(visited')
  BY <1>1, <1>3, <1>5, <1>6, <1>7, DueNext
<1>9. CASE ~remove
  <2>1. table' = table /\ scan' = Advanced /\ nbElems' = nbElems
    BY <1>1, <1>9
  <2>2. /\ scan' \in [on : BOOLEAN, entry : Nat, i : Nat] /\ scan'.on
        /\ scan'.i = scan.i + 1 /\ scan'.i \in 0..n
        /\ scan'.entry = After(n, start, scan'.i)
    BY <1>1, <1>2, <2>1, AdvancedIs
  <2>3. ScanDue(due', visited', Remaining(table', n, start, scan'.i))
    BY <1>8, <2>1, <2>2 DEF R
  <2>4. /\ nbElems' = Cardinality(Occupied(table'))
        /\ IsTable(table', n, hash) /\ ~Used(table', start) /\ hash' = hash
    BY <1>1, <1>3, <1>7, <2>1
  <2> QED BY <1>8, <2>2, <2>3, <2>4, RobinScan
<1>10. CASE remove
  <2>1. table' = Removed(table, e)
    <3>1. xmlHashFindEntry(table, k, hash[k]) = e
      BY <1>3, <1>4, <1>6, FindPresent
    <3> QED BY <1>1, <1>10, <3>1
  <2>2. /\ ~Used(table', start)
        /\ Remaining(table', n, start, scan.i) = R(scan.i) \ {k}
    BY <1>3, <1>4, <1>6, <2>1, RemainingRemoved DEF R
  <2>3. HasRoom(table, n)
    BY <1>3 DEF HasRoom
  <2>4. /\ IsTable(table', n, hash) /\ Lost(table', table, k, table[e].payload)
        /\ Cardinality(Occupied(table')) = nbElems - 1
    BY <1>3, <1>4, <1>6, <1>7, <2>1, <2>3, RemovedHash
  <2>5. Remaining(table', n, start, scan.i) = R(scan.i + 1)
    BY <1>5, <2>2
  <2>6. /\ nbElems' = Cardinality(Occupied(table')) /\ hash' = hash
    BY <1>1, <1>10, <2>4
  <2>7. CASE Called(table', e) /\ table'[e].key # k
    <3>1. scan' = scan
      BY <1>1, <2>7
    <3>2. /\ scan' \in [on : BOOLEAN, entry : Nat, i : Nat] /\ scan'.on
          /\ scan'.i \in 0..n /\ scan'.entry = After(n, start, scan'.i)
      BY <1>1, <1>2, <3>1 DEF RobinInv, ScanFrom
    <3>3. ScanDue(due', visited', Remaining(table', n, start, scan'.i))
      BY <1>8, <2>5, <3>1
    <3> QED BY <1>8, <2>2, <2>4, <2>6, <3>2, <3>3, RobinScan
  <2>8. CASE ~(Called(table', e) /\ table'[e].key # k)
    <3>1. scan' = Advanced
      BY <1>1, <2>8
    <3>2. /\ scan' \in [on : BOOLEAN, entry : Nat, i : Nat] /\ scan'.on
          /\ scan'.i = scan.i + 1 /\ scan'.i \in 0..n
          /\ scan'.entry = After(n, start, scan'.i)
      BY <1>1, <1>2, <3>1, AdvancedIs
    <3>3. ~Called(table', e)
      <4>1. DOMAIN table' = 0..(n - 1)
        BY <2>4 DEF IsTable
      <4>2. Called(table', e) => table'[e].key # k
        BY <1>4, <2>4, <4>1 DEF Lost, Called
      <4> QED BY <2>8, <4>2
    <3>4. Remaining(table', n, start, scan.i) = Remaining(table', n, start, scan.i + 1)
      BY <1>4, <2>4, <3>3, RemainingNext
    <3>5. ScanDue(due', visited', Remaining(table', n, start, scan'.i))
      BY <1>8, <2>5, <3>2, <3>4
    <3> QED BY <1>8, <2>2, <2>4, <2>6, <3>2, <3>5, RobinScan
  <2> QED BY <2>7, <2>8
<1> QED BY <1>9, <1>10

LEMMA RobinScanEnd ==
  ASSUME RobinInv, ScanEnd
  PROVE  RobinInv'
<1>1. /\ scan' = NoScan /\ visited' = <<>> /\ UNCHANGED <<hash, table, nbElems>>
  BY DEF ScanEnd
<1>2. scan' \in [on : BOOLEAN, entry : Nat, i : Nat] /\ ~scan'.on
  BY <1>1 DEF NoScan
<1>3. visited' \in Seq(Keys) /\ IsInjective(visited')
  BY <1>1, NoVisit
<1> QED BY <1>1, <1>2, <1>3 DEF RobinInv

LEMMA RobinNext ==
  ASSUME RobinInv, [HashNext]_hashVars
  PROVE  RobinInv'
<1>1. ASSUME NEW k \in Keys, NEW v \in Payloads, xmlHashUpdateInternal(k, v) PROVE RobinInv'
  BY <1>1, RobinUpdateFound, RobinUpdateInsert DEF xmlHashUpdateInternal
<1>2. ASSUME NEW k \in Keys, xmlHashRemoveEntry3(k) PROVE RobinInv'
  BY <1>2, RobinRemove
<1>3. CASE xmlHashFree
  BY <1>3, RobinFree
<1>4. CASE ScanStart
  BY <1>4, RobinScanStart
<1>5. CASE ScanSkip
  BY <1>5, RobinScanSkip
<1>6. CASE ScanEnd
  BY <1>6, RobinScanEnd
<1>7. ASSUME NEW remove \in BOOLEAN, ScanCall(remove) PROVE RobinInv'
  BY <1>7, RobinScanCall
<1>8. CASE UNCHANGED hashVars
  BY <1>8 DEF hashVars, RobinInv, ScanFrom
<1> QED BY <1>1, <1>2, <1>3, <1>4, <1>5, <1>6, <1>7, <1>8 DEF HashNext

LEMMA RobinAlways == HashSpec => []RobinInv
<1>1. HashInit => RobinInv
  BY RobinInit
<1>2. RobinInv /\ [HashNext]_hashVars => RobinInv'
  BY RobinNext
<1> QED BY <1>1, <1>2, PTL DEF HashSpec

LEMMA FoundInv ==
  ASSUME RobinInv
  PROVE  EveryKeyFound
<1>1. IsHash(table, hash) /\ nbElems = Cardinality(Occupied(table))
  BY DEF RobinInv
<1>2. CASE table = NoTable
  BY <1>1, <1>2, NothingCounted, FS_EmptySet DEF EveryKeyFound
<1>3. CASE table # NoTable
  <2>1. PICK n \in Nat \ {0} : IsTable(table, n, hash) /\ HasRoom(table, n)
    BY <1>1, <1>3 DEF IsHash
  <2>2. DOMAIN table = 0..(n - 1) /\ Size(table) > 0
    <3>1. DOMAIN table = 0..(n - 1)
      BY <2>1 DEF IsTable
    <3>2. Size(table) = n
      BY <3>1, SizeIs
    <3> QED BY <3>1, <3>2
  <2>3. \E i \in DOMAIN table : ~Used(table, i)
    BY <2>1, <2>2 DEF HasRoom
  <2>4. Cardinality(KeysIn(table)) = Cardinality(Occupied(table))
    BY <2>1, KeysCounted
  <2>5. ASSUME NEW k \in KeysIn(table) PROVE HashFound(table, k, hash[k])
    <3>1. PICK i \in 0..(n - 1) : Used(table, i) /\ k = table[i].key
      BY <2>2 DEF KeysIn, Occupied
    <3>2. xmlHashFindEntry(table, k, hash[k]) = i
      BY <2>1, <3>1, FindPresent
    <3> QED BY <2>2, <3>1, <3>2 DEF HashFound
  <2> QED BY <1>1, <2>3, <2>4, <2>5 DEF EveryKeyFound
<1> QED BY <1>2, <1>3

(* EveryKeyFound, for every table size, fill factor and hash function: the *)
(* probe finds every key, whatever was inserted, grown and removed, and    *)
(* there is always a slot at which a search ends (hash.c:284-335).         *)
THEOREM RobinFindsKeys == HashSpec => []EveryKeyFound
<1>1. RobinInv => EveryKeyFound
  BY FoundInv
<1> QED BY <1>1, RobinAlways, PTL

LEMMA ScanInv ==
  ASSUME RobinInv
  PROVE  ScanOnce
<1>1. IsInjective(visited)
  BY DEF RobinInv
<1>2. ASSUME scan.on
      PROVE  /\ ToSet(visited) \subseteq due
             /\ scan.i = Size(table) => ToSet(visited) = due
  <2>10. PICK n \in Nat \ {0} : \E start \in 0..(n - 1) : ScanFrom(n, start)
    BY <1>2 DEF RobinInv
<2>1. PICK start \in 0..(n - 1) : ScanFrom(n, start)
    BY <2>10
  <2>2. due = ToSet(visited) \cup Remaining(table, n, start, scan.i)
    BY <2>1 DEF ScanFrom, ScanDue
  <2>3. Size(table) = n
    BY <2>1, SizeIs DEF ScanFrom, IsTable
  <2>4. Remaining(table, n, start, n) = {}
    <3>1. \A j \in 0..(n - 1) : ~(n <= j)
      OBVIOUS
    <3> QED BY <3>1 DEF Remaining
  <2> QED BY <2>2, <2>3, <2>4
<1> QED BY <1>1, <1>2 DEF ScanOnce

(* ScanOnce, for every table: no entry is moved across the start of the    *)
(* scan, so the callback sees each entry once, also when it removes them   *)
(* (hash.c:974-1013).                                                      *)
THEOREM RobinScansOnce == HashSpec => []ScanOnce
<1>1. RobinInv => ScanOnce
  BY ScanInv
<1> QED BY <1>1, RobinAlways, PTL

-----------------------------------------------------------------------------
(* What the table means as a map.                                          *)
LEMMA HashPairs ==
  ASSUME NEW t, NEW h, IsHash(t, h), NEW k, NEW v
  PROVE  <<k, v>> \in Pairs(t) <=> k \in KeysIn(t) /\ v = Contents(t)[k]
<1>1. CASE t = NoTable
  BY <1>1, NothingCounted
<1>2. CASE t # NoTable
  <2>1. PICK n \in Nat \ {0} : IsTable(t, n, h)
    BY <1>2 DEF IsHash
  <2>2. /\ DOMAIN t = 0..(n - 1)
        /\ \A i, j \in 0..(n - 1) : Used(t, i) /\ Used(t, j) /\ t[i].key = t[j].key => i = j
    BY <2>1 DEF IsTable
  <2>3. ASSUME NEW i \in 0..(n - 1), Used(t, i)
        PROVE  t[i].key \in KeysIn(t) /\ Contents(t)[t[i].key] = t[i].payload
    <3> DEFINE x == CHOOSE j \in DOMAIN t : t[j].key = t[i].key
    <3>1. x \in DOMAIN t /\ t[x].key = t[i].key
      BY <2>2
    <3>2. t[i].key \in KeysIn(t)
      BY <2>2, <2>3 DEF KeysIn, Occupied
    <3>3. Contents(t)[t[i].key] = t[x].payload
      BY <3>2, Zenon DEF Contents
    <3> HIDE DEF x
    <3>4. x = i
      BY <2>2, <2>3, <3>1 DEF Used
    <3> QED BY <3>2, <3>3, <3>4
  <2>4. ASSUME <<k, v>> \in Pairs(t) PROVE k \in KeysIn(t) /\ v = Contents(t)[k]
    <3>1. PICK i \in 0..(n - 1) : Used(t, i) /\ <<k, v>> = <<t[i].key, t[i].payload>>
      BY <2>2, <2>4 DEF Pairs, Occupied
    <3> QED BY <2>3, <3>1
  <2>5. ASSUME k \in KeysIn(t), v = Contents(t)[k] PROVE <<k, v>> \in Pairs(t)
    <3>1. PICK i \in 0..(n - 1) : Used(t, i) /\ k = t[i].key
      BY <2>2, <2>5 DEF KeysIn, Occupied
    <3>2. v = t[i].payload
      BY <2>3, <2>5, <3>1
    <3> QED BY <2>2, <3>1, <3>2 DEF Pairs, Occupied
  <2> QED BY <2>4, <2>5
<1> QED BY <1>1, <1>2

LEMMA ContentsOver ==
  ASSUME NEW t
  PROVE  Contents(t) = [k \in KeysIn(t) |-> Contents(t)[k]] /\ DOMAIN Contents(t) = KeysIn(t)
<1> DEFINE p(k) == t[CHOOSE i \in DOMAIN t : t[i].key = k].payload
           V == [k \in KeysIn(t) |-> p(k)]
<1>1. Contents(t) = V
  BY Zenon DEF Contents
<1> HIDE DEF p
<1>2. DOMAIN V = KeysIn(t) /\ V = [k \in DOMAIN V |-> V[k]]
  OBVIOUS
<1> HIDE DEF V
<1> QED BY <1>1, <1>2

(* The map after the entries have changed.                                 *)
LEMMA SameContents ==
  ASSUME NEW r, NEW t, NEW h1, NEW h2, IsHash(r, h1), IsHash(t, h2), Pairs(r) = Pairs(t)
  PROVE  KeysIn(r) = KeysIn(t) /\ Contents(r) = Contents(t)
<1>1. KeysIn(r) = KeysIn(t)
  BY KeysOfPairs
<1>2. ASSUME NEW k \in KeysIn(r) PROVE Contents(r)[k] = Contents(t)[k]
  <2>1. <<k, Contents(r)[k]>> \in Pairs(r)
    BY HashPairs
  <2> QED BY <2>1, HashPairs
<1>3. /\ Contents(r) = [k \in KeysIn(r) |-> Contents(r)[k]]
      /\ Contents(t) = [k \in KeysIn(t) |-> Contents(t)[k]]
  BY ContentsOver, Zenon
<1>4. [k \in KeysIn(r) |-> Contents(r)[k]] = [k \in KeysIn(t) |-> Contents(t)[k]]
  BY <1>1, <1>2
<1> QED BY <1>1, <1>3, <1>4

IsPut(m, c, k, v) == m = [j \in DOMAIN c \cup {k} |-> IF j = k THEN v ELSE c[j]]
IsCut(m, c, k) == m = [j \in DOMAIN c \ {k} |-> c[j]]

LEMMA PutContents ==
  ASSUME NEW r, NEW t, NEW h, IsHash(r, h), IsHash(t, h), NEW k, NEW v,
         NEW P, P \subseteq Pairs(t), Pairs(r) = P \cup {<<k, v>>},
         \A z \in Pairs(t) : z[1] = k \/ z \in P,
         \A z \in P : z[1] # k
  PROVE  IsPut(Contents(r), Contents(t), k, v)
<1> DEFINE c == Contents(t)
           m == [j \in DOMAIN c \cup {k} |-> IF j = k THEN v ELSE c[j]]
<1>1. DOMAIN c = KeysIn(t)
  BY ContentsOver
<1>2. KeysIn(t) = {z[1] : z \in Pairs(t)} /\ KeysIn(r) = {z[1] : z \in Pairs(r)}
  BY KeysOfPairs
<1>3. KeysIn(r) = KeysIn(t) \cup {k}
  <2>1. ASSUME NEW j \in KeysIn(r) PROVE j \in KeysIn(t) \cup {k}
    <3>1. PICK z \in Pairs(r) : j = z[1]
      BY <1>2
    <3>2. z \in Pairs(t) \/ z = <<k, v>>
      BY <3>1
    <3> QED BY <1>2, <3>1, <3>2
  <2>2. ASSUME NEW j \in KeysIn(t), j # k PROVE j \in KeysIn(r)
    <3>1. PICK z \in Pairs(t) : j = z[1]
      BY <1>2
    <3>2. z \in Pairs(r)
      BY <2>2, <3>1
    <3> QED BY <1>2, <3>1, <3>2
  <2>3. k \in KeysIn(r)
    <3>1. <<k, v>> \in Pairs(r)
      OBVIOUS
    <3> QED BY <3>1, HashPairs
  <2> QED BY <2>1, <2>2, <2>3
<1>4. ASSUME NEW j \in KeysIn(r) PROVE Contents(r)[j] = IF j = k THEN v ELSE c[j]
  <2>1. <<j, Contents(r)[j]>> \in Pairs(r)
    BY HashPairs
  <2>2. CASE j = k
    <3>1. <<k, v>> \in Pairs(r)
      OBVIOUS
    <3>2. v = Contents(r)[k]
      BY <3>1, HashPairs
    <3> QED BY <2>2, <3>2
  <2>3. CASE j # k
    <3>1. <<j, Contents(r)[j]>> \in Pairs(t)
      BY <2>1, <2>3
    <3>2. Contents(r)[j] = c[j]
      BY <3>1, HashPairs
    <3> QED BY <2>3, <3>2
  <2> QED BY <2>2, <2>3
<1>5. Contents(r) = [j \in KeysIn(r) |-> Contents(r)[j]]
  BY ContentsOver
<1> HIDE DEF c
<1>6. [j \in KeysIn(r) |-> Contents(r)[j]] = m
  BY <1>1, <1>3, <1>4
<1> HIDE DEF m
<1>7. Contents(r) = m
  BY <1>5, <1>6
<1> QED BY <1>7 DEF m, c, IsPut

LEMMA CutContents ==
  ASSUME NEW r, NEW t, NEW h, IsHash(r, h), IsHash(t, h), NEW k, NEW v,
         <<k, v>> \in Pairs(t), Pairs(r) = Pairs(t) \ {<<k, v>>}
  PROVE  k \in DOMAIN Contents(t) /\ IsCut(Contents(r), Contents(t), k)
<1> DEFINE c == Contents(t)
           m == [j \in DOMAIN c \ {k} |-> c[j]]
<1>1. DOMAIN c = KeysIn(t)
  BY ContentsOver
<1>2. KeysIn(t) = {z[1] : z \in Pairs(t)} /\ KeysIn(r) = {z[1] : z \in Pairs(r)}
  BY KeysOfPairs
<1>3. k \in KeysIn(t) /\ v = c[k]
  BY HashPairs
<1>4. KeysIn(r) = KeysIn(t) \ {k}
  <2>1. ASSUME NEW j \in KeysIn(r) PROVE j \in KeysIn(t) /\ j # k
    <3>1. <<j, Contents(r)[j]>> \in Pairs(r)
      BY HashPairs
    <3>2. <<j, Contents(r)[j]>> \in Pairs(t) /\ <<j, Contents(r)[j]>> # <<k, v>>
      BY <3>1
    <3>3. j \in KeysIn(t) /\ Contents(r)[j] = c[j]
      BY <3>2, HashPairs
    <3> QED BY <1>3, <3>2, <3>3
  <2>2. ASSUME NEW j \in KeysIn(t), j # k PROVE j \in KeysIn(r)
    <3>1. PICK z \in Pairs(t) : j = z[1]
      BY <1>2
    <3>2. z \in Pairs(r)
      BY <2>2, <3>1
    <3> QED BY <1>2, <3>1, <3>2
  <2> QED BY <2>1, <2>2
<1>5. ASSUME NEW j \in KeysIn(r) PROVE Contents(r)[j] = c[j]
  <2>1. <<j, Contents(r)[j]>> \in Pairs(r)
    BY HashPairs
  <2>2. <<j, Contents(r)[j]>> \in Pairs(t)
    BY <2>1
  <2> QED BY <2>2, HashPairs
<1>6. Contents(r) = [j \in KeysIn(r) |-> Contents(r)[j]]
  BY ContentsOver
<1> HIDE DEF c
<1>7. [j \in KeysIn(r) |-> Contents(r)[j]] = m
  BY <1>1, <1>4, <1>5
<1> HIDE DEF m
<1>8. Contents(r) = m
  BY <1>6, <1>7
<1> QED BY <1>1, <1>3, <1>8 DEF m, c, IsCut

LEMMA NoContents ==
  ASSUME NEW t, KeysIn(t) = {}
  PROVE  Contents(t) = <<>>
<1>1. Contents(t) = [k \in KeysIn(t) |-> Contents(t)[k]]
  BY ContentsOver
<1>2. \A f : [k \in {} |-> f[k]] = <<>>
  OBVIOUS
<1> QED BY <1>1, <1>2

(* What xmlHashLookup3 returns.                                            *)
LEMMA LookupIs ==
  ASSUME NEW t, NEW h, IsHash(t, h), NEW k \in Keys, h[k] \in Nat
  PROVE  xmlHashLookup3(t, k, h[k]) = IF k \in KeysIn(t) THEN Contents(t)[k] ELSE NoData
<1> DEFINE e == xmlHashFindEntry(t, k, h[k])
<1>1. CASE HashFound(t, k, h[k])
  <2>1. PICK n \in Nat \ {0} : /\ IsTable(t, n, h) /\ e \in 0..(n - 1) /\ Used(t, e) /\ t[e].key = k
    BY <1>1, FoundHash
  <2>2. xmlHashLookup3(t, k, h[k]) = t[e].payload
    BY <1>1, Zenon DEF xmlHashLookup3
  <2> HIDE DEF e
  <2>3. <<k, t[e].payload>> \in Pairs(t)
    BY <2>1 DEF Pairs, Occupied, IsTable
  <2>4. k \in KeysIn(t) /\ t[e].payload = Contents(t)[k]
    BY <2>3, HashPairs
  <2> QED BY <2>2, <2>4 DEF e
<1>2. CASE ~HashFound(t, k, h[k])
  <2>1. k \notin KeysIn(t)
    BY <1>2, HashKeys
  <2> QED BY <1>2, <2>1, Zenon DEF xmlHashLookup3
<1> QED BY <1>1, <1>2

-----------------------------------------------------------------------------
(* Each step of the table is a step of the map, or none.                   *)
LEMMA MapUpdateFound ==
  ASSUME RobinInv, RobinInv', NEW k \in Keys, NEW v \in Payloads, NEW update \in BOOLEAN,
         UpdateFound(k, v, update)
  PROVE  Contents(table)' = Contents(table) \/ IsPut(Contents(table)', Contents(table), k, v)
<1> DEFINE e == xmlHashFindEntry(table, k, hash[k])
<1>1. /\ hash' = hash /\ HashFound(table, k, hash[k])
      /\ table' = IF update THEN [table EXCEPT ![e].payload = v] ELSE table
  BY DEF UpdateFound
<1>2. IsHash(table, hash) /\ IsHash(table', hash)
  BY <1>1 DEF RobinInv
<1>3. PICK n \in Nat \ {0} : /\ IsTable(table, n, hash) /\ e \in 0..(n - 1)
                             /\ Used(table, e) /\ table[e].key = k
  BY <1>1, <1>2, HashNat, FoundHash
<1>4. CASE ~update
  BY <1>1, <1>4
<1>5. CASE update
  <2> DEFINE P == Pairs(table) \ {<<k, table[e].payload>>}
  <2>1. Pairs(table') = P \cup {<<k, v>>}
    <3>1. Pairs([table EXCEPT ![e].payload = v])
            = (Pairs(table) \ {<<table[e].key, table[e].payload>>}) \cup {<<table[e].key, v>>}
      BY <1>3, UpdatedIs
    <3> QED BY <1>1, <1>3, <1>5, <3>1
  <2>2. <<k, table[e].payload>> \in Pairs(table)
    BY <1>3 DEF Pairs, Occupied, IsTable
  <2> HIDE DEF e
  <2>3. ASSUME NEW z \in Pairs(table) PROVE z = <<z[1], z[2]>>
    BY DEF Pairs
  <2>4. ASSUME NEW z \in P PROVE z[1] # k
    <3> SUFFICES ASSUME z[1] = k PROVE FALSE
      OBVIOUS
    <3>1. PICK y : z = <<k, y>>
      BY <2>3
    <3>2. <<k, y>> \in Pairs(table) /\ y # table[e].payload
      BY <3>1
    <3>3. y = Contents(table)[k] /\ table[e].payload = Contents(table)[k]
      BY <1>2, <2>2, <3>2, HashPairs
    <3> QED BY <3>2, <3>3
  <2>5. \A z \in Pairs(table) : z[1] = k \/ z \in P
    OBVIOUS
  <2>6. P \subseteq Pairs(table)
    OBVIOUS
  <2> HIDE DEF P
  <2>7. IsPut(Contents(table'), Contents(table), k, v)
    BY <1>2, <2>1, <2>4, <2>5, <2>6, PutContents
  <2>8. Contents(table)' = Contents(table')
    BY DEF Contents, KeysIn, Occupied, Used
  <2> QED BY <2>7, <2>8
<1> QED BY <1>4, <1>5

LEMMA MapUpdateInsert ==
  ASSUME RobinInv, RobinInv', NEW k \in Keys, NEW v \in Payloads, NEW copied \in BOOLEAN,
         UpdateInsert(k, v, copied)
  PROVE  \/ Contents(table)' = Contents(table)
         \/ k \notin DOMAIN Contents(table) /\ IsPut(Contents(table)', Contents(table), k, v)
<1> DEFINE g == GrownFor(table, nbElems)
<1>1. /\ hash' = hash /\ ~HashFound(table, k, hash[k])
      /\ table' = IF copied THEN HashInserted(g, k, hash[k], v) ELSE g
  BY DEF UpdateInsert, GrownFor
<1>2. /\ IsHash(table, hash) /\ IsHash(table', hash)
      /\ nbElems = Cardinality(Occupied(table))
  BY <1>1 DEF RobinInv
<1>3. k \notin KeysIn(table) /\ hash[k] \in Nat
  BY <1>1, <1>2, HashKeys, HashNat
<1>4. Contents(table)' = Contents(table')
  BY DEF Contents, KeysIn, Occupied, Used
<1>5. CASE copied
  <2>1. Pairs(table') = Pairs(table) \cup {<<k, v>>}
    BY <1>1, <1>2, <1>3, <1>5, PlacedIs DEF Gained
  <2>2. \A z \in Pairs(table) : z[1] # k
    BY <1>3, KeysOfPairs
  <2>3. IsPut(Contents(table'), Contents(table), k, v)
    BY <1>2, <2>1, <2>2, PutContents
  <2>4. k \notin DOMAIN Contents(table)
    BY <1>3, ContentsOver
  <2> QED BY <1>4, <2>3, <2>4
<1>6. CASE ~copied
  <2>1. Pairs(table') = Pairs(table)
    BY <1>1, <1>2, <1>6, GrownIs DEF IsGrown
  <2>2. Contents(table') = Contents(table)
    BY <1>2, <2>1, SameContents
  <2> QED BY <1>4, <2>2
<1> QED BY <1>5, <1>6

LEMMA MapRemoved ==
  ASSUME RobinInv, RobinInv', hash' = hash, NEW k \in Keys, HashFound(table, k, hash[k]),
         table' = Removed(table, xmlHashFindEntry(table, k, hash[k]))
  PROVE  k \in DOMAIN Contents(table) /\ IsCut(Contents(table)', Contents(table), k)
<1> DEFINE e == xmlHashFindEntry(table, k, hash[k])
<1>1. IsHash(table, hash) /\ IsHash(table', hash)
  BY DEF RobinInv
<1>2. PICK n \in Nat \ {0} : /\ IsTable(table, n, hash) /\ HasRoom(table, n)
                             /\ e \in 0..(n - 1) /\ Used(table, e) /\ table[e].key = k
  BY <1>1, HashNat, FoundHash
<1>3. Pairs(table') = Pairs(table) \ {<<k, table[e].payload>>}
  BY <1>2, RemovedHash DEF Lost
<1>4. <<k, table[e].payload>> \in Pairs(table)
  BY <1>2 DEF Pairs, Occupied, IsTable
<1> HIDE DEF e
<1>5. k \in DOMAIN Contents(table) /\ IsCut(Contents(table'), Contents(table), k)
  BY <1>1, <1>3, <1>4, CutContents
<1>6. Contents(table)' = Contents(table')
  BY DEF Contents, KeysIn, Occupied, Used
<1> QED BY <1>5, <1>6

LEMMA FoundAtScan ==
  ASSUME RobinInv, scan.on, scan.i < Size(table), Used(table, scan.entry)
  PROVE  LET k == table[scan.entry].key
         IN  k \in Keys /\ HashFound(table, k, hash[k])
<1> DEFINE e == scan.entry
           k == table[e].key
<1>1. PICK n \in Nat \ {0} : \E start \in 0..(n - 1) : ScanFrom(n, start)
  BY DEF RobinInv
<1>2. PICK start \in 0..(n - 1) : ScanFrom(n, start)
  BY <1>1
<1>3. e \in 0..(n - 1)
  BY <1>2, ScanEntry
<1>4. IsTable(table, n, hash)
  BY <1>2 DEF ScanFrom
<1>5. k \in Keys
  <2>1. table[e] \in Slots
    BY <1>3, <1>4 DEF IsTable
  <2> QED BY <2>1 DEF Slots, Used
<1>6. xmlHashFindEntry(table, k, hash[k]) = e
  BY <1>3, <1>4, FindPresent
<1>7. Size(table) > 0
  <2>1. Size(table) = n
    BY <1>4, SizeIs DEF IsTable
  <2> QED BY <2>1
<1> QED BY <1>5, <1>6, <1>7 DEF HashFound

LEMMA MapNext ==
  ASSUME RobinInv, RobinInv', [HashNext]_hashVars
  PROVE  [Map!Next]_(Contents(table))
<1> DEFINE c == Contents(table)
<1>1. ASSUME NEW k \in Keys, NEW v \in Payloads, IsPut(c', c, k, v) PROVE Map!Next
  <2>1. Map!Update(k, v)
    BY <1>1 DEF Map!Update, Map!Put, IsPut
  <2> QED BY <2>1 DEF Map!Next
<1>2. ASSUME NEW k \in Keys, k \in DOMAIN c, IsCut(c', c, k) PROVE Map!Next
  <2>1. Map!Remove(k)
    BY <1>2 DEF Map!Remove, IsCut
  <2> QED BY <2>1 DEF Map!Next
<1>3. ASSUME table' = table PROVE c' = c
  BY <1>3 DEF Contents, KeysIn, Occupied, Used
<1>4. ASSUME NEW k \in Keys, NEW v \in Payloads, xmlHashUpdateInternal(k, v)
      PROVE  c' = c \/ Map!Next
  <2> HIDE DEF c
  <2>1. ASSUME NEW update \in BOOLEAN, UpdateFound(k, v, update) PROVE c' = c \/ Map!Next
    BY <1>1, <2>1, MapUpdateFound DEF c
  <2>2. ASSUME NEW copied \in BOOLEAN, UpdateInsert(k, v, copied) PROVE c' = c \/ Map!Next
    BY <1>1, <2>2, MapUpdateInsert DEF c
  <2> QED BY <1>4, <2>1, <2>2 DEF xmlHashUpdateInternal
<1>5. ASSUME NEW k \in Keys, xmlHashRemoveEntry3(k) PROVE Map!Next
  <2>1. k \in DOMAIN c /\ IsCut(c', c, k)
    BY <1>5, MapRemoved DEF xmlHashRemoveEntry3
  <2> QED BY <1>2, <2>1
<1>6. CASE xmlHashFree
  <2>1. table' = NoTable
    BY <1>6 DEF xmlHashFree
  <2>2. c' = Contents(table')
    BY DEF Contents, KeysIn, Occupied, Used
  <2>3. Contents(NoTable) = <<>>
    BY NothingCounted, NoContents
  <2>4. c' = <<>>
    BY <2>1, <2>2, <2>3
  <2> QED BY <2>4 DEF Map!Next, Map!Free
<1>7. CASE ScanStart \/ ScanSkip \/ ScanEnd \/ UNCHANGED hashVars
  BY <1>3, <1>7 DEF ScanStart, ScanSkip, ScanEnd, hashVars
<1>8. ASSUME NEW remove \in BOOLEAN, ScanCall(remove) PROVE c' = c \/ Map!Next
  <2> DEFINE k == table[scan.entry].key
  <2>1. /\ scan.on /\ scan.i < Size(table) /\ Called(table, scan.entry) /\ hash' = hash
        /\ table' = IF remove THEN Removed(table, xmlHashFindEntry(table, k, hash[k])) ELSE table
    BY <1>8 DEF ScanCall
  <2>2. k \in Keys /\ HashFound(table, k, hash[k])
    BY <2>1, FoundAtScan DEF Called
  <2> HIDE DEF k
  <2>3. CASE remove
    <3>1. k \in DOMAIN c /\ IsCut(c', c, k)
      BY <2>1, <2>2, <2>3, MapRemoved
    <3> QED BY <1>2, <2>2, <3>1
  <2>4. CASE ~remove
    BY <1>3, <2>1, <2>4
  <2> QED BY <2>3, <2>4
<1>9. CASE UNCHANGED hashVars
  BY <1>7, <1>9 DEF c
<1>10. CASE HashNext
  <2>1. CASE \E k \in Keys, v \in Payloads : xmlHashUpdateInternal(k, v)
    BY <1>4, <2>1 DEF c
  <2>2. CASE \E k \in Keys : xmlHashRemoveEntry3(k)
    BY <1>5, <2>2
  <2>3. CASE ScanStart \/ ScanSkip \/ ScanEnd
    BY <1>7, <2>3 DEF c
  <2>4. CASE \E remove \in BOOLEAN : ScanCall(remove)
    BY <1>8, <2>4 DEF c
  <2> QED BY <1>6, <1>10, <2>1, <2>2, <2>3, <2>4 DEF HashNext
<1> QED BY <1>9, <1>10

(* The table implements the map of hash.h, for every table size, fill      *)
(* factor and hash function: what was put under a key is what is found     *)
(* there, through every growth, shift and removal (hash.c:284-335,         *)
(* 352-403, 421-588, 919-999).                                             *)
THEOREM RobinIsMap == HashSpec => ImplementsHashMap
<1>1. HashInit => Map!Init
  <2> SUFFICES ASSUME HashInit PROVE Contents(table) = <<>>
    BY DEF Map!Init
  <2>1. PICK n \in CreateSizes : table = Created(n)
    BY DEF HashInit
  <2>2. n \in Nat
    BY SizesAssumption
  <2>3. KeysIn(table) = {}
    BY <2>1, <2>2, CreatedIs
  <2> QED BY <2>3, NoContents
<1>2. RobinInv /\ RobinInv' /\ [HashNext]_hashVars => [Map!Next]_(Contents(table))
  BY MapNext
<1> QED BY <1>1, <1>2, RobinAlways, PTL DEF HashSpec, ImplementsHashMap, Map!Spec

-----------------------------------------------------------------------------
(* xmlHashCopySafe.                                                        *)
IsCopyRun(g, t, h, copier, short, m) ==
  g = [i \in 0..m |-> IF i = 0 THEN CopyOf(Created(Size(t)))
                      ELSE CopyInto(t, g[i - 1], i - 1, h, copier, short)]

LEMMA CopyRunExists ==
  ASSUME NEW t, NEW h, NEW copier, NEW short, NEW N \in Nat
  PROVE  \E g : IsCopyRun(g, t, h, copier, short, N)
<1> DEFINE P == {m \in Nat : \E g : IsCopyRun(g, t, h, copier, short, m)}
           first == CopyOf(Created(Size(t)))
           Next1(c, i) == CopyInto(t, c, i, h, copier, short)
<1>1. 0 \in P
  <2>1. IsCopyRun([i \in 0..0 |-> first], t, h, copier, short, 0)
    BY DEF IsCopyRun
  <2> QED BY <2>1
<1>2. ASSUME NEW m \in Nat, m \in P PROVE m + 1 \in P
  <2>1. PICK g : IsCopyRun(g, t, h, copier, short, m)
    BY <1>2
  <2> DEFINE f == [i \in 0..(m + 1) |-> IF i = m + 1 THEN Next1(g[m], m) ELSE g[i]]
  <2>2. ASSUME NEW i \in 0..(m + 1)
        PROVE  f[i] = IF i = 0 THEN first ELSE Next1(f[i - 1], i - 1)
    <3>1. CASE i = 0
      <4>1. f[i] = g[0] /\ 0 \in 0..m
        BY <3>1
      <4>2. g[0] = first
        BY <2>1, <4>1, Zenon DEF IsCopyRun
      <4> QED BY <3>1, <4>1, <4>2
    <3>2. CASE i \in 1..m
      <4>1. f[i] = g[i] /\ f[i - 1] = g[i - 1] /\ i \in 0..m /\ i # 0
        BY <3>2
      <4>2. g[i] = Next1(g[i - 1], i - 1)
        BY <2>1, <4>1, Zenon DEF IsCopyRun
      <4> QED BY <4>1, <4>2
    <3>3. CASE i = m + 1
      <4>1. f[i] = Next1(g[m], m) /\ i - 1 = m /\ i # 0
        BY <3>3
      <4>2. f[m] = g[m]
        OBVIOUS
      <4> HIDE DEF f
      <4> QED BY <4>1, <4>2
    <3> QED BY <3>1, <3>2, <3>3
  <2>3. f = [i \in 0..(m + 1) |-> f[i]]
    OBVIOUS
  <2> HIDE DEF f
  <2>4. IsCopyRun(f, t, h, copier, short, m + 1)
    BY <2>2, <2>3, Zenon DEF IsCopyRun
  <2> QED BY <2>4
<1> HIDE DEF P
<1>3. N \in P
  BY <1>1, <1>2, Induct
<1> QED BY <1>3 DEF P

LEMMA CopyChosen ==
  ASSUME NEW t, NEW h, NEW copier, NEW short, Size(t) \in Nat
  PROVE  \E g : /\ IsCopyRun(g, t, h, copier, short, Size(t))
                /\ xmlHashCopySafe(t, h, copier, short) = g[Size(t)]
<1> DEFINE G == CHOOSE g : IsCopyRun(g, t, h, copier, short, Size(t))
<1>1. xmlHashCopySafe(t, h, copier, short) = G[Size(t)]
  BY Zenon DEF xmlHashCopySafe, IsCopyRun
<1>2. IsCopyRun(G, t, h, copier, short, Size(t))
  BY CopyRunExists, Zenon
<1> QED BY <1>1, <1>2

(* The copies of the payloads in the first u slots.                        *)
CopiesBefore(t, copier, u) ==
  {<<t[j].key, PayloadCopy(t, j, copier)>> : j \in {x \in Occupied(t) : x < u}}

(* Nothing stops the copy before slot u.                                   *)
GoesTo(t, copier, short, u) ==
  \A j \in Occupied(t) : j < u => ~CopyStops(t, j, copier, short)

StoppedAt(c, t, copier, short, u) ==
  /\ u \in Occupied(t) /\ CopyStops(t, u, copier, short)
  /\ c.inHand = IF PayloadCopy(t, u, copier) = NoData THEN {} ELSE {t[u].key}

(* The copy after the first i slots.                                       *)
CopyInv(c, t, h, copier, short, i) ==
  /\ c = [table |-> c.table, failed |-> c.failed, inHand |-> c.inHand]
  /\ c.failed \in BOOLEAN
  /\ IsHash(c.table, h)
  /\ ~c.failed => /\ GoesTo(t, copier, short, i) /\ Pairs(c.table) = CopiesBefore(t, copier, i)
                  /\ c.inHand = {}
  /\ c.failed => \E u \in Nat :
       /\ GoesTo(t, copier, short, u) /\ Pairs(c.table) = CopiesBefore(t, copier, u)
       /\ StoppedAt(c, t, copier, short, u)

LEMMA CopyStep ==
  ASSUME NEW n \in Nat \ {0}, NEW t, NEW h0, IsTable(t, n, h0), NEW h, \A k \in Keys : h[k] \in Nat,
         NEW copier \in Copiers, NEW short, NEW i \in 0..(n - 1), NEW c,
         CopyInv(c, t, h, copier, short, i)
  PROVE  CopyInv(CopyInto(t, c, i, h, copier, short), t, h, copier, short, i + 1)
<1> DEFINE d == CopyInto(t, c, i, h, copier, short)
           v == PayloadCopy(t, i, copier)
           k == t[i].key
<1>1. DOMAIN t = 0..(n - 1) /\ t[i] \in Slots
  BY DEF IsTable
<1>2. /\ c = [table |-> c.table, failed |-> c.failed, inHand |-> c.inHand]
      /\ c.failed \in BOOLEAN /\ IsHash(c.table, h)
      /\ ~c.failed => /\ GoesTo(t, copier, short, i)
                      /\ Pairs(c.table) = CopiesBefore(t, copier, i) /\ c.inHand = {}
  BY DEF CopyInv
<1>3. \A j \in 0..(n - 1) : j < i + 1 <=> j < i \/ j = i
  OBVIOUS
<1>4. Occupied(t) = {j \in 0..(n - 1) : Used(t, j)}
  BY <1>1 DEF Occupied
<1>5. CASE c.failed
  <2>1. d = c
    BY <1>5 DEF CopyInto
  <2> QED BY <1>5, <2>1 DEF CopyInv
<1>6. CASE ~c.failed /\ ~Used(t, i)
  <2>1. d = c
    BY <1>6 DEF CopyInto
  <2>2. \A j \in Occupied(t) : j < i + 1 <=> j < i
    BY <1>3, <1>4, <1>6
  <2>3. GoesTo(t, copier, short, i + 1)
    BY <1>2, <1>6, <2>2 DEF GoesTo
  <2>4. {x \in Occupied(t) : x < i + 1} = {x \in Occupied(t) : x < i}
    BY <2>2
  <2>5. CopiesBefore(t, copier, i + 1) = CopiesBefore(t, copier, i)
    BY <2>4 DEF CopiesBefore
  <2> QED BY <1>2, <1>6, <2>1, <2>3, <2>5 DEF CopyInv
<1>7. CASE ~c.failed /\ Used(t, i) /\ CopyStops(t, i, copier, short)
  <2> DEFINE hand == IF v = NoData THEN {} ELSE {k}
  <2>1. i \in Occupied(t) /\ i \in Nat
    BY <1>4, <1>7
  <2>2. d = [table |-> c.table, failed |-> TRUE, inHand |-> hand]
    <3>1. CASE v = NoData
      <4>1. d = [c EXCEPT !.failed = TRUE]
        BY <1>7, <3>1 DEF CopyInto
      <4>2. c.inHand = hand
        BY <1>2, <1>7, <3>1
      <4> HIDE DEF d, hand
      <4> QED BY <1>2, <4>1, <4>2
    <3>2. CASE v # NoData /\ i = short
      <4>1. d = [c EXCEPT !.failed = TRUE, !.inHand = {k}]
        BY <1>7, <3>2 DEF CopyInto
      <4>2. hand = {k}
        BY <3>2
      <4> HIDE DEF d, hand
      <4> QED BY <1>2, <4>1, <4>2
    <3> QED BY <1>7, <3>1, <3>2 DEF CopyStops
  <2> HIDE DEF d
  <2>3. d.table = c.table /\ d.failed = TRUE /\ d.inHand = hand
    BY <2>2
  <2>4. StoppedAt(d, t, copier, short, i)
    BY <1>7, <2>1, <2>3 DEF StoppedAt
  <2>5. d = [table |-> d.table, failed |-> d.failed, inHand |-> d.inHand]
    BY <2>2
  <2> HIDE DEF hand
  <2>6. CopyInv(d, t, h, copier, short, i + 1)
    BY <1>2, <1>7, <2>1, <2>3, <2>4, <2>5, Zenon DEF CopyInv
  <2> QED BY <2>6 DEF d
<1>8. CASE ~c.failed /\ Used(t, i) /\ ~CopyStops(t, i, copier, short)
  <2> DEFINE size == Cardinality(Occupied(c.table))
             r == HashInserted(GrownFor(c.table, size), k, h[k], v)
  <2>0. i \in Occupied(t)
    BY <1>4, <1>8
  <2>1. d = [c EXCEPT !.table = CopyAdded(t, @, i, h, copier)]
    BY <1>8 DEF CopyInto, CopyStops
  <2>2. CopyAdded(t, c.table, i, h, copier) = r
    BY Zenon DEF CopyAdded, GrownFor
  <2> HIDE DEF d, r
  <2>3. d = [table |-> r, failed |-> FALSE, inHand |-> {}]
    BY <1>2, <1>8, <2>1, <2>2
  <2>4. k \in Keys /\ v \in Payloads /\ h[k] \in Nat
    <3>1. k \in Keys /\ t[i].payload \in Payloads
      BY <1>1, <1>8 DEF Slots, Used
    <3>2. copier \in [Payloads -> Payloads]
      BY PayloadsAssumption
    <3> QED BY <3>1, <3>2 DEF PayloadCopy
  <2>5. k \notin KeysIn(c.table)
    <3> SUFFICES ASSUME k \in KeysIn(c.table) PROVE FALSE
      OBVIOUS
    <3>1. PICK z \in Pairs(c.table) : z[1] = k
      BY KeysOfPairs
    <3>2. PICK j \in Occupied(t) : j < i /\ z = <<t[j].key, PayloadCopy(t, j, copier)>>
      BY <1>2, <1>8, <3>1 DEF CopiesBefore
    <3>3. t[j].key = k /\ j # i
      BY <3>1, <3>2
    <3> QED BY <1>4, <2>0, <3>2, <3>3 DEF IsTable
  <2> HIDE DEF k, v
  <2>6. IsHash(r, h) /\ Gained(r, c.table, k, v)
    BY <1>2, <2>4, <2>5, PlacedIs DEF r
  <2>7. Pairs(r) = CopiesBefore(t, copier, i + 1)
    <3>1. Pairs(r) = CopiesBefore(t, copier, i) \cup {<<k, v>>}
      BY <1>2, <1>8, <2>6 DEF Gained
    <3>2. {x \in Occupied(t) : x < i + 1} = {x \in Occupied(t) : x < i} \cup {i}
      BY <1>3, <1>4, <2>0
    <3>3. CopiesBefore(t, copier, i + 1) = CopiesBefore(t, copier, i) \cup {<<k, v>>}
      BY <3>2 DEF CopiesBefore, k, v
    <3> QED BY <3>1, <3>3
  <2>8. GoesTo(t, copier, short, i + 1)
    BY <1>2, <1>3, <1>4, <1>8 DEF GoesTo
  <2>9. /\ d.table = r /\ d.failed = FALSE /\ d.inHand = {}
        /\ d = [table |-> d.table, failed |-> d.failed, inHand |-> d.inHand]
    BY <2>3
  <2>10. CopyInv(d, t, h, copier, short, i + 1)
    BY <2>6, <2>7, <2>8, <2>9, Zenon DEF CopyInv
  <2> QED BY <2>10 DEF d
<1> QED BY <1>2, <1>5, <1>6, <1>7, <1>8

(* The result: slots is the size of the table.                             *)
LEMMA CopyEnds ==
  ASSUME NEW t, NEW h0, IsHash(t, h0), NEW h, \A k \in Keys : h[k] \in Nat,
         NEW copier \in Copiers, NEW short
  PROVE  \E n \in Nat : /\ CopyInv(xmlHashCopySafe(t, h, copier, short), t, h, copier, short, n)
                        /\ \A j \in Occupied(t) : j \in Nat /\ j < n
<1>1. Size(t) \in Nat
  <2>1. CASE t = NoTable
    BY <2>1, NothingCounted
  <2>2. CASE t # NoTable
    BY <2>2, SizeIs DEF IsHash, IsTable
  <2> QED BY <2>1, <2>2
<1> DEFINE N == Size(t)
           first == CopyOf(Created(N))
<1>2. PICK g : IsCopyRun(g, t, h, copier, short, N) /\ xmlHashCopySafe(t, h, copier, short) = g[N]
  BY <1>1, CopyChosen
<1>3. /\ g[0] = first
      /\ \A i \in 1..N : g[i] = CopyInto(t, g[i - 1], i - 1, h, copier, short)
  <2>1. \A i \in 0..N : g[i] = IF i = 0 THEN first
                               ELSE CopyInto(t, g[i - 1], i - 1, h, copier, short)
    BY <1>2, Zenon DEF IsCopyRun
  <2>2. 0 \in 0..N /\ \A i \in 1..N : i \in 0..N /\ i # 0
    BY <1>1
  <2> HIDE DEF N, first
  <2> QED BY <2>1, <2>2
<1>4. CopyInv(g[0], t, h, copier, short, 0)
  <2>1. IsHash(Created(N), h) /\ Pairs(Created(N)) = {}
    BY <1>1, CreatedIs
  <2>2. \A j \in Occupied(t) : ~(j < 0)
    <3>1. CASE t = NoTable
      BY <3>1, NothingCounted
    <3>2. CASE t # NoTable
      <4>1. PICK n \in Nat \ {0} : DOMAIN t = 0..(n - 1)
        BY <3>2 DEF IsHash, IsTable
      <4> QED BY <4>1 DEF Occupied
    <3> QED BY <3>1, <3>2
  <2>3. GoesTo(t, copier, short, 0)
    BY <2>2 DEF GoesTo
  <2>4. CopiesBefore(t, copier, 0) = {}
    BY <2>2 DEF CopiesBefore
  <2> HIDE DEF N
  <2>5. /\ g[0].table = Created(N) /\ g[0].failed = FALSE /\ g[0].inHand = {}
        /\ g[0] = [table |-> g[0].table, failed |-> g[0].failed, inHand |-> g[0].inHand]
    BY <1>3 DEF CopyOf
  <2> QED BY <2>1, <2>3, <2>4, <2>5, Zenon DEF CopyInv
<1>5. CASE t = NoTable
  <2>1. N = 0 /\ Occupied(t) = {}
    BY <1>5, NothingCounted
  <2> HIDE DEF N
  <2> QED BY <1>2, <1>4, <2>1
<1>6. CASE t # NoTable
  <2>1. PICK n \in Nat \ {0} : IsTable(t, n, h0)
    BY <1>6 DEF IsHash
  <2>2. N = n /\ DOMAIN t = 0..(n - 1)
    BY <2>1, SizeIs DEF IsTable
  <2> HIDE DEF N
  <2> DEFINE P == {i \in Nat : i <= n => CopyInv(g[i], t, h, copier, short, i)}
  <2>3. 0 \in P
    BY <1>4
  <2>4. ASSUME NEW i \in Nat, i \in P PROVE i + 1 \in P
    <3> SUFFICES ASSUME i + 1 <= n PROVE CopyInv(g[i + 1], t, h, copier, short, i + 1)
      OBVIOUS
    <3>1. /\ i \in 0..(n - 1) /\ i + 1 \in 1..n /\ (i + 1) - 1 = i
          /\ CopyInv(g[i], t, h, copier, short, i)
      BY <2>4
    <3>2. g[i + 1] = CopyInto(t, g[i], i, h, copier, short)
      BY <1>3, <2>2, <3>1
    <3> QED BY <2>1, <3>1, <3>2, CopyStep
  <2> HIDE DEF P
  <2>5. n \in P
    BY <2>3, <2>4, Induct
  <2>6. CopyInv(g[n], t, h, copier, short, n)
    BY <2>5 DEF P
  <2>7. \A j \in Occupied(t) : j \in Nat /\ j < n
    BY <2>2 DEF Occupied
  <2> QED BY <1>2, <2>2, <2>6, <2>7
<1> QED BY <1>5, <1>6

(* What is found in the copies of the first u slots.                       *)
LEMMA CopiesFound ==
  ASSUME NEW r, NEW h, IsHash(r, h), NEW t, NEW copier, NEW u,
         Pairs(r) = CopiesBefore(t, copier, u)
  PROVE  /\ KeysIn(r) = {t[j].key : j \in {x \in Occupied(t) : x < u}}
         /\ \A j \in Occupied(t) : j < u =>
              t[j].key \in KeysIn(r) /\ Contents(r)[t[j].key] = PayloadCopy(t, j, copier)
<1> DEFINE B == {x \in Occupied(t) : x < u}
           Pair(j) == <<t[j].key, PayloadCopy(t, j, copier)>>
<1>1. Pairs(r) = {Pair(j) : j \in B}
  BY DEF CopiesBefore
<1>2. \A j \in B : Pair(j)[1] = t[j].key
  OBVIOUS
<1>3. {z[1] : z \in {Pair(j) : j \in B}} = {Pair(j)[1] : j \in B}
  OBVIOUS
<1>4. KeysIn(r) = {t[j].key : j \in B}
  BY <1>1, <1>2, <1>3, KeysOfPairs
<1>5. ASSUME NEW j \in Occupied(t), j < u
      PROVE  t[j].key \in KeysIn(r) /\ Contents(r)[t[j].key] = PayloadCopy(t, j, copier)
  <2>1. Pair(j) \in Pairs(r)
    BY <1>1, <1>5
  <2> QED BY <2>1, HashPairs
<1> QED BY <1>4, <1>5

(* xmlHashFree calls deallocFunc once for each of them.                    *)
LEMMA CopiesDropped ==
  ASSUME NEW r, NEW h, IsHash(r, h), NEW t, NEW copier, NEW short, NEW u,
         GoesTo(t, copier, short, u), Pairs(r) = CopiesBefore(t, copier, u)
  PROVE  /\ Deallocated(r) = {t[j].key : j \in {x \in Occupied(t) : x < u}}
         /\ Cardinality(Deallocated(r)) = Cardinality(Occupied(r))
<1>1. ASSUME NEW i \in Occupied(r) PROVE Called(r, i)
  <2>1. <<r[i].key, r[i].payload>> \in CopiesBefore(t, copier, u)
    BY DEF Pairs
  <2>2. PICK j \in Occupied(t) : j < u /\ r[i].payload = PayloadCopy(t, j, copier)
    BY <2>1 DEF CopiesBefore
  <2>3. r[i].payload # NoData
    BY <2>2 DEF GoesTo, CopyStops
  <2> QED BY <2>3 DEF Called, Occupied
<1>2. {i \in DOMAIN r : Called(r, i)} = Occupied(r)
  BY <1>1 DEF Called, Occupied
<1>3. Deallocated(r) = KeysIn(r)
  BY <1>2 DEF Deallocated, KeysIn
<1>4. Cardinality(KeysIn(r)) = Cardinality(Occupied(r))
  <2>1. CASE r = NoTable
    <3>1. KeysIn(r) = Occupied(r)
      BY <2>1, NothingCounted
    <3> QED BY <3>1
  <2>2. CASE r # NoTable
    <3>1. PICK n \in Nat \ {0} : IsTable(r, n, h)
      BY <2>2 DEF IsHash
    <3> QED BY <3>1, KeysCounted
  <2> QED BY <2>1, <2>2
<1> QED BY <1>3, <1>4, CopiesFound

(* A copy that was made.                                                   *)
LEMMA CopyMade ==
  ASSUME NEW t, NEW h, NEW h0, IsHash(t, h0), \A k \in Keys : h[k] \in Nat,
         NEW copier, NEW short, NEW c, NEW n \in Nat,
         CopyInv(c, t, h, copier, short, n), \A j \in Occupied(t) : j < n, ~c.failed
  PROVE  /\ ~\E i \in Occupied(t) : CopyStops(t, i, copier, short)
         /\ KeysIn(c.table) = KeysIn(t)
         /\ \A i \in Occupied(t) :
              xmlHashLookup3(c.table, t[i].key, h[t[i].key]) = PayloadCopy(t, i, copier)
<1> DEFINE r == c.table
<1>1. IsHash(r, h) /\ GoesTo(t, copier, short, n) /\ Pairs(r) = CopiesBefore(t, copier, n)
  BY DEF CopyInv
<1> HIDE DEF r
<1>2. /\ KeysIn(r) = {t[j].key : j \in {x \in Occupied(t) : x < n}}
      /\ \A j \in Occupied(t) : j < n =>
           t[j].key \in KeysIn(r) /\ Contents(r)[t[j].key] = PayloadCopy(t, j, copier)
  BY <1>1, CopiesFound
<1>3. {x \in Occupied(t) : x < n} = Occupied(t)
  OBVIOUS
<1>4. KeysIn(r) = KeysIn(t)
  BY <1>2, <1>3 DEF KeysIn
<1>5. ASSUME NEW i \in Occupied(t)
      PROVE  xmlHashLookup3(r, t[i].key, h[t[i].key]) = PayloadCopy(t, i, copier)
  <2>1. t[i].key \in KeysIn(r) /\ Contents(r)[t[i].key] = PayloadCopy(t, i, copier)
    BY <1>2
  <2>2. t[i].key \in Keys
    <3>1. t # NoTable
      BY NothingCounted
    <3>2. PICK m \in Nat \ {0} : IsTable(t, m, h0)
      BY <3>1 DEF IsHash
    <3> QED BY <3>2 DEF IsTable, Occupied, Used, Slots
  <2> QED BY <1>1, <2>1, <2>2, LookupIs
<1> QED BY <1>1, <1>4, <1>5 DEF GoesTo, r

(* A copy that was given up in slot u: the entries whose payload was copied*)
(* are those before u, and perhaps u.                                      *)
MadeCopies(t, copier, short) ==
  {i \in Occupied(t) : /\ \A j \in Occupied(t) : j < i => ~CopyStops(t, j, copier, short)
                       /\ PayloadCopy(t, i, copier) # NoData}

LEMMA MadeIs ==
  ASSUME NEW t, NEW copier, NEW short, \A j \in Occupied(t) : j \in Nat,
         NEW u \in Occupied(t), GoesTo(t, copier, short, u), CopyStops(t, u, copier, short)
  PROVE  MadeCopies(t, copier, short) =
           {x \in Occupied(t) : x < u} \cup IF PayloadCopy(t, u, copier) = NoData THEN {} ELSE {u}
<1>1. ASSUME NEW i \in Occupied(t)
      PROVE  i \in MadeCopies(t, copier, short)
               <=> i < u \/ (i = u /\ PayloadCopy(t, u, copier) # NoData)
  <2>1. i \in Nat /\ u \in Nat
    OBVIOUS
  <2>2. CASE i < u
    <3>1. \A j \in Occupied(t) : j < i => j < u
      BY <2>1, <2>2
    <3> QED BY <2>2, <3>1 DEF MadeCopies, GoesTo, CopyStops
  <2>3. CASE i = u
    <3>1. ~(u < u)
      BY <2>1
    <3> QED BY <2>3, <3>1 DEF MadeCopies, GoesTo
  <2>4. CASE u < i
    <3>1. ~(i < u) /\ i # u
      BY <2>1, <2>4
    <3> QED BY <2>4, <3>1 DEF MadeCopies
  <2> QED BY <2>1, <2>2, <2>3, <2>4
<1>2. MadeCopies(t, copier, short) \subseteq Occupied(t)
  BY DEF MadeCopies
<1> QED BY <1>1, <1>2

LEMMA CopyDropped ==
  ASSUME NEW t, NEW h, NEW h0, IsHash(t, h0), NEW copier, NEW short, NEW c, NEW n \in Nat,
         CopyInv(c, t, h, copier, short, n), \A j \in Occupied(t) : j \in Nat, c.failed
  PROVE  /\ \E i \in Occupied(t) : CopyStops(t, i, copier, short)
         /\ Deallocated(c.table) \cup c.inHand = {t[i].key : i \in MadeCopies(t, copier, short)}
         /\ Deallocated(c.table) \cap c.inHand = {}
         /\ Cardinality(Deallocated(c.table)) = Cardinality(Occupied(c.table))
<1> DEFINE r == c.table
           B(u) == {x \in Occupied(t) : x < u}
<1>1. PICK u \in Nat : /\ GoesTo(t, copier, short, u) /\ Pairs(r) = CopiesBefore(t, copier, u)
                       /\ StoppedAt(c, t, copier, short, u)
  BY DEF CopyInv
<1>2. IsHash(r, h)
  BY DEF CopyInv
<1> HIDE DEF r
<1>3. /\ u \in Occupied(t) /\ CopyStops(t, u, copier, short)
      /\ c.inHand = IF PayloadCopy(t, u, copier) = NoData THEN {} ELSE {t[u].key}
  BY <1>1 DEF StoppedAt
<1>4. /\ Deallocated(r) = {t[j].key : j \in B(u)}
      /\ Cardinality(Deallocated(r)) = Cardinality(Occupied(r))
  BY <1>1, <1>2, CopiesDropped
<1>5. MadeCopies(t, copier, short)
        = B(u) \cup IF PayloadCopy(t, u, copier) = NoData THEN {} ELSE {u}
  BY <1>1, <1>3, MadeIs
<1>6. Deallocated(r) \cup c.inHand = {t[i].key : i \in MadeCopies(t, copier, short)}
  <2> HIDE DEF B
  <2>1. CASE PayloadCopy(t, u, copier) = NoData
    BY <1>3, <1>4, <1>5, <2>1
  <2>2. CASE PayloadCopy(t, u, copier) # NoData
    <3>1. MadeCopies(t, copier, short) = B(u) \cup {u} /\ c.inHand = {t[u].key}
      BY <1>3, <1>5, <2>2
    <3> QED BY <1>4, <3>1
  <2> QED BY <2>1, <2>2
<1>7. t[u].key \notin Deallocated(r)
  <2> SUFFICES ASSUME NEW j \in B(u), t[j].key = t[u].key PROVE FALSE
    BY <1>4
  <2>1. j \in Occupied(t) /\ j # u
    OBVIOUS
  <2>2. t # NoTable
    BY <1>3, NothingCounted
  <2>3. PICK m \in Nat \ {0} : IsTable(t, m, h0)
    BY <2>2 DEF IsHash
  <2> QED BY <1>3, <2>1, <2>3 DEF IsTable, Occupied
<1> QED BY <1>3, <1>4, <1>6, <1>7 DEF r

LEMMA CopyInvIs ==
  ASSUME RobinInv
  PROVE  CopyFaithful
<1> SUFFICES ASSUME NEW r \in Reseeds, NEW copier \in Copiers,
                    NEW short \in Occupied(table) \cup {-1}
             PROVE  LET h == [k \in Keys |-> r[hash[k]]]
                        c == xmlHashCopySafe(table, h, copier, short)
                    IN  /\ c.failed <=> \E i \in Occupied(table) : CopyStops(table, i, copier, short)
                        /\ ~c.failed =>
                             /\ KeysIn(c.table) = KeysIn(table)
                             /\ \A i \in Occupied(table) :
                                  xmlHashLookup3(c.table, table[i].key, h[table[i].key])
                                    = PayloadCopy(table, i, copier)
                        /\ c.failed =>
                             /\ Deallocated(c.table) \cup c.inHand
                                  = {table[i].key : i \in MadeCopies(table, copier, short)}
                             /\ Deallocated(c.table) \cap c.inHand = {}
                             /\ Cardinality(Deallocated(c.table)) = Cardinality(Occupied(c.table))
  BY Zenon DEF CopyFaithful, MadeCopies
<1> DEFINE h == [k \in Keys |-> r[hash[k]]]
           c == xmlHashCopySafe(table, h, copier, short)
<1>1. IsHash(table, hash) /\ hash \in [Keys -> HashValues] /\ r \in [HashValues -> Nat]
  BY SizesAssumption DEF RobinInv
<1>2. \A k \in Keys : h[k] \in Nat
  BY <1>1
<1> HIDE DEF h
<1>3. PICK n \in Nat : /\ CopyInv(c, table, h, copier, short, n)
                       /\ \A j \in Occupied(table) : j \in Nat /\ j < n
  BY <1>1, <1>2, CopyEnds
<1> HIDE DEF c
<1>4. ~c.failed =>
        /\ ~\E i \in Occupied(table) : CopyStops(table, i, copier, short)
        /\ KeysIn(c.table) = KeysIn(table)
        /\ \A i \in Occupied(table) :
             xmlHashLookup3(c.table, table[i].key, h[table[i].key])
               = PayloadCopy(table, i, copier)
  BY <1>1, <1>2, <1>3, CopyMade
<1>5. c.failed =>
        /\ \E i \in Occupied(table) : CopyStops(table, i, copier, short)
        /\ Deallocated(c.table) \cup c.inHand
             = {table[i].key : i \in MadeCopies(table, copier, short)}
        /\ Deallocated(c.table) \cap c.inHand = {}
        /\ Cardinality(Deallocated(c.table)) = Cardinality(Occupied(c.table))
  BY <1>1, <1>3, CopyDropped
<1>6. c.failed \in BOOLEAN
  BY <1>3 DEF CopyInv
<1> QED BY <1>4, <1>5, <1>6, Zenon DEF h, c

(* CopyFaithful, for every table, every copyFunc, every change of the hash *)
(* values and wherever memory runs out: a copy that is returned has the    *)
(* same entries, and one that is given up leaves no copy of a payload      *)
(* behind (hash.c:1110-1148).                                              *)
THEOREM RobinCopiesAll == HashSpec => []CopyFaithful
<1>1. RobinInv => CopyFaithful
  BY CopyInvIs
<1> QED BY <1>1, RobinAlways, PTL
=============================================================================
