----------------------------- MODULE RobinHood -----------------------------
(***************************************************************************)
(* The hash table of hash.c: open addressing with Robin Hood insertion and *)
(* backward shift deletion, growth by doubling, and a scan whose callback  *)
(* may remove the entry it is called for.                                  *)
(*                                                                         *)
(* A key stands for the triple (key, key2, key3).  The hash values of the  *)
(* keys are chosen with the table, as the random seed is; a copy of the    *)
(* table has hash values of its own.  Pointers into the table are indices; *)
(* memmove works on the function.                                          *)
(***************************************************************************)
EXTENDS Integers, FiniteSets, SequencesExt

CONSTANTS
  Keys,         \* keys
  NoKey,        \* hashValue = 0: the slot is not occupied
  Payloads,     \* payloads, with NoData
  NoData,       \* the NULL payload, which a scan skips
  HashValues,   \* values of xmlHashValue
  Reseeds,      \* how hash values change with the seed of a copy
  MinSize,      \* MIN_HASH_SIZE
  MaxSize,      \* MAX_HASH_SIZE
  FillNum,      \* MAX_FILL_NUM
  FillDenom,    \* MAX_FILL_DENOM
  CreateSizes,  \* arguments of xmlHashCreate
  Copiers       \* copyFunc: functions from payloads to payloads

ASSUME SizesAssumption ==
  /\ HashValues \subseteq Nat /\ CreateSizes \subseteq Nat
  /\ \A r \in Reseeds : r \in [HashValues -> Nat]
  /\ MinSize \in Nat \ {0} /\ MaxSize \in Nat /\ MinSize % FillDenom = 0
  /\ FillNum \in Nat \ {0} /\ FillDenom \in Nat /\ FillNum < FillDenom
ASSUME PayloadsAssumption ==
  /\ NoData \in Payloads /\ NoKey \notin Keys
  /\ Copiers \subseteq [Payloads -> Payloads]

VARIABLES
  hash,     \* hash value of each key, fixed by randomSeed
  table,    \* slots 0..size - 1
  nbElems,
  scan,     \* xmlHashScanFull: is one running, entry and i
  visited,  \* history: keys the callback saw in this scan, in order
  due       \* history: keys the scan has to call back for

hashVars == <<hash, table, nbElems, scan, visited, due>>

-----------------------------------------------------------------------------
NoTable == <<>>
Free == [hashValue |-> 0, key |-> NoKey, payload |-> NoData]
EmptyTable(size) == [i \in 0..(size - 1) |-> Free]

Size(t) == Cardinality(DOMAIN t)
Used(t, i) == t[i].key # NoKey

(* How far the entry at i is from where its key hashes to.                 *)
Displacement(t, i) == (i - t[i].hashValue) % Size(t)

(* The i-th slot after pos, around the end of the table.                   *)
Around(t, pos, i) == (pos + i) % Size(t)

LeastOf(S) == CHOOSE i \in S : \A j \in S : i <= j

(* memmove of n slots from src to dst.                                     *)
Memmove(t, dst, src, n) ==
  [i \in DOMAIN t |-> IF i \in dst..(dst + n - 1) THEN t[src + i - dst] ELSE t[i]]

(* The first slot that is not occupied at or after i.                      *)
NextFree(t, i) ==
  Around(t, i, LeastOf({n \in 0..(Size(t) - 1) : ~Used(t, Around(t, i, n))}))

-----------------------------------------------------------------------------
(* xmlHashFindEntry: the probe ends at an unoccupied slot, at an entry     *)
(* closer to its home than the probe, or at the key.                       *)
ProbeStops(t, k, hv) ==
  {d \in 0..(Size(t) - 1) :
     LET i == Around(t, hv, d)
     IN  ~Used(t, i) \/ Displacement(t, i) < d \/ t[i].key = k}

xmlHashFindEntry(t, k, hv) == Around(t, hv, LeastOf(ProbeStops(t, k, hv)))

HashFound(t, k, hv) == Size(t) > 0 /\ t[xmlHashFindEntry(t, k, hv)].key = k

(* xmlHashLookup3: NoData also when there is no entry.                     *)
xmlHashLookup3(t, k, hv) ==
  IF HashFound(t, k, hv) THEN t[xmlHashFindEntry(t, k, hv)].payload ELSE NoData

(* xmlHashGrow: the entries are copied from the start of a probe sequence, *)
(* each to the first unoccupied slot.                                      *)
HashMoved(new, e) ==
  IF e.key = NoKey THEN new
  ELSE [new EXCEPT ![NextFree(new, e.hashValue % Size(new))] = e]

xmlHashGrow(t, size) ==
  LET start == NextFree(t, 0)
      new[i \in 0..Size(t)] == IF i = 0 THEN EmptyTable(size)
                             ELSE HashMoved(new[i - 1], t[Around(t, start, i - 1)])
  IN  new[Size(t)]

(* Mutant: the last slot is not carried over to the first one.             *)
ShiftRightNoCarry(t, e) ==
  LET cur == NextFree(t, e)
  IN  IF ~Used(t, e) THEN t
      ELSE IF cur < e
      THEN Memmove(Memmove(t, 1, 0, cur), e + 1, e, Size(t) - 1 - e)
      ELSE Memmove(t, e + 1, e, cur - e)

(* The rest of the probe sequence is shifted to the right by one slot; the *)
(* shift may go around the end of the table.                               *)
ShiftRight(t, e) ==
  LET end == Size(t)
      cur == NextFree(t, e)
      wrapped == [Memmove(t, 1, 0, cur) EXCEPT ![0] = t[end - 1]]
  IN  IF ~Used(t, e) THEN t
      ELSE IF cur < e THEN Memmove(wrapped, e + 1, e, end - 1 - e)
      ELSE Memmove(t, e + 1, e, cur - e)

HashInserted(t, k, hv, v) ==
  LET e == xmlHashFindEntry(t, k, hv)
  IN  [ShiftRight(t, e) EXCEPT ![e] = [hashValue |-> hv, key |-> k, payload |-> v]]

(* Mutant: entries at their home slot are shifted as well.                 *)
ProbeEndRun(t, e) ==
  Around(t, e, LeastOf({n \in 0..(Size(t) - 1) : ~Used(t, Around(t, e, n + 1))}))

(* The last slot of the probe sequence that e belongs to: the next one is  *)
(* unoccupied, or starts a new sequence.                                   *)
ProbeEnd(t, e) ==
  LET last(n) == LET i == Around(t, e, n + 1)
                 IN  ~Used(t, i) \/ Displacement(t, i) = 0
  IN  Around(t, e, LeastOf({n \in 0..(Size(t) - 1) : last(n)}))

(* The backward shift of xmlHashRemoveEntry3.                              *)
Removed(t, e) ==
  LET end == Size(t)
      cur == ProbeEnd(t, e)
      wrapped == [Memmove(t, e, e + 1, end - 1 - e) EXCEPT ![end - 1] = t[0]]
      moved == IF cur < e THEN Memmove(wrapped, 0, 1, cur)
               ELSE Memmove(t, e, e + 1, cur - e)
  IN  [moved EXCEPT ![cur] = Free]

-----------------------------------------------------------------------------
NoScan == [on |-> FALSE, entry |-> 0, i |-> 0]

(* xmlHashCreate: no table at first, unless a large one is asked for.      *)
Doubled[j \in Nat] == IF j = 0 THEN MinSize ELSE 2 * Doubled[j - 1]

Created(n) ==
  IF n <= MinSize THEN NoTable
  ELSE EmptyTable(Doubled[LeastOf({j \in 1..n : Doubled[j] >= n \/ Doubled[j] >= MaxSize})])

HashInit ==
  /\ hash \in [Keys -> HashValues]
  /\ table \in {Created(n) : n \in CreateSizes}
  /\ nbElems = 0
  /\ scan = NoScan
  /\ visited = <<>>
  /\ due = {}

(* Between scans; a table may be changed from a callback only by removing  *)
(* the entry being scanned.                                                *)
HashIdle == ~scan.on

TooFull(t, n) == n + 1 > (Size(t) \div FillDenom) * FillNum

(* The size to grow to before an insertion into t with n entries, 0 for    *)
(* none.                                                                   *)
NewSize(t, n) == IF Size(t) = 0 THEN MinSize
                 ELSE IF TooFull(t, n) THEN Size(t) * 2 ELSE 0

UpdateFound(k, v, update) ==
  /\ HashIdle
  /\ HashFound(table, k, hash[k])
  /\ table' = IF update THEN [table EXCEPT ![xmlHashFindEntry(table, k, hash[k])].payload = v]
              ELSE table
  /\ UNCHANGED <<hash, nbElems, scan, visited, due>>

(* The key is new: the table grows if need be; then the copy of the key    *)
(* may still fail.                                                         *)
UpdateInsert(k, v, copied) ==
  LET size == NewSize(table, nbElems)
      t == IF size > 0 THEN xmlHashGrow(table, size) ELSE table
  IN  /\ HashIdle
      /\ ~HashFound(table, k, hash[k])
      /\ size > 0 => Size(table) < MaxSize
      /\ table' = IF copied THEN HashInserted(t, k, hash[k], v) ELSE t
      /\ nbElems' = IF copied THEN nbElems + 1 ELSE nbElems
      /\ UNCHANGED <<hash, scan, visited, due>>

(* xmlHashUpdateInternal; a failed allocation of the table changes nothing.*)
xmlHashUpdateInternal(k, v) ==
  \/ \E update \in BOOLEAN : UpdateFound(k, v, update)
  \/ \E copied \in BOOLEAN : UpdateInsert(k, v, copied)

xmlHashRemoveEntry3(k) ==
  /\ HashIdle
  /\ HashFound(table, k, hash[k])
  /\ table' = Removed(table, xmlHashFindEntry(table, k, hash[k]))
  /\ nbElems' = nbElems - 1
  /\ UNCHANGED <<hash, scan, visited, due>>

(* xmlHashFree, and a new table; one with another seed is another initial  *)
(* state.                                                                  *)
xmlHashFree ==
  /\ HashIdle
  /\ table' = NoTable
  /\ nbElems' = 0
  /\ UNCHANGED <<hash, scan, visited, due>>

Occupied(t) == {i \in DOMAIN t : Used(t, i)}
KeysIn(t) == {t[i].key : i \in Occupied(t)}
Called(t, i) == Used(t, i) /\ t[i].payload # NoData

(* A copy that is being made: the new table, whether it was given up, and  *)
(* the key whose payload was copied but not added.                         *)
CopyOf(t) == [table |-> t, failed |-> FALSE, inHand |-> {}]

(* What copyFunc makes of the payload in slot i.                           *)
PayloadCopy(src, i, copier) == copier[src[i].payload]

(* The table with the entry of slot i added under the hash values h.  The  *)
(* copy is created as large as the table: it is never too large to grow.   *)
CopyAdded(src, dst, i, h, copier) ==
  LET size == NewSize(dst, Cardinality(Occupied(dst)))
      t == IF size > 0 THEN xmlHashGrow(dst, size) ELSE dst
      k == src[i].key
  IN  HashInserted(t, k, h[k], PayloadCopy(src, i, copier))

(* Mutant: what copyFunc returns is not tested.                            *)
CopyIntoUntested(src, c, i, h, copier, short) ==
  IF c.failed \/ ~Used(src, i) THEN c
  ELSE IF i = short THEN [c EXCEPT !.failed = TRUE, !.inHand = {src[i].key}]
  ELSE [c EXCEPT !.table = CopyAdded(src, @, i, h, copier)]

(* The loop of xmlHashCopySafe: it gives up when copyFunc returns NULL, or *)
(* when the copy cannot be added for want of memory (in slot `short`).     *)
CopyInto(src, c, i, h, copier, short) ==
  IF c.failed \/ ~Used(src, i) THEN c
  ELSE IF PayloadCopy(src, i, copier) = NoData THEN [c EXCEPT !.failed = TRUE]
  ELSE IF i = short THEN [c EXCEPT !.failed = TRUE, !.inHand = {src[i].key}]
  ELSE [c EXCEPT !.table = CopyAdded(src, @, i, h, copier)]

(* xmlHashCopySafe: entries are added to a new table, with its own hash    *)
(* values h, in the order of the slots.  When it gives up, deallocFunc is  *)
(* called for the payload in hand, xmlHashFree calls it for those in the   *)
(* new table, and NULL is returned.                                        *)
xmlHashCopySafe(t, h, copier, short) ==
  LET c[i \in 0..Size(t)] ==
        IF i = 0 THEN CopyOf(Created(Size(t)))
        ELSE CopyInto(t, c[i - 1], i - 1, h, copier, short)
  IN  c[Size(t)]

-----------------------------------------------------------------------------
(* Mutant: the scan starts at the first slot.                              *)
ScanStartAtZero ==
  /\ HashIdle
  /\ Size(table) > 0
  /\ scan' = [on |-> TRUE, entry |-> 0, i |-> 0]
  /\ visited' = <<>>
  /\ due' = {table[i].key : i \in {j \in DOMAIN table : Called(table, j)}}
  /\ UNCHANGED <<hash, table, nbElems>>

(* xmlHashScanFull starts at an unoccupied slot, so that a deletion never  *)
(* moves an entry across the start.                                        *)
ScanStart ==
  /\ HashIdle
  /\ Size(table) > 0
  /\ scan' = [on |-> TRUE, entry |-> NextFree(table, 0), i |-> 0]
  /\ visited' = <<>>
  /\ due' = {table[i].key : i \in {j \in DOMAIN table : Called(table, j)}}
  /\ UNCHANGED <<hash, table, nbElems>>

Advanced == [scan EXCEPT !.entry = Around(table, @, 1), !.i = @ + 1]

ScanSkip ==
  /\ scan.on /\ scan.i < Size(table)
  /\ ~Called(table, scan.entry)
  /\ scan' = Advanced
  /\ UNCHANGED <<hash, table, nbElems, visited, due>>

(* The callback; when it removed the entry and another one took its place, *)
(* that one is scanned before the scan moves on.                           *)
ScanCall(remove) ==
  LET e == scan.entry
      k == table[e].key
      t == IF remove THEN Removed(table, xmlHashFindEntry(table, k, hash[k])) ELSE table
  IN  /\ scan.on /\ scan.i < Size(table)
      /\ Called(table, e)
      /\ visited' = Append(visited, k)
      /\ table' = t
      /\ nbElems' = IF remove THEN nbElems - 1 ELSE nbElems
      /\ scan' = IF Called(t, e) /\ t[e].key # k THEN scan ELSE Advanced
      /\ UNCHANGED <<hash, due>>

ScanEnd ==
  /\ scan.on /\ scan.i = Size(table)
  /\ scan' = NoScan
  /\ visited' = <<>>
  /\ due' = {}
  /\ UNCHANGED <<hash, table, nbElems>>

HashNext ==
  \/ \E k \in Keys, v \in Payloads : xmlHashUpdateInternal(k, v)
  \/ \E k \in Keys : xmlHashRemoveEntry3(k)
  \/ xmlHashFree
  \/ ScanStart \/ ScanSkip \/ ScanEnd
  \/ \E remove \in BOOLEAN : ScanCall(remove)

HashSpec == HashInit /\ [][HashNext]_hashVars

-----------------------------------------------------------------------------
(* Every key in the table is found by the probe, which aborts at an entry  *)
(* with a smaller displacement, and no key is there twice, over any order  *)
(* of insertions, growth and deletions around the end of the table         *)
(* (hash.c:284-335).  A search for any other key ends too: at least one    *)
(* slot is unoccupied, and nbElems, by which the table grows, is the       *)
(* number of the others, also after a copy of a key that failed            *)
(* (hash.c:304-330, 369-372, 448, 515-523, 543-547, 985-988).              *)
EveryKeyFound ==
  /\ nbElems = Cardinality(Occupied(table))
  /\ table # NoTable => \E i \in DOMAIN table : ~Used(table, i)
  /\ Cardinality(KeysIn(table)) = Cardinality(Occupied(table))
  /\ \A k \in KeysIn(table) : HashFound(table, k, hash[k])

(* A scan calls back exactly once for every entry that has a payload, also *)
(* when the callback removes the entries (hash.c:974-1013).                *)
ScanOnce ==
  /\ IsInjective(visited)
  /\ scan.on => ToSet(visited) \subseteq due
  /\ scan.on /\ scan.i = Size(table) => ToSet(visited) = due

Contents(t) ==
  [k \in KeysIn(t) |-> t[CHOOSE i \in DOMAIN t : t[i].key = k].payload]

(* The entry of slot i stops the copy.                                     *)
CopyStops(t, i, copier, short) == PayloadCopy(t, i, copier) = NoData \/ i = short

(* xmlHashFree calls deallocFunc for the entries that have a payload.      *)
Deallocated(t) == {t[i].key : i \in {j \in DOMAIN t : Called(t, j)}}

(* xmlHashCopySafe returns a copy that holds the same entries with their   *)
(* payloads copied, whatever its seed, unless the copy of a payload is     *)
(* NULL or cannot be added.  Then every copy of a payload that was made is *)
(* given to deallocFunc, once: those in the new table, and the one that    *)
(* did not get there (hash.c:1110-1148).                                   *)
CopyFaithful ==
  HashIdle => \A r \in Reseeds, copier \in Copiers, short \in Occupied(table) \cup {-1} :
    LET h == [k \in Keys |-> r[hash[k]]]
        c == xmlHashCopySafe(table, h, copier, short)
        made == {i \in Occupied(table) :
                   /\ \A j \in Occupied(table) : j < i => ~CopyStops(table, j, copier, short)
                   /\ PayloadCopy(table, i, copier) # NoData}
    IN  /\ c.failed <=> \E i \in Occupied(table) : CopyStops(table, i, copier, short)
        /\ ~c.failed =>
             /\ KeysIn(c.table) = KeysIn(table)
             /\ \A i \in Occupied(table) :
                  LET k == table[i].key
                  IN  xmlHashLookup3(c.table, k, h[k]) = PayloadCopy(table, i, copier)
        /\ c.failed =>
             /\ Deallocated(c.table) \cup c.inHand = {table[i].key : i \in made}
             /\ Deallocated(c.table) \cap c.inHand = {}
             /\ Cardinality(Deallocated(c.table)) = Cardinality(Occupied(c.table))

(* The table implements a map.                                             *)
Map == INSTANCE HashMap WITH map <- Contents(table)

ImplementsHashMap == Map!Spec

=============================================================================
