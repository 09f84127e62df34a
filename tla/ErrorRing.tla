----------------------------- MODULE ErrorRing -----------------------------
(***************************************************************************)
(* The error pipeline of a parser context: xmlCtxtVErr with its limits and *)
(* its suppression of repeated errors, the per-context ring of the last    *)
(* errors, and the process-wide list of ring entries that both share       *)
(* (parserInternals.c, error.c).                                           *)
(*                                                                         *)
(* An error is a record: its fingerprint is the record itself (the 64-bit  *)
(* FNV hash is taken to be injective), `level` decides how it counts and   *)
(* `kind` whether it stops the parser.  Calls that touch the list hold     *)
(* xmlErrorRingMutex and are single steps; xmlCtxtVErr is two steps, since *)
(* the application's error handler runs between the report and the store   *)
(* and may call back into the same API.                                    *)
(***************************************************************************)
EXTENDS Integers, Sequences, FiniteSets

CONSTANTS
  Ctxts,        \* addresses of parser contexts (reused after a free)
  Errors,       \* [id, level, kind]: the errors a document can raise
  NoError,      \* XML_ERR_OK: an empty slot, no last error
  MaxErrors,    \* XML_MAX_ERRORS
  DedupSize,    \* XML_ERROR_DEDUP_DEFAULT_SIZE
  RingSizes,    \* arguments of xmlCtxtSetErrorRingSize
  DedupLimits,  \* arguments of xmlCtxtSetErrorDedup
  AllocFails,   \* allocations that may fail: subset of AllocSites
  WarnDefaults  \* values xmlGetWarningsDefaultValue may have

Levels == {"warning", "error", "fatal"}
Kinds == {"plain", "stop", "catastrophic"}
AllocSites == {"entry", "dedup", "raise", "ring", "copy"}

(* Errors the library itself raises.                                       *)
LimitNotice(level) == [id |-> "RESOURCE_LIMIT", level |-> level, kind |-> "stop"]
MemoryError == [id |-> "NO_MEMORY", level |-> "fatal", kind |-> "catastrophic"]
UserStop(level) == [id |-> "USER_STOP", level |-> level, kind |-> "plain"]

(* Every error the ring can hold.                                          *)
Storable ==
  Errors \cup {LimitNotice(l) : l \in Levels} \cup {MemoryError}
    \cup {UserStop(l) : l \in Levels \cup {"none"}}

ASSUME ErrorsAssumption ==
  /\ \A e \in Errors : e.level \in Levels /\ e.kind \in Kinds
  /\ NoError \notin Storable
ASSUME BoundsAssumption ==
  /\ MaxErrors \in Nat \ {0} /\ DedupSize \in Nat \ {0}
  /\ RingSizes \subseteq Nat /\ DedupLimits \subseteq Nat
  /\ AllocFails \subseteq AllocSites /\ WarnDefaults \subseteq BOOLEAN

VARIABLES
  ctxt,       \* per address: the fields of xmlParserCtxt used here
  ringList,   \* xmlErrorRingList, head first
  reporting,  \* per address: the error whose handler runs, if one does
  warnOn,     \* xmlGetWarningsDefaultValue of the thread
  seen        \* history: what the application was told, per address

ringVars == <<ctxt, ringList, reporting, warnOn, seen>>

-----------------------------------------------------------------------------
(* The list of ring entries.                                               *)

(* A NULL array: no slots. *)
Null == <<>>

NewEntry(c) ==
  [ctxt |-> c, errors |-> Null, size |-> 0, count |-> 0, next |-> 0,
   dedupLimit |-> 0, dedup |-> Null, dedupCount |-> 0, dedupNext |-> 0]

Positions(c) == {i \in 1..Len(ringList) : ringList[i].ctxt = c}

(* xmlErrorRingLookup: the first entry of the context, 0 if there is none. *)
RingLookup(c) ==
  IF Positions(c) = {} THEN 0
  ELSE CHOOSE i \in Positions(c) : \A j \in Positions(c) : i <= j

HasEntry(c) == RingLookup(c) # 0
EntryOf(c) == ringList[RingLookup(c)]

Replace(c, entry) == [ringList EXCEPT ![RingLookup(c)] = entry]

Unlinked(i) ==
  [j \in 1..(Len(ringList) - 1) |->
     IF j < i THEN ringList[j] ELSE ringList[j + 1]]

EmptyDedup == [i \in 0..(DedupSize - 1) |-> [fingerprint |-> NoError, count |-> 0]]

(* xmlErrorDedupReset *)
DedupReset(entry) ==
  IF entry.dedup = Null THEN entry
  ELSE [entry EXCEPT !.dedup = EmptyDedup, !.dedupCount = 0, !.dedupNext = 0]

(* xmlErrorRingClear: drops the errors and, as a side effect, the counts   *)
(* of the repeated ones.                                                   *)
RingClear(entry) ==
  DedupReset(
    IF entry.errors = Null THEN entry
    ELSE [entry EXCEPT !.errors = [i \in 0..(entry.size - 1) |-> NoError],
                       !.count = 0, !.next = 0])

-----------------------------------------------------------------------------
(* Suppression of repeated errors: xmlCtxtErrorDedupShouldSuppress.        *)

DedupOn(c) ==
  /\ HasEntry(c)
  /\ EntryOf(c).dedupLimit > 0
  /\ EntryOf(c).dedup # Null

Known(c, e) ==
  {i \in 0..(EntryOf(c).dedupCount - 1) : EntryOf(c).dedup[i].fingerprint = e}

Enters(c, e) == DedupOn(c) /\ Known(c, e) = {}

(* Mutant: the occurrence being raised is not counted.                     *)
SuppressOneLate(c, e) ==
  /\ DedupOn(c)
  /\ \E i \in Known(c, e) : EntryOf(c).dedup[i].count > EntryOf(c).dedupLimit

(* The occurrence being raised is the count + 1st.                         *)
ShouldSuppress(c, e) ==
  /\ DedupOn(c)
  /\ \E i \in Known(c, e) : EntryOf(c).dedup[i].count + 1 > EntryOf(c).dedupLimit

(* A full table evicts round-robin.  The count saturates one above the     *)
(* limit here; the code's unsigned int runs on.                            *)
DedupNote(entry, e) ==
  LET slots == {i \in 0..(entry.dedupCount - 1) : entry.dedup[i].fingerprint = e}
      fresh == [fingerprint |-> e, count |-> 1]
  IN  IF slots # {}
      THEN LET i == CHOOSE i \in slots : \A j \in slots : i <= j
               n == entry.dedup[i].count
           IN  [entry EXCEPT !.dedup[i].count =
                                IF n > entry.dedupLimit THEN n ELSE n + 1]
      ELSE IF entry.dedupCount < DedupSize
      THEN [entry EXCEPT !.dedup[entry.dedupCount] = fresh, !.dedupCount = @ + 1]
      ELSE [entry EXCEPT !.dedup[entry.dedupNext] = fresh,
                         !.dedupNext = (@ + 1) % DedupSize]

ListAfterNote(c, e) ==
  IF DedupOn(c) THEN Replace(c, DedupNote(EntryOf(c), e)) ELSE ringList

-----------------------------------------------------------------------------
(* Contexts.                                                               *)

FreshCtxt(recovery) ==
  [alive |-> TRUE, recovery |-> recovery, nbErrors |-> 0, nbWarnings |-> 0,
   wellFormed |-> TRUE, disableSAX |-> 0, errNo |-> FALSE,
   lastError |-> NoError, inHandler |-> FALSE]

(* limit: the repeat limit the application configured; fatal: a fatal      *)
(* error was raised; recorded: one became the last error; reports: how     *)
(* often an error was reported since it entered the repeat table.          *)
NothingSeen ==
  [limit |-> 0, fatal |-> FALSE, recorded |-> FALSE,
   reports |-> [e \in Errors |-> 0]]

RingInit ==
  /\ ctxt = [c \in Ctxts |-> [FreshCtxt(FALSE) EXCEPT !.alive = FALSE]]
  /\ ringList = <<>>
  /\ reporting = [c \in Ctxts |-> NoError]
  /\ warnOn \in WarnDefaults
  /\ seen = [c \in Ctxts |-> NothingSeen]

(* xmlNewParserCtxt, with or without XML_PARSE_RECOVER.                    *)
xmlNewParserCtxt(c, recovery) ==
  /\ ~ctxt[c].alive
  /\ ctxt' = [ctxt EXCEPT ![c] = FreshCtxt(recovery)]
  /\ seen' = [seen EXCEPT ![c] = NothingSeen]
  /\ UNCHANGED <<ringList, reporting, warnOn>>

(* No call of xmlCtxtVErr is under way.                                    *)
Idle(c) == ctxt[c].alive /\ ~ctxt[c].inHandler

(* xmlCtxtReset: the next document.  Ring and repeat counts survive it.    *)
xmlCtxtReset(c) ==
  /\ Idle(c)
  /\ ctxt' = [ctxt EXCEPT ![c] = FreshCtxt(@.recovery)]
  /\ seen' = [seen EXCEPT ![c] = [NothingSeen EXCEPT !.limit = seen[c].limit,
                                                     !.reports = seen[c].reports]]
  /\ UNCHANGED <<ringList, reporting, warnOn>>

LevelOf(e) == IF e = NoError THEN "none" ELSE e.level

(* The application has control: between two calls of the parser, or in the *)
(* handler that xmlCtxtVErr runs.                                          *)
Callable(c) == ctxt[c].alive /\ (ctxt[c].inHandler => reporting[c] # NoError)

(* xmlStopParser, often called from an error handler.  The handler of a    *)
(* warning looks at the very error that becomes XML_ERR_USER_STOP.         *)
xmlStopParser(c) ==
  LET x == ctxt[c]
      stop == UserStop(LevelOf(x.lastError))
  IN  /\ Callable(c)
      /\ ctxt' = [ctxt EXCEPT ![c] =
                    IF x.errNo THEN [x EXCEPT !.disableSAX = 2]
                    ELSE [x EXCEPT !.disableSAX = 2, !.errNo = TRUE, !.wellFormed = FALSE,
                                   !.lastError = stop]]
      /\ reporting' = IF x.inHandler /\ ~x.errNo THEN [reporting EXCEPT ![c] = stop]
                      ELSE reporting
      /\ UNCHANGED <<ringList, warnOn, seen>>

-----------------------------------------------------------------------------
(* xmlCtxtVErr.                                                            *)

Catastrophic(e) == LevelOf(e) = "fatal" /\ e.kind = "catastrophic"

CanRaise(c) ==
  /\ Idle(c)
  /\ ctxt[c].disableSAX < 2
  /\ ~Catastrophic(ctxt[c].lastError)

(* xmlVRaiseError drops warnings when they are disabled for the thread.    *)
Muted(e) == e.level = "warning" /\ ~warnOn

(* Mutant: the limit also cuts off the first fatal error.                  *)
CutOffAlways(c, e) ==
  IF e.level = "warning" THEN ctxt[c].nbWarnings >= MaxErrors
  ELSE e.kind = "plain" /\ ctxt[c].nbErrors >= MaxErrors

(* "Report at least one fatal error."                                      *)
CutOff(c, e) ==
  IF e.level = "warning" THEN ctxt[c].nbWarnings >= MaxErrors
  ELSE /\ e.kind = "plain"
       /\ ctxt[c].nbErrors >= MaxErrors
       /\ e.level # "fatal" \/ ~ctxt[c].wellFormed

(* The flags and counters of a context that takes the error e.             *)
Counted(x, e, suppress) ==
  LET more == IF suppress THEN 0 ELSE 1
  IN  IF e.level = "warning" THEN [x EXCEPT !.nbWarnings = @ + more]
      ELSE [x EXCEPT !.nbErrors = @ + more,
                     !.errNo = TRUE,
                     !.wellFormed = @ /\ e.level # "fatal",
                     !.disableSAX = IF e.kind # "plain" THEN 2
                                    ELSE IF e.level = "fatal" /\ ~x.recovery
                                    THEN 1 ELSE @]

WithLast(x, e) == IF Muted(e) THEN x ELSE [x EXCEPT !.lastError = e]

(* xmlCtxtErrMemory: always told to the application, never in the ring.    *)
OutOfMemory(x) ==
  [x EXCEPT !.errNo = TRUE, !.wellFormed = FALSE, !.disableSAX = 2,
            !.lastError = MemoryError]

(* The error is cut off by XML_MAX_ERRORS; the first time, the application *)
(* is told so (xmlCtxtReportErrorLimit).                                   *)
VErrLimited(c, e) ==
  LET first == IF e.level = "warning" THEN ctxt[c].nbWarnings = MaxErrors
               ELSE ctxt[c].nbErrors = MaxErrors
      x == IF e.level = "warning" THEN [ctxt[c] EXCEPT !.nbWarnings = @ + 1]
           ELSE [ctxt[c] EXCEPT !.nbErrors = @ + 1]
  IN  /\ CanRaise(c)
      /\ ~ShouldSuppress(c, e)
      /\ CutOff(c, e)
      /\ ctxt' = IF first
                 THEN [ctxt EXCEPT ![c] = WithLast(x, LimitNotice(e.level))]
                 ELSE ctxt
      /\ seen' = [seen EXCEPT ![c].fatal = @ \/ e.level = "fatal",
                              ![c].reports[e] = IF Enters(c, e) THEN 0 ELSE @]
      /\ ringList' = ListAfterNote(c, e)
      /\ UNCHANGED <<reporting, warnOn>>

(* A repeated error: counted in the flags and kept as the last error       *)
(* (xmlVUpdateErrorNoCallback), but not reported.                          *)
VErrSuppressed(c, e) ==
  /\ CanRaise(c)
  /\ ShouldSuppress(c, e)
  /\ LET x == Counted(ctxt[c], e, TRUE)
     IN  \/ ctxt' = [ctxt EXCEPT ![c] = WithLast(x, e)]
         \/ /\ "raise" \in AllocFails /\ ~Muted(e)
            /\ ctxt' = [ctxt EXCEPT ![c] = OutOfMemory(x)]
  /\ seen' = [seen EXCEPT ![c].fatal = @ \/ e.level = "fatal",
                          ![c].recorded = @ \/ e.level = "fatal"]
  /\ ringList' = ListAfterNote(c, e)
  /\ UNCHANGED <<reporting, warnOn>>

(* The error is reported; the handler runs until StoreErrorRing.  There is *)
(* none for a muted warning, for which xmlVRaiseError returns 0 all the    *)
(* same, with the last error as it was.                                    *)
VErrReport(c, e) ==
  /\ CanRaise(c)
  /\ ~ShouldSuppress(c, e)
  /\ ~CutOff(c, e)
  /\ LET x == Counted(ctxt[c], e, FALSE)
     IN  \/ /\ ctxt' = [ctxt EXCEPT ![c] = [WithLast(x, e) EXCEPT !.inHandler = TRUE]]
            /\ reporting' = IF Muted(e) THEN reporting ELSE [reporting EXCEPT ![c] = e]
         \/ /\ "raise" \in AllocFails /\ ~Muted(e)
            /\ ctxt' = [ctxt EXCEPT ![c] = OutOfMemory(x)]
            /\ UNCHANGED reporting
  /\ seen' = [seen EXCEPT
       ![c].fatal = @ \/ e.level = "fatal",
       ![c].recorded = @ \/ e.level = "fatal",
       ![c].reports[e] = IF Enters(c, e) THEN 1
                         ELSE IF DedupOn(c) THEN @ + 1 ELSE @]
  /\ ringList' = ListAfterNote(c, e)
  /\ UNCHANGED warnOn

(* Mutant: the count keeps growing when the ring is full.                  *)
StoredUncapped(entry, e, ok) ==
  IF ok THEN [entry EXCEPT !.errors[entry.next] = e,
                           !.next = (@ + 1) % entry.size, !.count = @ + 1]
  ELSE entry

(* One slot written, oldest overwritten when the ring is full.  A failed   *)
(* copy leaves an emptied slot behind.                                     *)
Stored(entry, e, ok) ==
  LET i == entry.next
  IN  IF ok
      THEN [entry EXCEPT !.errors[i] = e,
                         !.next = (i + 1) % entry.size,
                         !.count = IF @ < entry.size THEN @ + 1 ELSE @]
      ELSE [entry EXCEPT !.errors[i] = NoError]

(* xmlCtxtStoreErrorRing, after the handler returned: it stores what is    *)
(* the last error by now.                                                  *)
StoreErrorRing(c) ==
  /\ ctxt[c].inHandler
  /\ ctxt' = [ctxt EXCEPT ![c].inHandler = FALSE]
  /\ reporting' = [reporting EXCEPT ![c] = NoError]
  /\ IF ctxt[c].lastError = NoError \/ ~HasEntry(c) \/ EntryOf(c).size <= 0
     THEN UNCHANGED ringList
     ELSE \E ok \in {TRUE} \cup (IF "copy" \in AllocFails THEN {FALSE} ELSE {}) :
            ringList' = Replace(c, Stored(EntryOf(c), ctxt[c].lastError, ok))
  /\ UNCHANGED <<warnOn, seen>>

-----------------------------------------------------------------------------
(* The ring API.  Each call may also come from a handler.                  *)

(* The list after xmlCtxtSetErrorRingSize(c, 0).                           *)
RingDisabled(c) ==
  LET entry == EntryOf(c)
      off == [(IF entry.errors = Null THEN entry ELSE RingClear(entry))
                EXCEPT !.errors = Null, !.size = 0, !.count = 0, !.next = 0]
  IN  IF ~HasEntry(c) THEN ringList
      ELSE IF entry.dedupLimit <= 0 THEN Unlinked(RingLookup(c))
      ELSE Replace(c, off)

(* The list with an entry for c, and that entry resized.                   *)
RingResized(c, n, ok) ==
  LET list == IF HasEntry(c) THEN ringList ELSE <<NewEntry(c)>> \o ringList
      i == IF HasEntry(c) THEN RingLookup(c) ELSE 1
      old == IF list[i].errors = Null THEN list[i]
             ELSE [RingClear(list[i]) EXCEPT !.errors = Null]
      new == IF list[i].size = n THEN list[i]
             ELSE IF ok
             THEN [old EXCEPT !.errors = [j \in 0..(n - 1) |-> NoError],
                              !.size = n, !.count = 0, !.next = 0]
             ELSE old
  IN  [list EXCEPT ![i] = new]

xmlCtxtSetErrorRingSize(c, n) ==
  /\ Callable(c)
  /\ \/ n = 0 /\ ringList' = RingDisabled(c)
     \/ n > 0 /\ ringList' = RingResized(c, n, TRUE)
     \/ n > 0 /\ "ring" \in AllocFails /\ ringList' = RingResized(c, n, FALSE)
     \/ n > 0 /\ "entry" \in AllocFails /\ ~HasEntry(c) /\ UNCHANGED ringList
  /\ UNCHANGED <<ctxt, reporting, warnOn, seen>>

xmlCtxtResetErrorRing(c) ==
  /\ Callable(c)
  /\ HasEntry(c)
  /\ ringList' = Replace(c, RingClear(EntryOf(c)))
  /\ UNCHANGED <<ctxt, reporting, warnOn, seen>>

(* Mutant: always read from the first slot.                                *)
RingContentsFromZero(entry) ==
  [i \in 1..entry.count |-> entry.errors[(i - 1) % entry.size]]

(* xmlCtxtGetErrorRing without a maximum: oldest to newest.                *)
RingContents(entry) ==
  LET start == IF entry.count < entry.size THEN 0 ELSE entry.next
  IN  [i \in 1..entry.count |-> entry.errors[(start + i - 1) % entry.size]]

(* Mutant: the entry stays in the list when nothing uses it any more.      *)
DedupDisabledKept(c) ==
  IF ~HasEntry(c) THEN ringList
  ELSE Replace(c, [EntryOf(c) EXCEPT !.dedup = Null, !.dedupLimit = 0,
                                     !.dedupCount = 0, !.dedupNext = 0])

(* The list after xmlCtxtSetErrorDedup(c, 0).                              *)
DedupDisabled(c) ==
  LET off == [EntryOf(c) EXCEPT !.dedup = Null, !.dedupLimit = 0,
                                !.dedupCount = 0, !.dedupNext = 0]
  IN  IF ~HasEntry(c) THEN ringList
      ELSE IF off.size = 0 THEN Unlinked(RingLookup(c))
      ELSE Replace(c, off)

DedupEnabled(c, limit) ==
  LET list == IF HasEntry(c) THEN ringList ELSE <<NewEntry(c)>> \o ringList
      i == IF HasEntry(c) THEN RingLookup(c) ELSE 1
  IN  [list EXCEPT ![i].dedup = EmptyDedup, ![i].dedupLimit = limit,
                   ![i].dedupCount = 0, ![i].dedupNext = 0]

(* A failed allocation leaves the list as it was: a new entry is undone.   *)
xmlCtxtSetErrorDedup(c, limit) ==
  /\ Callable(c)
  /\ \/ /\ ringList' = IF limit = 0 THEN DedupDisabled(c) ELSE DedupEnabled(c, limit)
        /\ seen' = [seen EXCEPT ![c].limit = limit]
     \/ /\ limit > 0
        /\ \/ "entry" \in AllocFails /\ ~HasEntry(c)
           \/ "dedup" \in AllocFails /\ (HasEntry(c) => EntryOf(c).dedup = Null)
        /\ UNCHANGED <<ringList, seen>>
  /\ UNCHANGED <<ctxt, reporting, warnOn>>

xmlCtxtResetErrorDedup(c) ==
  /\ Callable(c)
  /\ HasEntry(c)
  /\ ringList' = Replace(c, DedupReset(EntryOf(c)))
  /\ UNCHANGED <<ctxt, reporting, warnOn, seen>>

(* xmlFreeParserCtxt calls xmlCtxtSetErrorRingSize(ctxt, 0) last.          *)
xmlFreeParserCtxt(c) ==
  /\ Idle(c)
  /\ ctxt' = [ctxt EXCEPT ![c] = [FreshCtxt(FALSE) EXCEPT !.alive = FALSE]]
  /\ seen' = [seen EXCEPT ![c] = NothingSeen]
  /\ ringList' = RingDisabled(c)
  /\ UNCHANGED <<reporting, warnOn>>

-----------------------------------------------------------------------------
Raise(c) ==
  \E e \in Errors : VErrLimited(c, e) \/ VErrSuppressed(c, e) \/ VErrReport(c, e)

RingNext ==
  \E c \in Ctxts :
    \/ \E r \in BOOLEAN : xmlNewParserCtxt(c, r)
    \/ xmlCtxtReset(c) \/ xmlStopParser(c) \/ xmlFreeParserCtxt(c)
    \/ Raise(c) \/ StoreErrorRing(c)
    \/ \E n \in RingSizes : xmlCtxtSetErrorRingSize(c, n)
    \/ \E n \in DedupLimits : xmlCtxtSetErrorDedup(c, n)
    \/ xmlCtxtResetErrorRing(c) \/ xmlCtxtResetErrorDedup(c)

RingSpec == RingInit /\ [][RingNext]_ringVars

-----------------------------------------------------------------------------
(* A ring of size n is backed by n slots, of which the first count written *)
(* ones, and no others, hold an error; while it is not full the write      *)
(* position is the count (parserInternals.c:164-193, 548-620).             *)
RingShape ==
  \A i \in 1..Len(ringList) :
    LET en == ringList[i] IN
      /\ (en.size > 0) = (en.errors # Null)
      /\ en.count <= en.size
      /\ en.size > 0 =>
           /\ en.next < en.size
           /\ en.count < en.size => en.next = en.count
           /\ \A j \in 0..(en.size - 1) : (en.errors[j] # NoError) = (j < en.count)

(* The list holds at most one entry per context, and never one that        *)
(* configures nothing: the unlinking of an entry and the two features that *)
(* share it agree (parserInternals.c:565-585, 749-770).                    *)
EntriesUseful ==
  /\ \A i, j \in 1..Len(ringList) : ringList[i].ctxt = ringList[j].ctxt => i = j
  /\ \A i \in 1..Len(ringList) : ringList[i].size > 0 \/ ringList[i].dedupLimit > 0

(* An error in the repeat table was reported at most dedupLimit times      *)
(* since it entered the table, over resets, limits and handler calls       *)
(* (parserInternals.c:240-281).                                            *)
RepeatsSuppressed ==
  \A c \in Ctxts : ctxt[c].alive /\ DedupOn(c) =>
    \A e \in Errors : Known(c, e) # {} => seen[c].reports[e] <= EntryOf(c).dedupLimit

(* A document with a fatal error never stays well-formed, and some fatal   *)
(* error of it became the last error, whatever the error limit and the     *)
(* suppression cut off (parserInternals.c:1132-1164).                      *)
FatalNeverLost ==
  \A c \in Ctxts : ctxt[c].alive /\ seen[c].fatal =>
    ~ctxt[c].wellFormed /\ seen[c].recorded

(* The ring implements a log of the last N reported errors: exactly the    *)
(* errors whose handlers ran, each of them once                            *)
(* (doc/xmllint.xml:405, parserInternals.c:164-193, 548-640).              *)
Log == INSTANCE ErrorLog WITH
  Caps <- RingSizes \cup {0},
  Stops <- {UserStop(l) : l \in Levels \cup {"none"}},
  cap <- [c \in Ctxts |-> IF HasEntry(c) THEN EntryOf(c).size ELSE 0],
  log <- [c \in Ctxts |-> IF HasEntry(c) THEN RingContents(EntryOf(c)) ELSE <<>>]

ImplementsErrorLog == Log!Spec

(* "Get the configured error deduplication limit": the limit in force for  *)
(* a context is the one its own application configured.                    *)
PerContextDedup ==
  \A c \in Ctxts : ctxt[c].alive /\ HasEntry(c) =>
    EntryOf(c).dedupLimit = seen[c].limit

=============================================================================
