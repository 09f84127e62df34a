# A verification project for libxml2

TLA+ models of the parts of libxml2 whose correctness depends on the order in
which things happen, TLC runs that check them on small instances, and TLAPS
proofs of the results that hold for instances of any size. Line numbers refer
to the files of the repository.

Contents: [1 The system](#1-the-system), [2 Modules and the code](#2-modules-and-the-code),
[3 Runs](#3-runs), [4 Findings](#4-findings), [5 Proofs](#5-proofs),
[6 What is abstracted](#6-what-is-abstracted), [7 What is not modelled](#7-what-is-not-modelled),
[8 Plan](#8-plan).

## 1 The system

libxml2 is a library without threads of its own. An application creates a parser
context, feeds it a whole document (pull: `xmlParseDocument`) or chunks of it
(push: `xmlParseChunk`), and is called back through a SAX handler, which by
default builds a tree (`SAX2.c`, `tree.c`). Several threads may each use their
own contexts and share dictionaries, catalogs and global tables.

| Component | State | Operations | Meets the others through | What makes it correct |
|---|---|---|---|---|
| Push parser (`parser.c` 10828-11326) | `instate`, input cursor, name stack, `disableSAX`, `errNo`, `wellFormed` | `xmlParseChunk`, `xmlParseTryOrFinish` | SAX callbacks; the application may call `xmlStopParser` in one; look-ahead; error reports | the chunking is invisible: same events and verdict as the pull parser, nothing reported early, every call returns |
| Look-ahead (10574-10815) | `checkIndex`, `endCheckState`, shared by six searches | `xmlParseLookup*` | called by the push parser between chunks | a search succeeds exactly when the construct is complete (finding `subset_lookup` for the exception); the cost is linear |
| Pull parser (9538-9686, 10379-10487) | the same context | `xmlParseDocument`, `xmlParseContentInternal` | SAX callbacks | the reference for the push parser |
| Error reporting (`parserInternals.c` 60-870, 1112-1213) | `lastError`, counters; a process-wide list with a ring of the last errors and a table of repeated errors per context | `xmlCtxtVErr`, `xmlCtxtSetErrorRingSize`, `xmlCtxtSetErrorDedup`, resets, `xmlFreeParserCtxt` | called by every parser; calls the application's error handler, which may call back | no fatal error is lost; the ring is the log of the last N errors, each once (but for muted warnings, finding `ring_repeats`); settings belong to a context |
| Hash tables (`hash.c`) | open-addressing table, element count, random seed | add, update, look up, remove, grow, scan, copy, free | entities, IDs, attributes, catalogs; the scan calls back | a map; a scan visits each entry once even if the callback removes it |
| Dictionaries (`dict.c`) | table of interned strings, reference counter, inherited dictionary | create, inherit, reference, look up, free | shared by contexts, documents and tables of several threads | exact counts, nothing dangling, freed twice or leaked; a string keeps its address |
| Threads (`threads.c`) | `xmlRMutex`: lock, condition variable, owner, depth, waiters | lock, unlock | protects catalogs and library initialisation | exclusion, exact recursion, no lost wakeup |
| Namespace database (`parser.c` 1416-1846) | stack of bindings, hash table over it, element counter | push, pop, look up, reset | start and end tags, entities | the innermost binding in scope is found; a search ends |
| Attributes of a start tag (8654-9346) | attributes read so far, a table of their names, defaults of the DTD | `xmlParseStartTag2` | namespace database, DTD | no two attributes with the same name; defaults only where nothing is specified |
| Entities (`entities.c`; `parser.c` 434-477, 3692-3950, 7140-7329, 11758-11864) | flags, cached size and content of an entity; depth, size counters | references in content and in attribute values | recursion into the parser, tree builder | loops and amplification are stopped, marks are taken back |
| Tree (`tree.c`) | nodes with six links each, entity tables of a DTD | link, move, merge, replace, unlink, free | SAX2, reader, XPath; the application | links agree both ways, no text lost, nothing freed in use |
| SAX2 (`SAX2.c`) | current node, cached length and capacity of the last text | start, end, characters, CDATA, comment | parser events, entities | text is appended to the node the cache is about |
| Reader (`xmlreader.c`) | state, current node, depth, preserved nodes | `Read`, `Next`, `Expand`, `Preserve` | push parser below it, whose tree it walks and frees | every node once, in order; memory neither leaked nor used after free |
| Writer (`xmlwriter.c`) | stack of open nodes, declarations to write | start, end, write | output buffer | the output nests; `EndDocument` ends |
| Patterns (`pattern.c`) | compiled steps, stream states per level | compile, match, push, pop | reader, XML Schemas (identity constraints), XPath | stream and tree matcher select what the pattern says |
| Catalogs (`catalog.c`) | lists of entries, files loaded on demand, depth counters | resolve an external identifier or a URI | input loading of every thread; `xmlRMutex` | the answer is that of the files, circles are cut, a file is parsed once |
| Buffers, I/O, encodings (`buf.c`, `xmlIO.c`, `encoding.c`) | content, use, size; raw and converted buffers | grow, shrink, read, write | below the parser and the serialiser | sizes, no lost bytes, no split characters |
| Globals (`globals.c`) | initialisation flag, thread-local state | `xmlInitParser`, `xmlCleanupParser` | everything | initialised once |
| The rest | | XPath, regular expressions, XInclude, DTD, XML Schemas, RELAX NG, Schematron, serialisation, HTML, URIs, tools | | see section 7 |

The behaviours that are hard to test: a chunk boundary at every position of every
construct; state kept between two calls (`checkIndex`, a held back CR, the name
stack); callbacks that call back into the library (handlers that resize the ring
or stop the parser, scans that remove entries); addresses that are reused after a
free; reference counts dropped by two threads at once; waiting threads that are
overtaken; counters, rings and tables at their limits; allocations that fail half
way through; caches that do not name what they are about (the text cache, the
current node of the reader); recursion through two functions with different marks. `PROJECT.json` lists them under `hazards`, each at its line.

## 2 Modules and the code

    RMutex          threads.c: xmlRMutex               Shared_proofs
    Dict            dict.c                             Shared_proofs
    ErrorRing       parserInternals.c, error.c         refines ErrorLog, ErrorRing_proofs
    RobinHood       hash.c                             refines HashMap, Robin_proofs
    XmlParser       constructs shared by both parsers
      PullParser    xmlParseDocument, as a function
        PushParser  xmlParseChunk, xmlParseTryOrFinish
    ChunkLookup     xmlParseLookup*                    Parser_proofs
    NsDb            xmlParserNs*                       refines NsIndex, Parser_proofs
    NsIndex         what NsDb promises                 Content_proofs
    StartTag        xmlParseStartTag2                  Content_proofs
    Entities        references in content and values   Entities_proofs
    Sax2            SAX2.c, with entities in between   Content_proofs
    Tree            tree.c, tables of entities.c
    Writer          xmlwriter.c                        Content_proofs
    Reader          xmlreader.c over a push parser     Reader_proofs
    Pattern         pattern.c
    Catalog         catalog.c                          Shared_proofs
      CatalogRef    what resolution should answer
    Induction       induction and recursion over numbers, for the proofs
    MCPushParser    PushParser
    MCShared        RMutex, Dict, ErrorRing
    MCParts         ChunkLookup, NsDb, StartTag, Entities, Sax2, ErrorRing, RobinHood
    MCLibrary       Tree, Writer, Reader, Pattern, Catalog
    MCx             inputs of module x for TLC

MCShared, MCParts and MCLibrary put together modules that do not touch each other's
state: a behaviour exercises the one that the variable `part` names, from each of its
initial states, while the others stay idle. The modules that do interact are composed
in the model itself: PushParser with the parsing of PullParser's constructs, Sax2 with
the entity parsing that drives it, Reader with the push parser and the tree it builds,
NsDb with the start tags and entities that open and close scopes.

Definitions keep the name of the C function they translate; parts of a function
have a name for the part. A definition introduced by "Mutant:" is a plausible
bug in the definition after it; it belongs to no specification and only serves
to show that a property would notice.

**RMutex.** `lock` is the inner pthread mutex, `cv` the threads suspended on the
condition variable, `held`, `tid`, `waiters` the fields of `xmlRMutex`; `pc` and
`depth` are each thread's position and its own count of nested locks. Everything
between two operations on the inner mutex is one step, since it is done under
that mutex. A signal and the wakeup are two steps, so that a third thread may
take the mutex in between, and a thread may wake up spuriously. pthread
primitives are external and behave as POSIX says.

**Dict.** `ref`, `sub` and `strings` are `ref_counter`, `subdict` and the table of
each address; `held` says which dictionary an object (context, document, table)
refers to. A counter changes under `xmlDictMutex`, so its change with the test
is one step; the rest of `xmlDictFree` is not protected: `freeing[t]` is thread
t's stack of calls, which grows by the recursive call for the inherited
dictionary. An address is reused as soon as it is free.

**RobinHood.** `table` is the array with entries `hashValue`, `key`, `payload`;
`xmlHashFindEntry`, `ShiftRight` (the insertion's memmove with its carry around
the end), `Removed` (backward shift), `xmlHashGrow` and `xmlHashCopySafe` are
operators over tables. `xmlHashCopySafe` gives up where `copyFunc` has no copy of a payload or the
copy cannot be added (`short`, the slot at which memory runs out), and then deallocates what was
copied: the payloads in the new table and the one in hand. A scan is a sequence of steps, one per slot, with the
callback's removal inside. The abstract specification HashMap is a finite map
that is set, removed from and cleared.

**ErrorRing.** `ringList` is `xmlErrorRingList`, head first, with all fields of an
entry; `ctxt` has the fields of the parser context that `xmlCtxtVErr` uses.
`xmlCtxtVErr` is split where it calls the application's handler: `VErrLimited`
(at `XML_MAX_ERRORS`), `VErrSuppressed` (repeated) and `VErrReport` up to the
handler, `StoreErrorRing` after it; while the handler runs, all calls of the API
are enabled. A repeated error and the notice of a limit are not stored, as in the code. The handler may
call `xmlStopParser`, which turns the error it was given into `XML_ERR_USER_STOP`. A warning that is
muted for the thread is not recorded and has no handler, but goes on to `StoreErrorRing`.
`seen` records what the application was told. The abstract specification ErrorLog is, per context, a
capacity, the error that is being reported, and the sequence of the last errors: a report that ends
appends exactly its error, and nothing else enters the log.

**XmlParser, PullParser, PushParser.** A document is a sequence of units: markup
has several units per construct, so that a chunk can end inside it, and character
data has one per character, with CR, LF, `]` and `>` told apart. XmlParser has
what happens to the context when one construct is consumed. PullParser folds that
over a complete document. PushParser has one action per state of
`xmlParseTryOrFinish`, one for the start of `xmlParseChunk` (which may hold back
a CR) and one for its end (termination, `xmlParserCheckEOF`, `xmlFinishDocument`).
`stopAt` is the event in which the application calls `xmlStopParser`.

**ChunkLookup.** The searches on characters, with `checkIndex` and
`endCheckState`, fed by chunks of any size, construct after construct.
What is complete is defined apart from the searches, by the grammar: for the internal subset an automaton
that knows quotes, comments, processing instructions, and the `]]>` sequences of the comment at
parser.c:10723. PushParser uses what ChunkLookup establishes: there a search is the test that
the construct is complete.

**NsDb.** `nsTab`, `nsHash` and the element counter are the fields of `xmlParserNsData`; a
bucket keeps its hash value after the binding is popped (a tombstone). The actions are a
declaration (ignored, shadowing, or new, with growth), the end of a start tag that is
empty, refused or opens an element, an end tag, and the bounds of an entity's content,
inside of which outer bindings are hidden and then come back. The abstract specification NsIndex is a stack of
bindings with, per prefix, the position in scope; it says nothing of tables.

**StartTag.** One action for the whole of `xmlParseStartTag2` after the attributes have been
read: namespace names, duplicates through the table, defaults, and the second scan for
qualified names.

**Entities.** The recursion of the parser is a stack of frames: content of an entity
(`xmlCtxtParseEntity`), a value being expanded (`xmlExpandEntityInAttValue`) or checked
(`xmlCheckEntityInAttValue`). An entity has its flags (parsed, checked, being expanded), its cached size, and
whether content was kept. The limit is checked as in the code, that is for an external entity after its size
has been added to what was read (parser.c:11837, 7234). The replacement texts are chosen initially; the document
chooses its references as it goes, so that it cannot be known what comes next.

**Sax2.** `nodelen` and `nodemem` are the cache of the parser context; the buffer of each text
node has a true length and capacity. Content of an entity is built below a node of its
own and then copied or linked where it was referred to.

**Tree.** A heap of nodes with the six links. An operation is a function from heap to heap,
assembled like the C function from the ones it calls, every pointer assignment in its
place. Preconditions are those the documentation of `xmlAddChild` states.

**Writer.** The node stack with the state of each entry and the list of declarations; the
output is what a reader of the bytes knows after the last one: the constructs that are
open. Each call is a function from writer to writer with its return value.

**Reader.** A document is a sequence of tokens; a node is the position of its first token.
The parser delivers any number of further tokens per chunk. `xmlTextReaderRead` is a
sequence of steps, as every push of data may extend the tree under it. What must be
reported is computed from the tokens, and `rdMissed` collects what was not.

**Pattern.** Both compilations (the list for `xmlPatternMatch`, the stream steps with their
flags), the backtracking matcher, and the stream context with its states, level and
block level. Nodes are pushed and popped in document order.

**Catalog.** `depth` is read, and written later with the value that was read, since nothing protects it;
`catCutOff` records the threads whose call was cut off by it. A thread has a stack of calls (`xmlCatalogListXMLResolve`,
`xmlCatalogXMLResolve` and their URI forms). Reading `children`, fetching a file under
the mutex, and the two halves of each change of `depth` are steps of their own, so that
threads interleave there.

## 3 Runs

| Run | Part | Instance | Checks |
|---|---|---|---|
| `shared` | mutex | 3 threads, depth 2 | `MutualExclusion`, `NoLostWakeup`, `WaitersProgress` |
| | dictionaries | 3 dictionaries, 3 referring objects, 2 threads, 2 strings | `RefCountExact`, `FreedOnce`, `InternStable`, `NoLeak` |
| | error limits | three errors, two repeat slots, one error allowed | `RepeatsSuppressed`, `FatalNeverLost` |
| `push_parser` | | more than 1400 documents, every chunking and truncation | `PushMatchesPull`, `NothingPremature`, `ChunkReturns` |
| `parts` | `chunks` | texts of up to 4 pieces, internal subsets of up to 5, every chunking | `LookupExact`, `ResumesNearEnd` |
| | `ns` | three prefixes, first table of 2 buckets, depth 2, hash values that collide or wrap | `NsProbesEnd`, `ImplementsNsIndex` |
| | `tag` | 3 attributes, 2 defaults, prefixes undeclared, on one name or on two | `AttributesUnique` |
| | `ents` | 3 entities, one external; 5 document items, depth 4, factor 2 | `EntNoReentry`, `EntMarksCleared`, `EntAmplification`, `EntLoopsRejected` |
| | `sax2` | depth 3, 3 children, one entity, text of up to 3 | `SxCacheRight` |
| | `errors` | rings of 0, 1, 2; one repeat slot; fatal error and warning, which is not muted | `EntriesUseful`, `RingShape`, `ImplementsErrorLog` |
| | `hash` | 4 keys, tables of 4 and 8 slots, all hash functions into {0, 2, 3, 7} up to renaming of keys | `EveryKeyFound`, `ScanOnce`, `CopyFaithful`, `ImplementsHashMap` |
| `library` | `tree` | 2 documents and up to 4 more nodes: elements, text, attributes, entities | `TrLinked`, `TrTextKept` |
| | `writer` | depth 3, two names, one prefix, two namespaces | `WrOutputInStep`, `WrEndDocumentEnds` |
| | `reader` | every document of up to 5 tokens, every chunking | `RdInOrder`, `RdMemory` |
| | `pattern` | paths of up to 3 steps, two alternatives, three modes; trees of depth 3 | `PtStreamExact`, `PtTreeExact` |
| | `catalog` | 3 files, 1 or 2 roots, chains and circles; two calls of a thread, one of each of two, or two of each of two | `CatResolveExact`, `CatParsedOnce`, `CatLoopGuard` |
| eight more | | | violated, see section 4 |

**What they show.** Mutex: `held` and `tid` describe the owner exactly, and a thread that
was overtaken after the signal is not forgotten, because `waiters` counts it until it owns
the mutex. Dictionaries: two threads may drop the last references of a dictionary and of
its heirs in any order; one of them frees it, and a string already returned keeps its
address whatever is added to the inherited dictionary. Error limits: neither the limit nor
the suppression hides that a document had a fatal error. `push_parser`: chunk boundaries
are invisible to the application, for documents with an error up to the character data
just before the error, which the pull parser may have delivered in larger or smaller
pieces. `chunks`: the searches neither miss a terminator split over chunks nor find one
that is quoted, and agree with the grammar except on internal subsets in which a processing
instruction or a `]]>` sequence has arrived (`Disputed`; section 4). `ns`: growth, tombstones and probes that wrap around are invisible; a
prefix has the innermost binding, also behind an entity whose content hid it. `tag`: with
all prefixes declared a tag is refused exactly if it names an attribute twice. `ents`:
loops are found whichever of the three functions closes them, the marks are gone after any
error, and what is delivered stays within the factor of what was read, external entities included. `sax2`: the cache is
right whenever text is appended. `errors`: the two features that share a list entry never
lose each other's settings, over handler re-entry and reuse of addresses, and the ring shows the last
reported errors, each once, while warnings are not muted (section 4). `tree`: links
agree after any sequence of moves, including a move next to a neighbour the node already
had. `writer`: calls in any order, refused ones included, leave stack and output in step.
`reader`: all nodes once and in order, with their complete text, except after the case of
section 4; nothing in use is freed and nothing left behind is kept, except after that case. `pattern`: the stream
answers 1 exactly for the nodes that the pattern selects, but for patterns like `/.//.`, of which it selects
the document only (section 4).
`catalog`: an answer is that of the files, whatever was loaded before and by whom, unless the call met a
depth counter above `MAX_CATAL_DEPTH`. Without circles that does not happen to a thread alone (`CatLoopGuard`), but
it does with two: the counters are changed without a lock, a decrement that is lost remains, and the leftovers add
up until a call is refused without any circle. `CatResolveExact` therefore excludes the threads in
`catCutOff`; the setup in which two threads call twice reaches that case. `hash`:
the probe may stop early at a smaller displacement because every operation keeps the Robin
Hood order, also around the end of the table; a scan that starts at an unoccupied slot
visits each entry once while its callback removes them; a copy is returned exactly if every payload could be
copied and added, and otherwise each payload copied is deallocated once.

**Bounds.** `hash`: 4 keys overflow a table of 4 (whose fill limit is 3) and
leave the table of 8 room for runs that wrap around; the hash values put keys into
one slot, into neighbours, into the last slot, and into slots that fall together
in the small table only. Keys are numbered in the order of their hash values, since a table with others is one
of these with its keys renamed. A table of 8 is never too full, so the refusal at `MAX_HASH_SIZE`
(hash.c:450) is in the model and not reached by the run. Mutex: an owner, a waiter and a thread that overtakes it need three.
Dictionaries: three make a chain with an inner link, three objects let a
dictionary have a direct and an inherited user. `errors`: capacity 1 is the
wrap-around on every store, 2 the first that keeps an order; one context is
enough, as entries are found by address and address reuse is what couples them.
`push_parser`: a construct has 3 units (start, inside, terminator), character data
has up to 4 characters with `BigBuffer` = 3 on either side of the limit
`XML_PARSER_BIG_BUFFER_SIZE`; documents come in families of constructs that
interact. `BigBuffer` must exceed 2, as in the code: with a smaller one `]]` would
fill it and never be decided. `chunks`: pieces are terminators, their parts,
quotes and what can be confused with them. `ns`: the smallest table grows with the second
prefix, so that both tables are used and probes wrap. `ents`: a loop has one to three
members, by content and values in any mixture; twice the same reference is what makes
amplification; the code's allowance and factor (a million and 5) are 8 and 2. `sax2`: a
capacity of 4 is outgrown by two appends. `tree`: four nodes are a list of three with a
node from elsewhere; quotas per kind keep the kinds apart that do not interact. `reader`:
five tokens are an element in an element with text before or after it. `pattern`: depth 3
has a gap for `//`. `catalog`: `MAX_CATAL_DEPTH` is 2 instead of 50, so that one lost decrement
and the other thread's calls reach it; `MAX_DELEGATE` is 2.

**Deadlock** is checked in `shared`, `stale_dedup` and `ring_repeats`. Elsewhere the
input ends, or the calls are used up, and the program may stop.

**Fairness.** RMutex: every runnable thread is scheduled, and a thread that holds
the mutex unlocks it in the end, as all uses in the library are pairs in one
function; nobody has to call lock and nobody has to wake up spuriously.
PushParser: a call of `xmlParseChunk` that has started runs on (it is sequential
code); no call has to be made. Dict: a running `xmlDictFree` runs on. The others assume
nothing. That `xmlTextWriterEndDocument` ends is stated per turn of its loop, as an invariant.

**Mutants.** For every property of a passing run, a definition that models code
has a mutated form under which TLC finds the property violated: a guard dropped
(`WaitDoneUnchecked`, `RefParseUnchecked`), an off-by-one (`SuppressOneLate`,
`NeedsGrowLate`), a missing wrap or carry (`ShiftRightNoCarry`), a result not tested (`CopyIntoUntested`), a missing rescan
(`LookupStringNoRescan`), a CR not held back (`ChunkNoHold`), neighbours read in the
wrong order (`InsertNodeLinked`), a mark taken back on success only (`UnmarkedOnSuccess`),
a block level that is not reset (`StreamPopBlocked`) and so on.

## 4 Findings

Disagreements between the code and what its comments and headers say, each reproduced by a run
that is expected to be violated, and the last by the property of a passing run that states it.

- `stale_dedup`: `xmlFreeParserCtxt` (parserInternals.c:3893) switches off the
  ring but not deduplication, so the list entry survives the context. It is keyed
  by address: a new context at that address inherits limit and counts.
- `trailing_content`: after a namespace error, which is not fatal, the end-of-input
  checks (parserInternals.c:1474, parser.c:11175) are skipped as `errNo` is set.
  Content after the root element is then neither parsed nor reported, and
  `wellFormed` stays 1. Pull and push agree, which is why `PushMatchesPull` holds.
- `crlf_split`: the CR that `xmlParseChunk` holds back (parser.c:11255) is parsed
  by the next call even when that call brings no data; CR LF then becomes two
  newlines. It needs an empty chunk that is not the last. The run `push_parser`
  excludes such chunks (`EmptyChunks = FALSE`), and only them.
- `subset_lookup`: the search for the end of the internal subset (parser.c:10737)
  does not know processing instructions, so that a `]>` in one ends it early. Nor does it know the `]]>`
  sequences that its comment (10723) excludes: after `]]` a `>` ends the search (10747). The inputs are processing
  instructions with `]]>`: a search that knew one of the two would not stop there.
- `ring_repeats`: a warning that is muted for the thread (error.c:708) is not recorded, and
  `xmlCtxtVErr` stores the last error all the same (parserInternals.c:1212): the error before it,
  a second time. In a full ring that costs an older error.
- `dup_attributes`: attributes whose prefix is not declared are left out of the table of
  names (parser.c:9126), and the scan for equal qualified names runs only after two
  collisions (9281). The same qualified name is delivered twice and `wellFormed` stays 1.
- `entity_tables`: `xmlRemoveEntity` (tree.c:2448) looks a parameter entity up in
  `pentities` and removes its name from `entities`.
- `reader_expand`: `xmlTextReaderPushData` sets the reader's state to DONE at the end of the
  input (xmlreader.c:871), also when `xmlTextReaderExpand` called it. The end of an element
  without children is then not reported, and `xmlTextReaderNext` skips the rest. A consequence
  that needs four calls of Expand and Preserve, more than the run has: after an Expand at the end of
  an element its preserved child is visited again, `preserves` is lowered a second time for it, and is 0 while
  nodes left behind earlier, when it was not, are still in the tree. The last part of `RdMemory` excludes
  what follows such an Expand, as `RdInOrder` does.

- In `library`: for a pattern such as `/.//.`, the stream answers 1 for the document and 0 for every other node,
  although all of them are selected: the branch for "the document node will match as well"
  (pattern.c:1642-1654) adds no state, and the step, which is of the root, is not entered again (1825).
  `PtStreamExact` asks for exactly this (`PtAllOfRoot`, `PtStreamed`), and for what the pattern selects in all
  other cases.

Observed while modelling, without a run of their own; the properties name the exception:

- `xmlPatternMatch` and the stream of the same pattern disagree where a step before `//` is
  no name, or a step is `.`: the interpreter fails on these (pattern.c:568), so
  `PtTreeExact` is about the others. `.//.` as a selector of an identity constraint does
  not report the context node in the stream and is left out of the inputs.
- A circle of catalogs through nextCatalog is cut off by a return without decrement
  (catalog.c:1799), so the counters stay above `MAX_CATAL_DEPTH` and identifiers that these
  files know are not found by later calls. `CatResolveExact` and the second half of
  `CatLoopGuard` are about catalogs without circles.
- Two threads that resolve at the same time lose decrements of a depth counter (catalog.c:1610, 1965-2040), and after
  enough of them calls return NULL without any circle. `CatResolveExact` is about calls that were not cut off.
- An entry that delegates to a file that cannot be read cuts the search off when it is first
  tried and is passed over afterwards (catalog.c:1684-1705): `CatResolveExact` allows both.
  Delegates are tried in the order of the file; the comments at catalog.c:1667, 1744 and
  1894 speak of a list sorted by length, which the TODO at 1304 leaves open.
- The failure of the allocation of a resized ring leaves `errors` NULL under a positive
  `size` (parserInternals.c:607), and the failed copy of an error counts an emptied slot
  (182): in the model (`AllocFails` "ring" and "copy"), not enabled in the runs, as
  `RingShape` does not hold then.

## 5 Proofs

Theorems hold for every value of the constants, under the assumptions named in the
modules.

**Shared_proofs, the mutex** (`RMutexType`, `RMutexExclusion`, `RMutexNoLostWakeup`;
assumption: `NoThread` is no thread, `MaxDepth` is a positive number, `Threads` is
finite). `MutualExclusion` is not inductive: it says nothing about threads that hold
nothing. `OwnerInv` adds that the inner mutex is held by exactly the thread that is
inside a critical section, that a positive `held` is the depth of the thread `tid`,
and that only a thread with a positive depth is unlocking. `NoLostWakeup` needs `WakeInv`: `waiters` is the number of
threads between their first wait and their acquisition, so that it is positive
whenever one is suspended and the last unlock does signal (`cv` is the set of threads
at that place). The proof has a step per action.

**Shared_proofs, dictionaries** (`DictType`, `DictRefCount`, `DictNoDangling`, `DictFreedOnce`,
`DictInternStable`; assumption: dictionaries and objects are finite sets, NULL is no
dictionary). None of the properties is inductive alone: the counter cannot be shown
exact unless what is referred to is allocated, nothing dangles only because a
dictionary whose counter is 0 has no references left, and it is freed once only
because nobody can refer to it again. `DictInv` is their conjunction with the type
invariant. The main lemmas say how the sets of objects and heirs of a dictionary,
and so their cardinalities, change with each step. `DictInternStable` is an action
property, proved from the same invariant: the table of a dictionary in use only
grows, and its inherited dictionary stays the same.

**Shared_proofs, catalogs** (`CatalogParsedOnce`, `CatalogLoopGuard`; assumptions: the depth
limit is positive, and what roots and leading entries refer to is a file of the setup, which may
be unreadable). A file is parsed once because of the test under the mutex: the invariant `CatFilesInv` counts a
parse only for files in the list of parsed ones. The loop guard is about a thread that resolves alone,
since the counters are shared and not protected; its invariant `CatGuardInv` is stated for such a
thread. `Chain`: the calls in progress are a chain of references from the root list; without
circles no list is on it twice, as the set of the lists in a circle would have no way to be left
(`ListsDistinct`). `TopOK`: a counter about to be written is what was just read. `Balanced`: a
counter is never below the number of calls in progress that have raised it, never above the limit
plus one, and without circles equal to that number, so that it is zero after the last return.
Every path out of a call is a step of the proof, as each must give back what it took.

**Robin_proofs** (`RobinFindsKeys`, `RobinIsMap`, `RobinScansOnce`, `RobinCopiesAll`; assumptions:
hash values are numbers, the fill factor is below 1, and `MIN_HASH_SIZE` is a multiple of
`MAX_FILL_DENOM`, as 8 is of 8). That every key is found is not inductive: the probe gives up at an entry
closer to its home than the probe is, and what must not lie on the way is then a matter of all the
entries. `RobinInv` says that the table is in Robin Hood order (`Ordered`: an entry that is d slots
from its home follows one that is at least d - 1 slots from its own), that hash values are
those of the keys, that no key is there twice, and that a slot is free. With the order, an entry that the
probe passes over is at least as far from home as the probe (`FindPresent`), so a key that is
there stops it and one that is not has its place where it stops. An insertion shifts the entries up to
the next free slot (`ShiftOrdered`), a removal those up to the end of the run (`UnshiftOrdered`),
around the end of the table or not: both are the same function of the distance from the slot that is
inserted or removed, which keeps the order. Growth is a loop over the old slots, and the order of the old table
is used from a free slot on: no entry still to come has its home before one that is there, so
the first free slot is its place in the Robin Hood order, and no entry is put behind
the position of the copy (`GrowInv`, by induction over the slots copied). The fill factor leaves two
free slots before an insertion, hence one after it. The map is the set `Pairs` of keys and payloads, and each
operation adds or takes away one of them. A scan starts at a free slot; as a run ends before
it, a removal moves no entry across it, and what is due is what was visited and what remains (`ScanDue`).
A copy inserts every entry of a table into another one, so that its contents follow from
the same lemmas by induction over the slots (`CopyInv`): up to the slot at which it is given up, the copied
payloads are those in the new table, and at that slot the one in hand, which is not in it. The theorem
is about every function `copyFunc` may be, with any place where memory runs out.

**Content_proofs, the index of namespaces** (`NsIndexInvariant`, `NsInnermost`). That the position in scope is the
last binding of its prefix is not inductive: closing several bindings at once restores
positions that must have been right when they were shadowed. `IndexInv` adds `Shadowed`,
that every binding records the previous one of its prefix, and the types.

**Parser_proofs, look-ahead** (`LookupIsExact`, `LookupResumes`, from `LookupInvariant`; assumption: texts
are sequences). `LkInv` says what is remembered between chunks: nothing, or, for the construct
at the cursor, a position before which no end that the search goes by lies, and the state of the search there. For
terminators that are strings the position is at most their length behind the end of the buffer. For a
tag, the open quote at that position is that of the definition of where a tag ends (`TagState`), and for
the internal subset the loop is in step with an automaton of its own (`ScanState`): each
turn of the loop, which may consume one to four characters or none, is a path of the automaton, and a
measure shows that the loop ends within its bound. That automaton knows neither processing
instructions nor `]]>`; `AgreedStates` shows that it is in the states of the grammar's (`SubsetState`),
by which the property is stated, up to the first place where the buffer has one of these (`Disputed`). An end in the text is an end in the buffer once the buffer reaches
it (the definitions look at the whole text), so what was overlooked in a shorter buffer is found in a longer one. `SkipLookup` and the parse of a construct
reset what is remembered, so nothing leaks into the search for the next one.

**Parser_proofs, namespaces** (`NsDbIsIndex`, `NsProbesAlwaysEnd`, `NsLookupInnermost`; assumptions of
NsDb on its sizes). The database implements NsIndex, `ImplementsNsIndex`, and the lookup
returns the innermost binding in scope by way of `NsInnermost`. The invariant `NsInv` has three
parts. `NsTypes`. `NsTables`: for some size the table is right (`TableRight`), which says that
every bucket holds the position of a binding with its hash value (sound), every prefix that was
ever bound since the table was made has a bucket that a search reaches (complete; a tombstone
counts), the used buckets are counted and below the size, each binding knows the one it
shadows, and the default namespace is the last binding without a prefix. `OpensFit`: what the
open elements and entities will pop adds up to what is on the stack. That a search ends is the
part about the counted buckets: there is always an empty one. That it finds its bucket is
induction over the distance from the first probe (module Induction).

**Entities_proofs** (`EntInvariant`, `EntReentry`, `EntMarksGone`; assumption: the document
is no entity, limits are numbers, replacement texts have a length). `EntInv` has the shape of the stack (the document at the bottom only,
content frames below value frames) and `EntMarksExact`: an entity is marked exactly
while its content is parsed, or while a reference in its value is being followed. From it follow `EntNoReentry`, as a marked entity is refused by all three functions,
and `EntMarksCleared`, as the document alone has no marks. The proof has a step per action.

**Entities_proofs, loops and amplification** (`EntLoops`, `EntAmplified`, from
`EntAccountsHold`). Both properties are about all replacement texts at once, so the invariant
`EntAccounts` says that there is a witness for them while the parser runs, and every step names
the next one. The witness has three parts. `D` is the set of entities that were followed to
their end: it is closed under references and has no cycle, as an entity enters it only after all it
refers to, and everything marked as parsed or checked is in it (`LoopFree`, `FlagsDone`). `P`
gives every item of a text its price, what one expansion of it delivers: calls have delivered the
price of what they read, and the recorded sizes are not below the prices of their entities
(`Costs`, `Known`). An entity is priced while it is read, which is well founded because of `D`;
no recursion over texts is needed. `B` bounds what a value whose expansion is in progress may
still deliver: the code accounts for the text of a value when its expansion begins, in the input
that may be several calls further down, and the characters arrive at the end (`Budget`). With
it what the document received is at most `sizeentcopy`, and the last check that raised the
counter enforced the limit for what had been read (`Limit`). `OneMode` (values are either
expanded or checked in a document, never both) keeps the two kinds of accounting apart. There is
a lemma per action.

**ErrorRing_proofs** (`FatalReported`, `RingEntries`, `RingWellFormed`; assumptions: levels
and kinds of errors are the code's, "no error" is not an error the ring can hold,
`MaxErrors` and `DedupSize` are positive). `FatalNeverLost` needs `IllFormedExplained`: a
context is not well-formed because a fatal error was recorded or because it has stopped.
So the limit, which cuts off fatal errors only in documents that are not well-formed any
more, hides no first one. This theorem holds with every failing allocation. The other two
assume that the allocation of slots and the copy of an error succeed, since they do not
hold otherwise (section 4). `ListInv` has one useful entry per context, and in it the ring,
its slots and the repeat table well formed; that there is one entry makes the result of the
lookup determined. Lemmas say what each helper does to an entry, then what each
call does to the list; the step lemma has a step per action. `RingIsLog` is the refinement
`ImplementsErrorLog`, under the same assumption and that no warning is muted (`NothingMuted`), without which
it does not hold: what is read from a ring is the log of its
context. It needs that while a handler runs the last error is the one that is being reported (`LogInv`). Its lemmas say that storing into a ring appends to what is read from it and drops the oldest
(`StoredContents`, with the wrap-around of the index), and that in every step at most one
context sees a difference (`OneRing`), which is a step of the log.

**ErrorRing_proofs, repeats** (`RepeatsBounded`, same assumptions). That reports stay within the limit
is not inductive: the decision looks at the count of a slot, not at the reports. `TableCounts`
adds that the count is never below the number of reports. The calls of the API keep a table or
empty it (`Derived`); the note of an error, with eviction from a full table, is `NoteWithin`,
which rests on a table holding an error once.

**Content_proofs, the start tag** (`TagAttributesUnique`; assumption: the attributes and the
defaults of a tag are sequences). A tag is handled in one step, so the invariant only says that what
was reported was computed from the tag. The argument is about the searches. The table keeps the first attribute of an
expanded name. If an attribute has the qualified name of an earlier one it finds that first
one: either it is the one with the same prefix, which is the duplicate, or it has another
prefix, and then both collided with it, so the second search, by qualified name, is made and
finds the duplicate. An accepted tag without an error has no collision at all, hence different expanded
names. Added defaults are ranked by their position in the declarations: each was compared with
the specified attributes and the defaults added before it.

**Content_proofs, the tree builder** (`TextCacheRight`; assumptions: runs of text are not empty,
limits are numbers). The cache does not say which node it is about, so the invariant `SxInv`
does: it is right for the current node (`SxCached`); what an entity saved is right for the
node with the reference (`SxSaved`); the other open nodes do not end in a text, so that
closing the element in them needs no cache (`SxUnder`); the roots of entities lie one above the other
(`SxDepths`). Lists of children have no two adjacent texts, which the copy of an
entity relies on: its texts in the middle are copied with the cache cleared, and an
element or other node follows each. As runs are not empty, a buffer that a node
does not own is full, and the first text appended to it moves to a buffer of its own. The copy is a
loop over the list, treated by induction over the number of nodes copied.

**Content_proofs, the writer** (`OutputInStep`, `EndDocumentEnds`; no assumption on the constants). `WrInv` says
that the output is what its stack of nodes leaves open (`WrOpened`), that declarations waiting to
be written belong to the element in front, and which nodes can lie on which. The calls that close
several nodes are loops, in the model functions over the stack. What they do is shown by induction over the
number of rounds (`IsWritten`, `IsOpen`): every round keeps the output in step, and the stack
gets shorter in each, so that `xmlTextWriterEndDocument` ends with nothing open.

**Reader_proofs** (`ReaderInOrder`, `ReaderMemory`, both from `RdInv`; assumption: documents have nodes, their
tags are nested, and text is in elements only; others end in `RdError`). That
no event is missed is not inductive: it says nothing about where the reader is. `RdInv` knows a
cursor `c`, the token at which the reader stands (`At`, `PosAt`: that of its node, or
the end of the element, according to the state). Four things are said about `c` (`Walking`). The depth is the number of
elements open there. The number of events reported is the number of events up to `c` (`Count`), less the one that a
running call is about to report. Every node delivered after `c` is in the tree (`Tree`), so that the first
child, the next sibling or the parent's end that the code looks for in the tree is the next
event of the document (`ToChild`, `Leaves`), unless the tree ends there, and then the code pushes more
input or the input is at its end (`Stays`, `EnoughStart`, `EnoughLeft`). And `Memory`: `preserves` is at least the number of preserved elements around
the reader, and when it is not more, everything before `c` is preserved or around the reader. `Forest`
adds that a node is in the tree with its ancestors and that the open elements of the parser are
in it. Before the first node (`Starting`) nothing is gone, and at the end (`Over`) nothing is missed. What
the tokens open and the events they make are recursive functions, treated by induction over the
position (`Levels`, `EventsAre`). Once an Expand of the application has met the end of the input the cursor is lost, and only the parts about
freed nodes remain.

**Induction** (`LeastNat`, `Induct`, `RecursionExists`, `TypedRecursion`). The induction theorems of
the library take an operator, which the provers cannot instantiate. These speak of sets and
functions, are proved from the well-foundedness of the order on numbers, and serve where a loop or a
search has to be treated for any length: a set of numbers with 0 and with successors is all numbers, and a
function defined by its value at 0 and a step exists, is unique, and stays in the set its step stays in.

**Model-checked only.** Liveness (`WaitersProgress`, `NoLeak`, `ChunkReturns`): the
prover does not treat fairness. The equivalence of push and pull parser (`PushMatchesPull`,
`NothingPremature`) and the links of the tree (`TrLinked`):
they rest on folds over sequences or on heaps, whose invariants for all inputs are inductions over data.
Patterns (`PtStreamExact`, `PtTreeExact`) and the answers of catalogs (`CatResolveExact`), whose
reference definitions are recursive.

## 6 What is abstracted

- *Documents.* Attributes, entity declarations and DTD contents are one unit of
  their construct; a start tag is good, empty, broken, or has a namespace error.
  Recovery mode is off, the encoding is UTF-8, the pull parser reads from memory.
  `<![CDATA[` is shortened to `<![` in ChunkLookup. The limit on the buffer size
  in `xmlParseChunk` and `xmlCtxtResetPush` are left out.
- *Errors.* The 64-bit fingerprint is injective, message texts are not kept. Two
  allocation failures are in the model and not enabled in the runs, see section 4.
- *Tables.* Key triples are one key; hash values are chosen initially, as the seed
  is; two keys may share the full hash value.
- *Dictionaries.* The table is a set of strings (its algorithm is that of `hash.c`);
  lookups in one dictionary are serialised by the application, since the code takes no lock for them.
- *Threads.* The lazy initialisation of `xmlErrorRingMutex` is taken as done.
- *Namespaces.* The prefix `xml`, which never enters the database, and the SAX data of a
  binding are left out; positions count from 1.
- *Start tags.* The table of names is taken by what it returns; values are left out.
- *Entities.* Every item of a replacement text has size one. After a fatal error the calls in
  progress only return. Predefined and parameter entities are left out, external ones
  differ by what a value may refer to.
- *Tree builder.* Recovery mode, so that content may end with open elements. Attributes and
  names are left out; text is its length.
- *Tree.* Allocation does not fail. Namespaces, IDs, dictionary strings, copies and content
  parsing are left out. Text is a sequence of letters, each of which occurs once.
- *Writer.* Indentation, the text written, failures of the output, and the calls that only
  put modelled ones one after the other are left out.
- *Reader.* Attributes, validation, XInclude, patterns of preserved nodes, walking a
  finished document, and entity references are left out.
- *Patterns.* A pattern is given as steps: the reading of its characters is left out.
- *Catalogs.* Identifiers are short sequences of characters, so that prefixes are prefixes.
  Groups, normalisation, `urn:publicid:`, SGML catalogs, `xmlCatalogAdd` and
  `xmlCatalogRemove`, and files without entries are left out.

## 7 What is not modelled

XPath, XPointer, regular expressions, XML Schemas (with its types, 35,000 lines), RELAX NG,
Schematron and the HTML parser are large and dominated by data: their correctness is that
of case distinctions over the XML and schema vocabularies, and a model that is faithful to
them would be a transliteration of about the same length. They are more than half of the
implementation, which is why the models cover a small share of its lines. DTD validation
and XInclude work on finished trees in one thread. Buffers, encodings, URIs, strings and
character classes are functions on bytes, whose difficulty is arithmetic on sizes and not
the order of events; the parser models take them by what they deliver. Serialisation,
debugging output, I/O and the tools are formatting and system calls. Bindings, tests,
fuzzers and generators are not part of the library.

## 8 Plan

Done: the mutex, error reporting, the push parser with its look-ahead, hash tables,
dictionaries, the namespace database, start tags, entities, the tree builder, trees, writer,
reader, patterns and catalogs. Left, in this order:

1. Proofs: the links of trees (`TrLinked`), operation by operation.
2. Parameter entities and the stack of inputs of the parser, with the grow and shrink of
   their buffers.
3. Global state: initialisation by several threads, thread-local state and its end.
4. The operations left out of modelled components: copies and namespaces of trees,
   `xmlCatalogAdd` and `xmlCatalogRemove`, patterns of the reader, `xmlCtxtResetPush`.
5. Execution of compiled regular expressions, with its rollback and counters.
