# Segmenter: a verification project

The repository is a Chinese word segmenter in C++ (`src/segmenter/`), two
plugins that offer it and a digest (summary) service over TCP
(`build/mpl/segmenter/`, `build/mpl/digest/`, `build/mpl/pub/`), and a Python
test client (`build/mpl/test/python/`). This directory holds TLA+ modules of
its core logic, the TLC runs that check them on small instances, and proofs of
the properties that matter most for every instance. `PROJECT.json` lists
components, runs, mutants, hazards and, for every definition, the lines it
models.

Paths below are relative to `src/`.

## 1. Inventory

| Component | State it keeps | Operations | Hard behaviour |
|---|---|---|---|
| Segmentation search, `src/segmenter/ngram_dict.h` `get_seg_ids`, `relrank_dict.cpp` `get_segs_ex`/`get_segs` | per chunk `segs`, `type`, `prob`, `freq` arrays; per call a candidate buffer and a position in it | recursive search with memo, walk along `segs`, next chunk | memo validity, a full candidate buffer, arrays that keep the previous chunk, termination of the walk |
| Text splitting, `src/segmenter/relrank_dict.cpp:35-251` | offset in the text, output array | match separator, cut at 1000 characters, search, copy words | errors half way, pieces longer than the limit, conversions |
| Dictionary array, `largetrie/bufferTrie.h`, `trie.h` | one array of elements, its size, write positions, mapped file; the nodes of a `Trie` | add words in any order, add rows, build from a trie, save, load, verify, look up | growth during construction, elements reserved before they are written, values that look like free elements, a save that fails |
| Index maps, `largetrie/index_map.h`, `index_multimap.h` | arrays of properties and values, mapped file | set, get, build, save, load | state after save, limits of the value count |
| Pattern automaton, `dfa.cpp` | nodes, id map, queue of nodes to expand, file mapping | subset construction, serialization, tables for mapping, nine matching functions | closures of nodes with loops, scans that must remember the last match, buffer limits, queue of places to begin again |
| Dictionary life cycle, `relrank_dict.cpp`, `ngram_dict.h`, `dfa.cpp` | loaded flag, dictionary and automaton, mappings, descriptors | build, dump, load, clear, map, destroy | a load that fails half way, a stale descriptor number, leaks |
| UTF-8 interface, `relrank_dict.cpp:254-430`, `largetrie/transcode.cpp` | converted text, position, answer buffer | convert, segment, convert back | byte sequences that are no characters, sizes of buffers |
| Digest cache, `build/mpl/digest/` | descriptor → article → shared list of units, one lock | add unit, create and send digest, close | workers in parallel, copies of maps that share lists, a failing analyzer, reused descriptors |
| Reference counted handles, `digest_basic_info.h`, `segmenter_basic_info.h` | counter per object | copy, assign, release | release is two steps |
| Packet codec, `build/mpl/pub/ptl_packet.cc` | none | pack, unpack, delete | 16 bit lengths, compressed form |
| Sending, `build/mpl/pub/send_comm.cc` | position in a packet | send all, send message | partial sends, several threads, errors half way |
| Segmenter plugin, `build/mpl/segmenter/` | word batch | segment and answer in batches of 40 words | last batch, ignored send errors |
| Test client, `build/mpl/test/python/netsvc/` | bytes not yet processed | pack, cut packets out of the stream, read digests | packets split over reads at any byte |
| Loader, command line tools | none | start up | none |

Components call each other as follows. The framework (`core.so`, not in the
repository) calls a plugin's `handler_read` with one message of a connection.
The segmenter plugin calls `NGramDictManage::get_segs`, which splits the text,
searches each piece with `NGramDict::get_seg_ids` (dictionary matches from
`BufferTrie`, pattern matches from `Dfa`), and answers through `SendComm`. The
digest plugin keeps units in `DigestCacheManager` until the end of an article,
calls the Python analyzer under its lock, and answers through `SendComm`. The
maps, the lists behind their handles and the sockets are the shared state.

What makes each correct:

* search: the memo is optimal, is written once per chunk, and the words cut
  from it tile the chunk and are candidates;
* dictionary: what was added is found, with its value, and nothing else is;
  the file holds the whole array;
* digest cache: a digest is made of exactly the units of its article since the
  last digest, in order, and is sent once; workers always come back;
* handles: an object is deleted once, after its last use;
* patterns: the automaton is the subset automaton of its Nfa; every matching
  function reports what the paths of the Nfa spell, as built or as loaded;
* life cycle: what is used is mapped, what is not used is released;
* UTF-8: the words together are the text, as far as it is well formed;
* packets: what was put in is read out again, up to the length that fits;
* sending: packets arrive whole and in order, or the connection is given up;
* client: it never loses its place in the stream.

## 2. Plan

The order puts what every answer depends on first.

1. Segmentation: `SegmentCandidates`, `SegmentSearch`, abstract
   `BestSegmentation`; proofs of the memo and of the walk. *Done.*
2. Digest: `DigestCache`, abstract `DigestService`; proof that write backs are
   never stale, that the cache and the replies are exact, and of the refinement. *Done.*
3. Dictionary: `BufferTrie`, with `Trie`, save, load and `verify_core`;
   proof that nothing laid out is written over, that files are complete and that
   every lookup finds what was added. *Done.*
4. `UnitHandles`: handles of the digest cache's units released by several
   workers; proof that no unit in use is deleted. *Done.*
5. `TextSplit`: separators, limit and errors; proof of what is returned. *Done.*
6. `SendStream`: the segmenter plugin's batches and the bytes of their packets,
   of several threads on one socket; proof that one worker at a time never
   breaks a packet, and that answers are whole and in order. *Done.*
7. `DfaBuild`, `DfaTables`, `DfaMatch`, composed in `Patterns`: subset
   construction, the files, the matching loops, and the paths of the Nfa as the
   reference; proofs that the construction is exact, that reports fit, that both
   files bring back the automaton that was stored, and so of the whole. *Done.*
8. `PacketCodec`, `PacketChannel`: pack and unpack with 16 bit lengths, the
   client that cuts packets out of pieces. *Done.*
9. `Dictionary`, with `CharSegs`: loads that fail, mappings and descriptors, the
   UTF-8 interface of a loaded dictionary; proof that what is used is mapped and
   nothing is left. *Done.*

What is left: `IndexMap` and `IndexMultiMap` (no program of the repository uses
them), and proofs about `PacketChannel`.

## 3. Modules

### Segmentation

`SegmentCandidates` holds the data: a *chunk* is a piece of text between two
separators, given by its size and, for each position, the matches the
dictionary and the automaton report and whether the character is a stop word.
`Matches` puts the two lists together as `get_seg_ids` does in one buffer of
`BufSize` entries: the automaton gets what the dictionary left (`DfaMatches`), and a
position without matches gets `Fallback`, the single character. `Weight` turns the value of a match
into its logarithmic weight. `get_seg_ids` exists for `wchar_t` and for 16 bit
characters (`short`), and they differ in one case: when the dictionary leaves no
room, the automaton function for 16 bit characters may write a match behind the two
arrays and count it (`WritesBehind`). What that write hits is undefined; the model
has the outcome in which the entry is read back and nothing else is lost, so what is
said of this case is said of that outcome.

`SegmentSearch` is the recursion with its stack made explicit. `Enter` is a
call that finds no memo, `ReturnEnd` and `ReturnMemo` the two early returns,
`Recurse` the recursive call for the next candidate, `Resume` the comparison
when it returns, `Finish` the write to the memo. `StartWalk`, `CutWord` and
`EndWalk` are the loops of `get_segs_ex` over `segs`; `NextChunk` is the next
piece of text, for which only `prob` is cleared. `Garbage` stands for what the
uncleared arrays hold at first.

`BestSegmentation` is the promise: a chunk is answered with a tiling of maximal
total weight. `Promise`, in `SegmentSearch`, maps the finished walk to the answer.

### Digest

`DigestCache` has clients that send units and ends, worker threads, one lock
and the map of maps. `known[fd]` is what the map of a descriptor reaches;
`list[fd][a]` is the unit list the `DigestInfo` handles of an article share. A
copied map (`info_map`) therefore has entries of its own, but not lists of its
own. `Acquire` takes the lock and the copy; `SetDigestInfo` and `CreateDigest`
are the critical sections; `SendDigest` is the reply outside the lock.
`Reconnect` gives the descriptor to another client and, like `OnDigestClose`,
leaves the cache alone. `log` is a history variable, read by properties only.
`Parallel` says whether the framework may hand two messages of one connection
to two workers; the code does not say, so both are checked. `Analyzer` may fail
on any text and does on an empty one (`result[0]` of an empty list); the default
text that is then sent is a reply with `made = FALSE`.

`DigestService` is the promise for connections handled one message at a time:
every message takes effect at once and in order of arrival. The refinement
(`ImplementsService`) counts a message as waiting until its critical section and a
reply as given from there on.

### Handles

`DigestCache` takes a unit to be a value. `UnitHandles` is about the object
behind it. A worker constructs one (`Receive`, counter 1), copies its handle into
the shared list under the lock (`Store`, one `AddRef`) and drops its own handle
after the lock is released (`Decrement`, `Delete`); another worker may by then
have taken the unit out again (`Begin`, `Front`, `Pop`, `End`: the loop of
`CreatFullText`, one handle for `unit`, one dropped by `pop_front`). `Release` is
two steps, as in the code: the atomic decrement, and the read of the counter that
decides on deletion. What the memory of a deleted unit reads is left open
(`ReadsZero`). The history variable `shared` has the connections two workers were
busy with at once. Every descriptor has one article, since lists of different
articles share nothing but the lock.

### Text

`TextSplit` is the loop of `get_segs_ex` for wide characters. A text is a
function from positions to kinds of characters, the kind being what the separator
expression makes of the character: `"sep"` always belongs to a separator, `"gap"`
only where a match begins with it (the expression is given the rest of the text
only, so its look-behind does not see what went before), `"bad"` makes
`pcre2_match` fail. `Match`, `NoMatch` and `Error` are the three outcomes of the
call, `Word` one turn of the inner loop, `Advance` the separator and the end of
the turn. The words of a piece are any tiling of it; which one, `SegmentSearch`
says. Errors other than an invalid text (pcre2's match limit) are not modelled.

### Sending

`SendStream` is one connection of the segmenter plugin. A worker takes up a
request (`TakeUp`), fills the list until it has `Batch` words or the text ends
(`FillList`), and sends the packet in pieces (`Send`: `send()` takes any number of
the bytes that are left and for which the socket has room). After the last byte,
or an error (`SendError`), the list is cleared and the worker goes on behind it;
`OnSegmentWord` does not look at what sending returned. Bytes are numbered within
their packet; what is in them, and the 8 bytes a packet is longer than its words,
are in `HeadSize`. A word is one byte where the code has 36, so that partial
sends can end inside and between words. `EAGAIN` is a retry that changes
nothing. Errors after which a later `send()` works again (`ENOBUFS`, `EINTR`) and
two workers on one connection are admitted; the history variable `mixed` says
whether either has happened.

### Dictionary array

`BufferTrie` is the array of elements. An element's second word is the union
`offset`/`value` of the code. A dictionary comes as rows of a file, breadth
first (`InsertWord` for a `p` row, `InsertPrefix` for `c`, `PassTerminator` for
`d`), or as a `Trie`, which is filled in any order (`InsertKey`) and then laid out
(`BuildNode`). The files themselves are not in the repository; the module takes
the two layouts `insert_sorted` is written for: a `d` row for every word
(`terminated`) or only for words that are prefixes of others (`compact`; this is
when a `p` row has no children). `Grown` is `__resizeElm` with both sizes
`realloc` may be asked for. A save may be cut short; `load` and `verify_core` then
decide. `DictsAssumption` says what a dictionary is: finitely many words, at least one,
with values that are natural numbers, and no 0 in a word, since 0 closes it;
`TextsAssumption` what a text is: characters of two bytes (`Width`), none of them 0. The lookups are operators: `BinarySearch`, `MultiNMatch`, `NGet`,
`MaxNMatch` and the others.

`ArrayExact` and `TrieExact` are the two parts of `LookupsExact`: every lookup
against the mapping the dictionary was made from, for the array in memory and
after loading, and for the `Trie`. What else than a key the lookups report, the
value of a first leaf (`ValueOf`), and which pairs of characters they find (`Pairs`)
is defined from the dictionary alone.

### Patterns

`DfaBuild` is `InitFromNfa`, node by node: `TakeNode` and `TryMove` are the two
loops, `EpsilonClosure` one round of the closure, `CreateDfaNode` (in `FirstNode`
and `AddEdge`) looks the set up in `id_map_` or makes a node. An Nfa is a record
of its nodes, their types, symbols and edges; the repository has only its
interface (`nfa.h`), so which ones there are is the constant `Nfas`.

`DfaTables` has the two files as sequences of numbers: `Serialization` and
`InitFromFile`, `StoreNodes` (`StoreToMmap`) and `MmapMachine` (what
`InitFromMmapFile` maps). `Written` is the record of one node and `ReadNode` its
reader; `TypeSection`, `Level1Section` and `Level2Section` are the tables, where the
`Rank` of a row among `UsedRows` is the number of its block. A *machine* is what a matching function sees of an
automaton: a type for each state and a target for each state and symbol.

`DfaMatch` has the nine matching functions over a machine. They are written out
one by one in the code and share their loops, so `Begin`, `Scan`, `Finish` are one
round each of the outer loop, of the inner loop and of what follows it; their
arguments say where the functions differ: whether a match before a change of type
is reported, whether there must be room, whether the scan is left when there is
none. `MatchInMmapPattern` for `UINT16` (`prefix`) looks for room only after it has
written, and is called without room too. `AnyMatch` has the queue of places to begin again (`Restart`).

`Patterns` composes the three: an automaton is built, then adopted as it is
(`UseNodes`), through its serialization (`UseFile`) or through its mapped tables
(`UseMap`), then searched once. The reference for `MatchExact` never looks at the
automaton. It follows the paths of the Nfa through the text: `Met` are the nodes met
from a position on, `Accepts` the types they accept with, `Cuts` the matches of a
position that no longer one of the same type follows, `Munch` the whole text cut into
them, `Begins` the positions `AnyMatch` gets to over matches that were cut off, and
`AllMatches` the matches from each. `Nfas` are those whose nodes read one of the
symbols the Nfa lists (`nfa.h:64-65`) or none.

### Life of a dictionary

`Dictionary` is one object, either an `NGramDictManage` as the programs use it or
a `Dfa` whose methods are called in any order, in a process that opens and closes
other descriptors. `maps` and `open` are the mappings and descriptors of the
process; `open` gives the lowest free number, so a number kept after its
descriptor was closed (`fd_map_` after `ClearMmap`) may come to mean something
else. Each call succeeds or fails where the code can fail: files that are
missing or empty, a `mmap` that refuses a file of any size, exceptions of the
automaton that nobody catches. A refused file leaves `map_size_` as it was read
while `mmap_pattern_` is false, so the next file is mapped with that size
(`refused` remembers it); an empty file mapped so ends the process when its first
`INT32` is read (`ReadsNothing`). Sizes are in bytes: `map_size_` counts whole `INT32`,
so `munmap` is given up to three bytes less than was mapped. It takes whole pages, and
a page that begins in those bytes stays (`PagesLeft`).

`CharSegs`, which it extends, is `get_segs_ex` and `get_segs` for UTF-8: `Convert`
is one character of `utf8ToUtf16`, `CharWord` one word of the search converted
back into its buffer.

### Packets

`PacketCodec` has the conversions between packets and bytes, of the server
(`PacketStream`, `UnpackStream`) and of the client (`RequestStream`,
`UnpackHead`). A byte is a record that says which byte of which value it is: a
value is found again only where all its bytes stand in their order. Lengths are
real and wrap at 16 bits (`Int16`). `UnpackStream` ends each string of a fixed size
with a zero, at the place the count of `ReadData` gives (`Terminated`). `ReadData` is
not in the repository: it may count the bytes, or one more as the code seems to
expect (`Extra`); in the first case a string that fills its field (`Full`) loses its
last byte. An unknown code is not unpacked (`NoPacket`). `PacketChannel` sends requests
and answers: `Replies` is what the two plugins do with each kind of packet, the batches
of `OnSegmentWord`, the echo of `OnSegmentEnd` (in which `reserved` and `session_id`
change places), the digest. The answers reach the client in pieces cut anywhere (`Receive`), `CutOff` is
`net_wok`, and `due` remembers which answers a piece completed.

### Mutated forms

Each module ends its definitions with, or has beside the definition concerned, a
few operators that no action uses (`GrownExactly`, `FirstWins`, `CutForgets`,
...). They are forms of that definition a plausible bug would give; each property
is known to fail with one of them (`PROJECT.json`, `mutants`).

## 4. Runs

| Run | Instance | What it shows |
|---|---|---|
| `search` | every dictionary over chunks of 3 characters, with and without pattern matches, and full buffers for both kinds of characters, one after another in the same arrays; buffer of 2 | types and array bounds, optimal memo, frozen until the next chunk; words that tile the chunk and are candidates; implements `BestSegmentation`; every chunk is answered |
| `digest_workers` | 1 descriptor, 2 articles, 2 workers in parallel, 5 messages | exact digests, exact cache, fresh copies; every worker comes back |
| `digest_connections` | 1 descriptor, 2 connections one after another, 2 articles, 2 workers, 3 messages each | implements `DigestService` |
| `digest_forgets` | 1 descriptor, 1 article, 1 worker | violation: the entry the comment says is deleted stays |
| `handles` | 2 descriptors, 3 workers, 2 units each | exact counters, no unit deleted while in use, none left over, none deleted twice where workers take turns |
| `text_split` | every text of up to 5 characters, limit 2 | adjacent copies, true labels, whole texts, no partial list after an error; an end |
| `send_stream` | 3 requests of 3, 2 and 0 words, batch of 2, 2 workers, errors anywhere | whole packets while workers take turns, exact answers, order kept after errors; every worker comes back |
| `trie` | every dictionary over words of up to 2 characters of an alphabet of 2, and every pair of words of up to 3; 3 ways of building; block of 4 | exact lookups before and after save and load, nothing overwritten, last element free, file complete or refused |
| `patterns` | 33 Nfas of four nodes, every text of up to 2 symbols and some of 3 and 4, every matching function, buffers of 0 to 2 | exact subset construction; matches fit, but for the one `MatchInMmapPattern` for `UINT16` may report without room, and are those of the Nfa, as built and as loaded; everything returns |
| `packets` | two requests, of each of the seven kinds clients send or of an unknown one, the longest of exactly the greatest length, strings that fill their field; up to four answers in pieces that end between packets, inside a length and further on | packets of every kind are read as they were put in, plain and compressed, packed by the client and by `PacketStream`, but for the last byte of a string that fills its field; the client keeps in step and gets what is due |
| `packet_digests` | the same | violation: the client reads the digest at a fixed place of the piece |
| `dictionary` | a manager or an automaton, 2 descriptors, 3 places for mappings, files of 0, 2, 9 and 12 bytes, pages of 8; every text of up to 3 characters of 1 to 4 bytes or broken ones | what is used is mapped, also after a refused `mmap`, nothing is left behind but rests of files of 9 bytes, UTF-8 texts come back |

Why the bounds are enough. Three characters give words that overlap, nest and
compete in every way two levels of recursion can; a buffer of 2 is overrun by
the 3 words of the first position. Two workers are one that
holds the lock and one that waits, or one that replies meanwhile; five messages
are a unit and an end of each of two articles, and one more of either. A block of 4 makes the array of the larger dictionaries
grow two or three times. Three workers and two units let one worker take a unit
out while its maker and the maker of another one are half way through `Release`.
A limit of 2 and texts of 5 give pieces below, at and beyond the limit, before a
separator and at the end of the text. A batch of 2 and texts of 3, 2 and 0 words
are a batch and a half, one batch and none; the socket holds 2 bytes and a packet
has 2 or 3, so every large one is cut, at each place. Nfas of
four nodes have two accepting nodes, loops, common prefixes and edges that read
nothing in every combination that makes a set of more than one node; buffers of 0
to 2 are none, one that fills and one that may not. With two symbols beyond the
alphabet a text can leave it, and with `Wide` 4 a character beyond two bytes wraps
around. `MaxShort` 110 makes one request the longest that fits and another one
a byte too long; batches are of 2 words, so 0, 1 and 3 words are none, a part of one,
and one and a half. Files of 0, 2, 9 and 12 bytes are empty, no whole `INT32`, a byte
over a page, and whole; two of them are one after a refusal of the other. Two descriptors are the automaton's and somebody else's; each may come
to have the number the other had. Three characters are one before and one behind
a broken one. `UnitHandles.cfg` declares workers and descriptors symmetric; it
checks invariants only.

`CHECK_DEADLOCK FALSE` is set because every instance ends: messages, chunks and
dictionaries are bounded.

Fairness. The search and the splitting of a text are one thread that runs on
once started, so its steps, but not the arrival of another chunk, are weakly fair. A worker with a message is weakly fair in
what it does with it (`Handle`); clients and the dispatching of messages are
not. The lock is a `pthread` lock that gives no order to those who wait; weak
fairness of each worker is enough because each descriptor's messages are
bounded. A worker of `SendStream` is weakly fair in what it does with its request
(`Work`), of the errors only in that of a closed connection; the client is not: `WorkersComeBack` is stated for clients that empty the buffer again and
again or close, because `SendFull` retries for ever otherwise. The thread that
builds an automaton, and the one that searches, go on (`FairSpec` of `Patterns`);
which automaton is used how, and whether it is searched, is not assumed.

## 5. Proofs

`SegmentSearchProofs` proves, for every text size, set of chunks and buffer
size admitted by `SizesAssumption` and `ChunksAssumption`: `TypeOK`,
`StackIncreasing`, `MemoOptimal`, `WordsRight` (tiling and truth) and `MemoFrozen`.
`MemoOptimal` alone is not inductive: the invariant `Inv` also says what every
frame on the stack knows (the best of the candidates it has tried, attained by
`segs` and `type`), that positions grow along the stack, and that the value on
its way back is the memo of the position it was asked for. Words are a second
invariant, `WordsOK`, on top of it. `CapPrefix` and `MatchesInChunk` are the
lemmas about candidates. `FindsBest` is the refinement: the walk answers each chunk
with a tiling of maximal total weight among all tilings (`BestSegmentation`), every
other step is a stutter. A third invariant, `AnswerOK`, says that the words cut so
far weigh what the memo promised at the beginning less what it promises here; that
no tiling is heavier (`NoneBetter`) looks at the last place where a tiling's rest
outweighs the memo, since `MemoOptimal` compares one step only. `Total` is a fold
over a set, unfolded by `SumAdds`.

`DigestCacheProofs` proves `TypeOK`, `CopyFresh` and `UnitsReachable` for any
number of descriptors, articles and workers, parallel or not; together they
are inductive. So are they with `CacheExact`, since every critical section ends
with the list it changed and the log at once. `RepliesExact` counts, over the
history, replies against ends; it says nothing of an end that is still being
answered unless the reply a worker is about to send is counted with those that
were sent. `Accounts` is that sum for any sequence of units; it is kept because what
`CreateDigest` takes from the cache is what the log says of that end (`CacheExact`). `ThreadsAssumption` says that the pool of workers is
finite, so that they can be counted. `Implements` is the refinement:
`ImplementsService` holds of every behaviour with `~Parallel`. Its invariant is
`OneBusy`, a connection has one worker at most, so that the queue of the service
is what that worker has in hand followed by the inbox, and its replies are those
sent followed by the one in hand. Every action is then a step of the service or
leaves its state as it is: a reply of the service is its worker's critical section,
`SendDigest` a stutter.

`UnitHandlesProofs` proves `TypeOK`, `CountExact`, `HeldAlive` and `DeletesExact`
(`NoLeak` and `DeletedOnce`) for any number of descriptors, units and workers. The invariant `Inv` adds to `CountExact`
and `HeldAlive` that handles are of units that were made (`MadeFirst`), that
`CreatFullText` runs under the lock (`Section`) and that a unit not yet stored is
known to its maker only (`FreshOwned`). Counting the owners after a step is
`Recount`, a lemma about a function and one of its updates. `DeletedOnce` needs
more (`Serial`): on a connection that was never shared one worker is busy at most,
and no deleted unit is in anybody's hands.

`TextSplitProofs` proves every invariant of `TextSplit`, `OutputExact` with all its parts, for texts of every size
and every limit. The invariant adds what a turn knows between the match and the
copies: piece and separator fit in the rest (`TurnFits`), a piece that was not cut
is free of separators (`TurnExact`), the rest is valid once something was
returned (`RestValid`).

`SendStreamProofs` proves every invariant of `SendStream` for all requests, sizes
and numbers of workers. The invariant for `Framed` adds, while the stream is not
`mixed`, that at most one worker is busy (`OneBusy`) and that the stream ends
where that worker is in its packet (`Place`). `InOrder` and `AnswerExact` hold
of `mixed` streams too. They need that a request is waiting or in the hands of
one worker, never both, with nothing on the stream beyond the place that worker
has come to (`Turns`), that a worker's packets begin at batches (`AtABatch`), and
that without an error nothing is missing before that place (`Exact`).

`DictionaryProofs` proves `MapLive` and `NothingLeft` for any sets of descriptors,
places, page size and file sizes. `DictionaryAssumption` says what the system calls promise:
descriptors are natural numbers, no mapping is at `NULL`, sizes are natural numbers and
pages have at least a byte. The invariant says what `MapLive` does
not: whose each mapping is and that the two are different (`Owned`), that the
descriptor a mapped automaton remembers is its own or somebody else's
(`Accounted`), and how far the manager has come (`Stages`).

`TextIsKept` is about the segmentation of UTF-8 texts by the same manager
(`CharSegs`), for any texts (`TextsAssumption`: sequences of bytes) and whatever
words the search cuts. `TextKept` speaks of the
answer only; the invariant `CharInv` says of every well formed beginning of the text
how far the conversion is in it: either its characters are found, and encode back to
it byte for byte, or the conversion stands before another of its characters
(`Taken`). That a character is read back from its bytes needs its bits, by the
number of bytes (`DecodeOne` to `DecodeThree`), that the shortest form was used
(`Shortest`: `0xC0` and `0xC1` lead characters `utf8ToUtf16` takes and
`utf16ToUtf8` writes shorter), and that in a well formed text the next byte begins
a character (`Whole`). `AllEncoded` says that the room `3 * n + 1` is never the
reason to leave a character out, and `Answer` that the words are the first
characters. The proof showed what the runs had not: a byte 1 of the text is lost in
the answer of `get_segs`, whose separator it is, so `TextKept` compares that answer
without them. `FlattenSeq` is a recursive function; `FlattenAdds` and `FlattenJoins`
unfold it, by a least counterexample.

`BufferTrieProofs` proves `TypeOK`, `LastSlotFree`, `KeepsWritten`,
`SavedComplete` and `LookupsExact` for any dictionaries (`DictsAssumption`), for the three ways of building,
a `Trie` filled in any order among them, and for both sizes `realloc` may be asked for.
`BlockAssumption` wants `Block` even, as 512 is: one and a half times an odd block is
rounded down and may be no greater than the index that was asked for. No property
is inductive: that a step writes over nothing depends on where all later rows and
nodes will go. For rows (`RowsLaid`) the invariant says that
`offset` is one more than the number of children of the rows behind, that the rows
that close words already seen have their elements in the array (`EndsFit`), and that nothing
is written but those and the elements of the rows behind (`OnlyLaid`). It holds because breadth first is a total order of the
nodes (`BeforeOrders`), so that a row's place is the number of the nodes before it
(`PlaceGrows`), and the row that closes a word is the first of its children (`EndPlace`):
`PassTerminator` need not write. For a `Trie` (`QueueLaid`) the slots of the queue
follow each other up to `offset`, and the nodes that have left it are as many as the
slots before; when it is empty these are all of them (`AllNodesLaid`). A `Trie`
whose words were all inserted has the nodes of a file with every word closed
(`KeysAll`). That there are enough elements for the nodes (`DoneInv`) is then kept up
to the file. What needs induction looks at a least counterexample, since the
library's induction rules cannot be used.

`PatternsProofs` has five parts; the last two put the others together.

*Construction.* `SubsetExact`, and the types, of `InitFromNfa` for every Nfa, whose
symbols are distinct and ascending (`IsNfa`). `SubsetExact` speaks of
expanded nodes only; the invariant adds what the closure under way is (`Grows`:
it contains the set it began with, lies in every closed set that does, and only
nodes of the queue may miss successors, so that an empty queue makes it the
closure), and where the loops are (`Loops`, `EdgesOK`): the node being expanded
heads the queue, its edges over the symbols tried are exact and the others are
missing, and every node not yet expanded is in the queue, so that an empty queue
means that all are. `Greatest` gives the type of a set its last accepting member.

*Matching.* `ReportsFit`, and the types, of the nine matching functions for every
automaton, text and size of the buffer, 0 included: there the function for `UINT16`
may report one match, all others none (`Short`, `Hold`). `ReportsFit` says how
matches lie to each other, which no step can know from the result alone: the
invariant adds where the scan and its last accepting state are (`Where`: that
state lies strictly behind the beginning because the first one does not accept),
when there is room (`RoomOK`), and that the last match reported ends where the
scan begins or is an earlier one of the same beginning (`NextOK`), except that
the `prefix` and `longest_buffer` functions may stop with one when the buffer is
full. `AppendReport` is the lemma about a list that grows by a match that
follows.

*Files.* `MapKept`: what `InitFromMmapFile` sees of what `StoreToMmap` wrote is the
automaton that was stored, whatever the number of nodes, edges and blocks.
`FileKept`: so is what `InitFromFile` reads of what `Serialization` wrote, and so are
the types. An `Automaton` has edges over two byte symbols to its own nodes. The
lemmas are about ranks (`RankGrows`, `InOrderOfRank`: listing a finite set in
ascending order loses nothing), about a number and its two digits (`Digits`,
`OneWay`: no two entries share a place in a block), about where the sections of a
file lie (`Sections`, `FileSections`) and about a file of records of different
lengths: `Flattened` says where each begins, and `Walked` that the reader,
who finds each from the length of the one before, comes to the same places.
These two are inductions; they are made by looking at the least place where the
two functions would differ, which the provers can follow where the library's
induction rules, that take an operator, cannot be used. `PatternsAssumption` says
that symbols have two bytes (`UINT16`).

*The whole.* `TypeOK`, `SubsetExact` and `ReportsFit` of the specification
`Patterns` itself: when construction is over the invariants of the first part make
its nodes an `Automaton` (`Built`), which by the third part is what a search
finds, however it was stored, and is what the second part asks of one
(`Searchable`).

*The answers.* `MatchExact`: from the Nfa to what a call returns, for every Nfa, text,
function and form of the automaton. A state of the automaton stands for the set of
nodes it was created from (`Simulates`, from `SubsetExact` by `BuiltSimulates`; the
two files keep it). So a scan meets what the text leads to, and its last accepting
state is the last position at which the text is accepted (`Track`, by `RoundIs` and
`SureNext`), except that a scan that was left early has filled the buffer. What a
round reports depends on characters that are not read yet; `Sure` are the positions
whose match the characters read already decide, `Line` lists them, and
`CutsPrefix` says that they lead what the whole text will give. The invariant has one
part for each kind of function. What was reported and the rest of the text cut are the
text cut (`GreedyCut`, `LongestCut`), the report leads that (`Leads`, with
`FitIs` for a buffer that is full), and so with the scores (`PrefixCut`). For `AnyMatch`
(`AnyCut`) there are beginnings that are done, the one the scan is at, and those that
wait in `start_positions`; every match that was cut off ends at one of these, so
that when none waits all of `Begins` are done, whatever their order and however often
one was queued. `Served` says when a call is refused. The references are recursive
functions; that they unfold (`MetIs`, `MunchIs`) is shown by a least counterexample.

Only model-checked: liveness, which with `ENABLED` is out of the prover's reach;
and `PacketChannel`, whose packets are put together and taken apart by `FlattenSeq`,
a byte at a time in between.
No `RECURSIVE` operator is used in a module with theorems.

## 6. Findings

* `digest_cache_manager.cc:149-150` says it deletes the node and deletes it from
  a copy: articles stay in the map for ever, with empty lists (`digest_forgets`).
* `packet_processing.py:118` documents where the body of a packet begins; line
  148 reads it at byte 16 of the data, which is inside the head, and of the piece
  `dataReceived` was given, not of the packet `net_wok` returned: the article
  number is never the one sent (`packet_digests`).

Modelled as the code has it, though a reader may not expect it:

* `relrank_dict.cpp:69` cuts a piece of more than 1000 characters, which its
  comment calls a hard break; when the piece is the last one the rest is dropped,
  and when a separator follows, the characters copied for it (line 98) are those
  after the cut. `OutputExact` states wholeness for texts without such pieces.
* `bufferTrie.h:526` takes the first child for the value of a prefix whatever its
  key, so `multi_nmatch` reports a prefix that is no key.
* `save` (`bufferTrie.h:95`) leaves its loop after a short write and still returns
  true, `dump_core` returns true whatever it says; what was saved half is refused
  or harmless when loaded (`SavedComplete`).
* `load_char_core` returns true on a second call although the first one failed.
* `Dfa::Clear` leaves `fd_map_` (`dfa.cpp:278`) although `dfa.h:28` says it clears the
  members; `MapLive` excepts it. A number kept that way can later be closed
  when it belongs to somebody else only through calls in an order no program has.
* A byte that begins no character, and so every character of four bytes, ends the
  conversion (`transcode.cpp:118`): what follows is not segmented. `TextKept` states
  exactly that.
* `get_segs` separates words by a byte 1 (`relrank_dict.cpp:127`); a 1 of the text
  cannot be told from it. `TextKept` leaves such bytes out of the comparison.
* `get_segs` for UTF-8 passes the size of the whole buffer for each word, not what
  is left of it; `TextKept` supposes eight times the text, as a comment in
  `dict_test.cpp:117` has it; nothing else in the repository calls it.
* `InitFromMmapFile` keeps the size of a file `mmap` refused (`dfa.cpp:48`), and a file
  of one to three bytes over whole pages is not unmapped whole (`dfa.cpp:51`);
  `StoreToMmap` writes none. `MapLive` and `NothingLeft` say what remains true. To a
  manager the first never happens: its process ends with the exception.
* `MatchInMmapPattern` for `UINT16` (`dfa.cpp:803`) writes before it looks for room, and
  `get_seg_ids` (`ngram_dict.h:270`) may give it none.
* `SendHeadMessage` takes session and reserved in the other order than its macro
  (`send_comm.h:42`, `send_comm.cc:97`): the echo of `OnSegmentEnd` has them exchanged.
* A string that fills its field may lose its last byte (`ptl_packet.cc:200`), which
  depends on the framework.
* `DeletePacket` (`ptl_packet.cc:467`) frees only packets of `WORD_SEGMENTER`; the others
  are never freed. What is allocated for packets is not modelled.
* A packet whose length exceeds an `int16` wraps around and overruns its buffer
  (`ptl_packet.cc:15`); `Fits` keeps requests below. The client packs lengths as
  unsigned, the server reads them signed.
* `AnyMatch` of an automaton of nodes has an empty body (`dfa.cpp:1060`), and the
  queue of `AnyMatch` of the tables begins with seventeen zeros, so that
  everything is reported seventeen times.

Not a finding, since nothing in the repository says otherwise, but worth knowing:
if the framework gave two messages of one connection to two workers, `Release`
(`digest_basic_info.h:49-50`) would delete a unit twice, as both workers can read
the counter after both have decremented it. `DeletedOnce` is stated, checked and
proved of connections that were not shared. In the same case, or after an error
from which a connection recovers, `SendFull`, whose lock is commented out
(`send_comm.cc:11-13`), would mix or break packets; `Framed` is stated of streams
without either, and `AnswerExact` and `InOrder` say what holds with them.

## 7. Not modelled

The components of the inventory without a module, each with its reason in
`PROJECT.json`: index maps and the atom recogniser, which no program of the
repository calls, the loader and the command line tools, which keep no state.
Within the modelled ones: `suffix_nmatch` and `build_transcode` (never called), a
head of a dictionary file that is cut off in the middle, `StoreToMmap` of an
automaton that is itself mapped (no program does it; it writes the count twice,
`dfa.cpp:186`), pattern files that are cut short, `get_sub_ids`, `SendBytes`,
`DeletePacket` and `ClearWordList`, handles of `DigestInfo` (only
touched under the lock) and `WordUnit` (one thread), the string helpers of
`utility.cpp`, the wording of replies, logging, Python start-up, floating point
rounding (weights are integers).
