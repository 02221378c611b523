# VideoMatch: specifications, model checks and proofs

VideoMatch finds near-duplicate videos.  A client turns a video into a list of
64-bit frame hashes and posts it to a match server, which keeps all videos in
memory, indexes their frames, answers "which stored videos match this one", and
saves itself to a file on request.  A second, independent server shows the frames
of videos in a browser.  This directory holds TLA+ models of that system, the TLC
configurations that check them, and TLAPS proofs.

## 1. Inventory

| Component | State | Operations | Used by |
|---|---|---|---|
| Match engine, `server/VideoDB.*` | `db_` (name to video), `table_` (slot to block of hash/video pairs), `mutex_`, a reference count and `uniq_frm_cnt` per video | Load, Add, Query by frames, Query by key, Save, Count, FramesCount, FrameTableSize (Remove is empty) | request processor |
| Candidate scoring, `VideoDB::check_candidate` | none (two local arrays of marks) | score of two frame lists | match engine |
| Database file, `VideoDB::Save`/`Load` | `tmp_videomatch_db.bin`, `videomatch_db.bin` | write and rename, read | `/save`, start of the server |
| Request processor, `server/RequestProcessor.*` | the pointer to the engine | Process (add, query_duplicate), Query by key, Info, SaveDB | match server |
| Match server, `server/main.cpp` | none | dispatch of /info, /save, /exit, /querykey, POST; start | clients over HTTP |
| libtws (header only in the repository) | 4 pool threads, 1 network thread | run handlers | match server |
| Log, TimeCounter | a log file and its mutex | LogMsg | everything in the server |
| Browse server connection, `browse_server/http_server.*` | state, buffers, flags of one connection | read, parse, process, write, start again | network thread, pool threads |
| Browse server thread pool, same files | up to 16 threads, each with queue, mutex, condition variable | push_to_threadpool, thread_proc | connections, if the handler asks for it |
| Browse server frame cache, `browse_server/main.cpp` | an LRU list of loaded videos and a byte limit | LoadPath, LookupSize, Lookup, load, evict | page handler |
| Client requests, `client/Requester.*`, `client/main.cpp` | none | add, query | user, scripts |
| Client hashing, `client/ImageProcessor.*` | none | GetHashCode, crop_border, mirror | client |

How they interact.  The network thread of the match server accepts requests; it
answers `/info` and `/exit` itself and hands everything else to one of four pool
threads, which call the request processor, which calls the engine.  All threads
share one `VideoDB`.  Its mutex protects the two hash tables; videos are immutable
once they are in `db_`, so a query collects its candidates under the mutex, takes
a reference to each, and compares them without it.  `Count()` and
`FrameTableSize()` read the tables without the mutex.  The database file is
written by a pool thread that holds the mutex all along, but opens the temporary
file before it takes the mutex.  The process may be stopped at any time by `/exit`, or
by an exception that a JSON document makes `Process` throw.
The client program is run once per video or query: it hashes the pictures of a
directory in alphabetical order, posts one request, waits without a timeout, and prints
the reply; an error of the connection is not looked at.
The browse server is a separate process that shares no state with the match server.
Its network thread runs all callbacks of all connections; a handler may ask for a
pool thread, and the network thread then puts the connection into a thread's queue.

What is hard, and what makes each part correct:

- *Engine*: interleavings of adds, queries and saves; unlocked reads; a query by
  key in two critical sections.  Correct when every reply is one that some
  instantaneous execution gives, the index lists exactly the frames of the stored
  videos, and references are counted exactly.
- *Database file*: a stop between any two steps, a leftover temporary file, two
  saves at once, writes that fall short.  Correct when the db file is always whole
  and holds what `/save` has answered for.
- *Scoring*: which marks are overwritten in what order; integer division; the bit
  table.  Correct when the score stays within 0 and 1, a video matches itself
  fully, and better marks are never lost.
- *Request processor, dispatch and client*: lost and late requests and replies, a client
  that is run again, an exit or an exception with requests in queues, a start with what
  was saved.
  Correct when what users may conclude from replies is true of the store, and what they
  know to be stored is found.
- *Connection and pool*: bodies in pieces, flags and buffers kept over requests, sizes read
  without the mutex, lost notifications, a mutex held while a request is processed.
  Correct when a connection is with one thread at a time, requests are served in order
  and once, and both the request and the network thread get on.
- *Frame cache*: links and eviction; correct when it implements an LRU map.
- *Hashing*: pictures that cannot be read, are too small, or have borders all over.
  Correct when what is kept lies in the picture and frames are those of the directory.

The full list of what a test would hardly reach is `hazards` in `PROJECT.json`,
each at its line with the properties that cover it.

## 2. Modules

| Module | What it is |
|---|---|
| `VideoIndex` | the data: hashes, slots, blocks, the candidates of a query; constants only |
| `MatchStore` | abstract: what the engine promises, a store in which every add and query takes effect at one instant |
| `VideoDB` | the engine under its threads; implements `MatchStore` |
| `MCVideoDB` | its instance for TLC |
| `VideoDBProofs`, `VideoDBAddProofs`, `VideoDBStoreProofs` | proofs about `VideoDB` |
| `CheckCandidate` | the scoring loop over the frames of a query and of one stored video |
| `BitCount` | the bit table and `diff_bits` on hashes of eight bytes |
| `MCCheckCandidate` | their instance for TLC |
| `CheckCandidateProofs` | proofs about `CheckCandidate` |
| `DurableStore` | abstract: what saving promises, the disk gets the whole store at one instant |
| `DBFile` | `Save` and `Load` over a file system, with exits and power failures; implements `DurableStore` |
| `DBFileFaults` | the same with open and write that fail |
| `MCDBFile`, `MCDBFileFaults` | their instances |
| `DBFileProofs` | proofs about `DBFile` |
| `LruCache` | abstract: a cache of the most recently used videos that fit a limit |
| `FrameCache` | the browse server's linked list of videos and its handler; implements `LruCache` |
| `MCFrameCache` | its instance |
| `FrameCacheProofs` | proofs about `FrameCache` |
| `HttpRequest` | how a connection of the browse server reads a request; constants only |
| `Responder` | abstract: what the HTTP server promises a peer |
| `HttpServer` | connections, network thread and thread pool; implements `Responder` |
| `MCHttpServer` | its instance |
| `HttpServerProofs` | proofs about `HttpServer` |
| `ImageProcessor` | the borders the client finds and what it makes of a picture; constants only |
| `RequestProcessor` | what the match server makes of a request; constants only |
| `VideoMatch` | clients, network, dispatch, engine (as `MatchStore`) and db file (as `DurableStore`) together |
| `MCVideoMatch` | its instance |
| `VideoMatchProofs` | proofs about `VideoMatch` |

Definitions named `X_Something` that are commented "a deliberately wrong variant"
are not part of the models: each is the definition `X` with a plausible bug, and
shows that a property notices that bug.

### VideoDB

`mutex_`, `db_`, `frames_`, `uniq_frm_cnt`, `ref_` and `table_` are the members of
`VideoDB` and `DataItem` of the same names.  A `DataItem*` is modelled by its
video's name: there is one object per name and none is ever deleted, because
`Remove` is empty and `destroy` is never called.  The other variables are per
thread: `pc` its next step, `req` its request, `todo`, `left`, `held` and `result`
the locals of the function it is in, and `reply` what it is about to send.
`info.counted` is a history variable.

Each function is cut where other threads can see the difference.  A critical
section that only reads is one step guarded by `MutexFree` (`AddExists`, `Lookup`,
`GetCandidates`, `InfoFrames`).  One that writes takes and releases the mutex and
has a step for each change of a table (`AddNew`, `AddInsert`, `IndexBegin`,
`IndexPush`, `AddDone`; the `Load` steps), because the unlocked readers see what is
in between.  `CheckCandidate` is the loop body of `Query`, without the mutex.  The
save loop takes and drops a reference per video; what it writes is left to `DBFile`.

The two unlocked reads of `/info` are data races of the C++ program.  The model
gives them the value of the table's size at some point of the insertion, which
is what a build that reads one word gives.

The score of `check_candidate` is the constant `Score`, a percentage.  The one
thing assumed of it (`SelfScoreAssumption`: a video that is not empty has the full score
against itself) is what `SelfScoreIsFull` proves about `CheckCandidate`.

### CheckCandidate

One pair of lists per behaviour, `cf` of the query and `bf` of the stored video, and only
pairs that `get_candidates1` lets through: they share a frame that is not empty.
`bmark`, `cmark`, `skipped` and `i` are the locals of the same names, with positions from
1; `left` is what the inner loop over `equal_range` has still to visit, in any order, as
an `unordered_multimap` promises none.  Each path through the body of the loop over `cf`
is an action: `SkipMatched`, `FoundCMF` and then `VisitCMF` per place, `SkipMDF`, `NoMDF`,
`FoundMDF`.  `check_range` visits every frame at most once, so one call is the set of
distances it gets to (`Reach`) and the marks it lowers there.  `Diff` is `diff_bits`; the
instance takes it from `BitCount`, with the table as the code builds it.  The score is
kept as a fraction, with the code's integer division but without the rounding of `double`.

### DBFile

A file is a sequence of cells: the number of videos, then per video a head (name and
number of frames) and a cell per frame.  `BS` cells make a block, as 8192 bytes do in
the code.  `check_flush` never splits a head or a frame, so nor does the model; it is
assumed that a head fits a block (in the code: a name of less than 8 KB).  The
directory has the two names `tmp` and `db`; `dir`/`file` are what processes see,
`ddir`/`synced` what is on the medium.  It is assumed that directory operations reach
the medium in order, that `fdatasync` makes a file permanent, and that unsynced data
is old, new or lost after a power failure.  `asked` and `promised` are history
variables: what was stored when a `/save` came in, and what has been answered for.
The log file `videomatch_log.bin` is left out, as nothing writes it.

### FrameCache

`data_` is the map of the same name, from keys to the frames that could be read; `list`
holds `head_`, `tail_` and the `prev_` and `next_` of every cached item; `reply` is the last
reply.  The handler never asks for the thread pool, so requests are served one at a time
and each is one step: `Lookup` for `/image/`, `LookupSize` for `/browse/` and `/browseall/`.
`load` may find any part of a video's frames, as it skips what it cannot read.  Every frame
counts one unit of size.  A handler that goes on with an iterator at the end has undefined
behaviour; the model ends with the reply `UNDEFINED`.  Only the documented forms of URL are
modelled: `/image/#key` without a number reads past the parsed path (`main.cpp:292`).
The comment at `main.cpp:213` calls that page `/img/`, the code and its own links `/image/`.

### HttpServer

`HttpRequest` is `try_parse_request`.  The bytes a peer sends are units, one for each thing
that function searches for (method, version, `Content-Length` line, other line, empty
line, byte of a body); reads cut the stream anywhere between units.  In `HttpServer`,
`state_`, `threaded_`, `http_ret_`, `request_`, `post_` and `postsize_` are members of
`HttpConnection`, `threadnum_` and `q_` those of `HttpServer`; `io` is the asynchronous
operation a connection waits for, `shut` whether its socket is shut down, `worker` where a
pool thread is in `thread_proc`, and `net` where the network thread is in
`push_to_threadpool`.  `taken`, `replied` and `by` are history variables.

A callback is one step (`Accept`, `ReadHeader`, `ReadPost`, `ReadError`, `HandleWrite`).
`push_to_threadpool` is cut at each queue whose size it reads without a mutex (`Scan`), at
the creation of a thread (`Choose`), and where it takes the mutex (`Push`).  `thread_proc` is
cut where it takes the mutex (`Lock`), pops (`Pop`), processes (`Process`), waits (`Wait`) and
wakes (`Wake`); `Spurious` is a wake-up that nobody asked for.  The mutex of a queue is held
by its thread except while it waits, so a push is possible just then; that is
what the guard of the push says.

The handler is a constant, as it is a function pointer in the code.  The one in
`browse_server/main.cpp` has its use of the pool commented out (289-290); the instance has
that line, one handler that always asks for another thread, and one that returns no code.
The bytes of replies are left out, with one remark: the empty line of a reply is a buffer
over a temporary string (`http_server.cpp:148`) that is gone when it is sent.

### VideoMatch, RequestProcessor and ImageProcessor

A run is one invocation of a tool: the client program with its options, or another tool
(a browser, `curl`) with any message the server may be sent.  `pc` is where it
is, `mail` where its request or reply is, `letter` the reply on its way, `got` the one it
printed.  Trying again is another run for the same thing.  `store`, `phase`, `request` and
`answer` are the engine, which is the module `MatchStore`: `VideoDB` implements it
(`ImplementsMatchStore`).  In the same way `Save` is one step, as `DBFile` implements
`DurableStore` when one save runs at a time, and jobs have one `/save` at most
(`RunAssumption`); what two of them do is the subject of `db_file_two`.

`my_handler`, `NeedsPool`, `Refusal` and `Throws` in `RequestProcessor` are the decisions of
`my_handler` and `Process`, in the code's order.  `Dispatch` and `Exit` are the network thread,
`Take`, `RefuseMalformed`, `Throw`, `CallEngine`, `EngineStep`, `ReplyFromEngine` and `Save` a
pool thread.  `Exit` drops every request the server has taken in: `exit(0)` is called beside the
pool threads.  `Throw` has the same effect (`ProcessEnds`): `isMember` throws on a document that
is a string, a number or an array, and `asUInt64` on an element of `frames` that has no such
value (`RequestProcessor.cpp:54`, 73, 87), before the engine is called; neither `Process` nor
`my_handler` nor `main` catches it.  Of libtws the repository has no code, so that it catches
nothing either is an assumption; the author's other server does not.  `Restart` loads what was saved.  `GiveUp` is an error of `curl_easy_perform`: the
request may be lost, or still arrive later, or the reply may be lost.

`sure`, `kept` and `promised` are what people may conclude.  A video is `sure` when its add was
answered with 0, or with -1 and no message when everyone who adds that name adds the same
frames, which is the case of a client that is run again; `kept` when it was sure before a
`/save` that was answered was sent.

A picture is, in `ImageProcessor`, the mean and the variance of each of its rows and
columns, which is all that `crop_border` looks at, and one number for what the mirror,
median filter and DCT make of the part that is kept.  The loops over columns get the
width as the number of pixels (`ImageProcessor.cpp`, `Busy` with `count`), so the mean
they use is off by the ratio of height to width: even borders of a picture that is not square
are often not cropped.  A picture of four channels has the hash 0, the empty frame.

## 3. What the runs check

| Run | States | Question |
|---|---|---|
| `video_db` | 638,840 | Do all safety properties of the engine hold, and does it implement `MatchStore`? |
| `video_db_live` | 51,486 | Is the mutex always released, and is every request answered once they stop arriving? |
| `candidate` | 190,653 | Are marks genuine, are good matches kept, does a video match itself? |
| `candidate_bits` | violation | Is a mark the number of bits that differ? No. |
| `db_file` | 352,769 | Is the db file always whole and does one save at a time implement `DurableStore`? |
| `db_file_quiet` | 231,091 | Are two saves at once harmless if the process runs on? |
| `db_file_two` | violation | Are two saves at once harmless if it does not? No. |
| `db_file_faults` | violation | Does Save notice a write that falls short? No. |
| `frame_cache` | 18,661 | Does the linked list implement an LRU cache, and is every request answered? |
| `frame_cache_big` | violation | Also if a video is larger than the cache? No. |
| `http_server` | 124,517 | Do connections and pool threads hand requests on without loss, mix-up or standstill? |
| `video_match` | 123,141 | Is what the client reports true of the store, over loss, retries, exits and restarts? |

`video_db` has two names, two pool threads and the network thread, and three videos
chosen so that they share frames and slots, repeat a frame, hold the empty frame,
differ enough in length for the length rule (`LONG` is 2 instead of 60), and include a
pair whose score is below the threshold.  Two pool threads are enough for every pair of
operations to interleave, with `/info` or a load as third; the load starts from
every database over two names.  Its properties:

- `IndexExact`: whoever can take the mutex finds every non-empty frame of every video
  listed exactly once in the right slot, nothing else listed, and `uniq_frm_cnt` set.
- `RefExact`: a video's reference count is the number of threads that use it.
- `AddReplyTrue`: an add answered with 0 stored exactly the client's frames and no other
  client was told so of that name.
- `SelfFirst`: a query by key reports the video itself, before all worse matches.
- `InfoForward`: the three numbers of `/info`, read at three moments, fit together one way.
- `ImplementsMatchStore`: every reply is one the abstract store could give.

`video_db_live` has one name, since what is asked is about waiting.  Its fairness is
`WF_vars(Step(t))` for each thread: the operating system runs every thread that can
run.  Nothing is assumed about who gets the mutex, as `std::mutex` promises nothing, nor
that requests arrive.  That is why `QuietDrains` is conditional on requests ceasing: with
endless requests a waiting thread may be passed over for ever.

`candidate` goes through all lists of up to three stored and four current frames over four
hashes: long enough for a frame to be repeated and matched in two places, for a walk to
stop between two matches and for a later match to meet marks of an earlier one, in all
orders.  The six differences between the hashes lie on all sides of the code's three bounds
(4, 12, 28), two of which are met exactly.  `SKIP_SPLIT_PARTS` is 2 instead of 32, so that
lists of four skip searches.  `CmarkNeverRaised` is not obvious: line 242 overwrites the mark
without a look at it, and is harmless only because the mark is the difference from some
frame and the new one the least of all.  The same line does raise marks of the stored
video, and cancels what line 240 has just tested; a frame that was matched exactly may end
with up to 12 bits.  That lowers the score but breaks no property stated here.
`candidate_bits` shows what line 28 does: the table is filled up to 254, and a byte of eight
bits counts as none, where the comment at 162-164 says that a mark is a number of bits.

`db_file` has one worker, two videos of two frames and blocks of two cells, so that
the image takes one, two or four blocks, and lets the process end twice (`MAX_STOPS`):
once to leave a half-written temporary file behind, and once to read back what was
saved over it.  A third file suffices, as two have names and one may be open or on the
medium only.  `DbFileReadable` holds in spite of the missing `O_TRUNC`: a shorter image
over a longer leftover ends in garbage, but `Load` counts records from the head and
never looks there.  `SavedStays` and `DoneMeansSaved` are short of power failures:
nothing syncs the directory, so a power failure may bring the last db file back
(`ImplementsDurableStore` says exactly that).

`db_file_two` and `db_file_faults` are disagreements with the repository's words.
`RequestProcessor.hpp:28` calls `SaveDB` "save the snapshot of current state into a file".
Two threads in `Save` open the same temporary file; when the first renames it, the second
holds a descriptor to the db file itself and rewrites it in place.  If the process ends
before it is done, the videos the first `/save` answered "Done" for are gone.
`VideoDB.cpp:499` says "write succeed, clear log" at a point the code also reaches after a
`write` that fell short, with the incomplete file already renamed over the good one.

`frame_cache` has four videos of one, two, two and three frames and a limit of three, so
that loads evict none, one or two videos, the largest just fits, and lists have up to three
items (as many as it takes for an item to be moved out of the middle); any of the frames
may be missing.  `ImplementsLruCache` says that the order of the list is the order of use
and that exactly the least recently used videos go.  With a limit of two, `frame_cache_big`
finds that loading the largest evicts it at once, and that the handler does not notice.

`http_server` has three connections and two pool threads, which is the least in which a
new connection finds all threads busy, one queue with a request in it and the other
empty; and six sets of streams: a body in pieces with a second request behind it,
two requests that go to the pool on one connection, three at once, lengths that do
not fit `postsize_` (`UINT` is 4 instead of 2^32, `MAX_LENGTH` 9 instead of 16 digits), requests that
are refused, and headers without an end.  Its properties:

- `OneHolder`: between the callback that takes a request and the write of its reply a
  connection is in one place only, and `threaded_` keeps a pool thread from queueing it again.
- `NoLostWakeup`: no thread waits with something in its queue, although `wait` has no
  condition.  It holds because a thread that has been told to look holds the mutex
  until its queue is empty.
- `BodyExact`: a POST reaches the handler with all that was read behind its header and with as
  much as `Content-Length` says, if that fits: a negative or too large number wraps.
- `RepliesFit`: `in_threadpool()` tells a handler the truth as far as anybody can notice.  The flag
  is never reset, but the socket is shut down after the first reply, in spite of the
  header `Connection: Keep-Alive` (136, 162).
- `ImplementsResponder`: requests are served in order and once.
- `TakenIsAnswered`, `NetworkReturns`: every request that is taken up comes to
  `begin_response`, and the network thread leaves `push_to_threadpool`.

Its fairness is `WF` for each pool thread and for the network thread inside
`push_to_threadpool`, as the operating system runs all threads and handlers return, and `SF`
for the push, because the mutex it waits for becomes free again and again: a pool thread
gives it up whenever its queue is empty.  Nothing is assumed of peers, so no callback has
fairness: a stream may end anywhere, and a reply may never be read.  `async_write` has no
timeout (150-152), and a peer that stays and does not read a long reply keeps its connection
in `kProcessing` for ever; therefore `TakenIsAnswered` ends at `begin_response`, and says that
the requests of others get there in spite of it.  The comment at line 213 calls the
thread that is chosen the least busy one; a thread that is processing and has an empty
queue looks as idle as one that waits.

`video_match` has four runs, two pool threads, two names, and eleven sets of jobs: an add
that is tried again and a query; an add, `/save`, `/exit` and a query, in all orders; a name
with two directories; a video without a hash; directories without a readable picture;
missing options; malformed posts; documents that end the server, before, beside and after an
add and a `/save`; and requests that need no pool.  Two pool threads let
two requests be in the engine at once, and four runs an add, its retry and two others.
The pictures are of at most 64 lines, square and not, with even borders on each side, on
all, or none.  Its properties:

- `SureStored` and `FoundAfterAdd`: what users may conclude from the replies they got is true,
  and what they could be sure of when they sent a query is listed by it.  Both name their
  exceptions: the reply -1 alone tells nothing when others add the name too; a video
  whose frames are all empty is stored, answered with 0, and never found.
- `StoredAsFound`: a stored video is a frame per readable picture of somebody's directory.
  Pictures that get the hash 0 count with it, those of four channels too.
- `CropInside`: the part that is kept lies in the picture.  It does not say which border is the
  right one, nor does the repository.
- `EveryRunEnds`: a run that has sent a request ends, also when the server exits or dies.

The one fairness assumption there is that of all that the server's threads, the network and
waiting clients can do, something is done again and again; each can be done only so often,
so that is enough.  Nobody has to give up, to send `/exit` or to start the server.

Two differences between words and code are no findings, as no line of the repository
promises anything a run could refute: the comment at `RequestProcessor.cpp:30-31` says that a
reply's `code` is 0 or -1 with a `msg` unless it is 0, but a query's is the number of
videos found, and an add's -1 comes without one; and the usage text of the browse server
gives the cache 128 MB by default where the code has 1024 (`main.cpp:312`, 322).

## 4. What is proved

Every invariant, every action property and every refinement of a passing run is also the
statement of a theorem, for every value of the constants that the assumptions named below
allow.  Where a theorem needs a hypothesis, it is named.  Each argument has the same shape: an
inductive invariant, which TLC was asked about first, a lemma per action, and a last temporal step.

### The engine

From `IndexAssumption` and `ThreadAssumption` (finiteness and distinct model values), for any
finite set of pool threads, names and hashes and any scores, `VideoDBProofs` proves

- `TypeCorrect`: `Spec => []TypeOK`.  The part that is not bookkeeping is
  `ref_ \in [Name -> Nat]`: no reference is dropped twice.
- `ReferencesExact`: `Spec => []RefExact`.

Neither is inductive.  That a count stays above zero when a
reference is dropped follows from `RefExact`; that `SaveItem` may overwrite `held[t]`
needs that a thread holds references only while it checks or writes (`HeldInv`); that
`AddInsert` may set the count to zero needs that nobody holds a video that is not in `db_`
(`StoreInv`) and that the name is still missing from `db_` although it was looked up a step
earlier (`RequestInv`), which needs that nobody else was in a critical section in between
(`MutexInv`); and that `LoadFile` may replace everything needs that nothing was served
before (`LoadInv`).  `IInv` is the conjunction of these.  The counting itself is the
lemma `HoldersChange`: one thread changing what it holds changes the number of
holders by one at most.  `NextStep` has one step per action.

`VideoDBAddProofs` builds on it and proves

- `AddsAreTrue`: `Spec => []AddReplyTrue`.  The property only speaks of the moment of
  the reply; `AddInv` follows an add from the moment `db_` gets its video, says that its
  frames are the stored ones, and that no two threads have added the same name.

`VideoDBStoreProofs` proves the rest:

- `IndexIsExact` (`IndexExact`).  `IndexInv` says what the index lacks at each step of a thread that
  changes it: the frames that are still in `todo`, and all of a video that has not come to
  `add_frames_to_index` yet, in an add or in a load (`Waits`); a pair is in one place of one block (`Shape`).
- `OwnVideoFirst` (`SelfFirst`), with `SelfScoreAssumption`.  `SelfInv` follows the video from the first
  critical section, where it is looked up, over the second, which must find it through the
  index just proved exact, to the sorted reply.
- `InfoFitsForward` (`InfoForward`).  Tables only grow, so what was counted stays counted (`InfoInv`).
- `ImplementsTheStore` (`ImplementsMatchStore`).  An add takes effect when `db_` gets its video (`AddInsert`), as nobody
  else reads the index before it is complete, and a query when it reads its candidates, which are
  complete by `IndexInv`; `OpInv` says which request a thread serves at which step.

### Scoring

`CheckCandidateProofs` proves about the scoring loop, for lists of any length, any hashes and
any way to count bits in which a hash does not differ from itself (`CandidateAssumption`):
`TypeCorrect`, `MarksAreGenuine`, `MarksOnlyImprove` (`CmarkNeverRaised`),
`ExactMatchesFound`, `ScoresCountMatches`, `SelfMatchesFully` and `SelfScoreIsFull` (`SelfMatchFull`).
Types need that marks are genuine and that is shown of every step at once (`StepMarks`), with what
`check_range` does as two lemmas.  `ExactInv` says what holds of the frames the loop has passed,
`CountInv` that a mark on one side comes with one on the other.  `SelfInv` follows a video against
itself: all marks are set while the loop is at the first frame, when it comes to place 1, and
until then place 1 has no mark, because no walk from another place reaches it.  That marks
of 0 make the score full is then a fact about the sums in it.

### The database file

`DBFileProofs` proves, for any videos, any length of block, any number of threads, any number of
exits and power failures (`DBFileAssumption`), and under the hypothesis `[]OneOpen`, that no two
saves have a file open at once:

- `TypeCorrect`, `FileIsReadable` (`DbFileReadable`), `DoneIsSaved` (`DoneMeansSaved`), `SavedForGood` (`SavedStays`) and
  `ImplementsTheDisk` (`ImplementsDurableStore`).

The hypothesis is what the comment in `DBFile` calls one save at a time, and always true with the one
worker of the run `db_file`.  It cannot be dropped: the run `db_file_two` violates
`DoneMeansSaved` with two saves at once and an exit.  Without any hypothesis it proves

- `QuietIsSaved`: `Spec => [](stops = 0 => QuietMeansSaved)`.  Until the process first ends, any number
  of overlapping saves leave a whole db file with all that was promised, once none is under way.

The argument has three parts.  `HoldsLoads`: a file that begins with the image of a database, in
whatever order of its videos and with whatever behind it, is read by `Load` as that database.
`BaseInv`, whoever saves: what the thread that has the mutex has written is what its file begins
with, as far as it has got (`ThreadInv`, from `PutIs` and `BlockIs`), and memory is a finite store in some order.  Then
`DiskInv`, under `OneOpen`: the file called `tmp` is never a db file, and the db file is whole, the same on
the medium, and has what was promised; and `QuietInv`, under `stops = 0`: the db file is whole
unless somebody who opened it as `tmp` has yet to write it (`Pending`), and if nobody has, it has
what was promised and the videos of every request whose file was renamed, by itself or by another
(`Sure`).

### The frame cache

`FrameCacheProofs` proves, for any finite set of videos and any limit (`FrameCacheAssumption`):

- `TypeCorrect` and `ListIsWhole` (`ListOK`).  `CacheInv` says that there is a sequence without repetition of the cached
  videos that the links spell out in both directions, that nothing else has links, and that the
  cached frames fit the limit; each operation on the list is one on that sequence.
- `EveryRequestAnswered` (`AlwaysAnswered`) and `ImplementsTheCache` (`ImplementsLruCache`), under the hypothesis `AllFit`, that every
  video fits the limit alone; `frame_cache_big` shows that the first fails without it.

### The browse server

`HttpServerProofs` proves, for any set of connections, any streams, any handler and any
`MAX_THREAD_SIZE` (`ServerAssumption`, `RequestAssumption`):

- `TypeCorrect`, `HeldByOne` (`OneHolder`) and `WakeupsKept` (`NoLostWakeup`).  To the two invariants and the type, `IInv` adds
  that a pool thread has a connection just while it processes one (`ServeInv`), what the network thread
  has in hand in `push_to_threadpool` (`NetInv`), and that a request is there while it is read on and replied
  to (`ReadInv`).  `HoldersStay` and its siblings say who holds a connection after each kind of step.
- `RepliesAreFit` (`RepliesFit`).  `FitInv`: `threaded_` may be left over from an earlier request only when the
  socket is shut down already.
- `BodyIsExact` (`BodyExact`), with `PeerAssumption`: the units of a stream are numbered by request, in the order
  they are sent, which is only how the model names them.  `SegmentInv` says which part of the stream
  the buffers of a connection are.
- `RespondsInOrder` (`ImplementsResponder`).

### The whole

`VideoMatchProofs` proves, for any finite numbers of runs and pool threads, any jobs, any
videos, scores and directories (`RunAssumption`, `IndexAssumption`, `SelfScoreAssumption`):

- `TypeCorrect`: in it, that a request is with the thread that took it up and no other.
- `WhatIsSureIsStored` (`SureStored`) and `WhatIsSureIsFound` (`FoundAfterAdd`).  `IInv` follows a conclusion
  back to the store: what a reply on its way says is true until the server ends
  (`LetterInv`, where `disturbed` marks the replies that are too old), what the engine
  has answered is true of the store (`ThreadInv`), the store only grows while the server
  runs and holds what runs add (`StoreInv`, which gives the -1 of a retry its meaning),
  nothing is under way while no server runs and only what was saved is still sure
  (`DownInv`).  That a query lists the video itself needs that the length rule never
  excludes it (`MatchesItself`): the number of the query's unique frames counts the empty frame
  and that of the video does not, and with `LONG` at least 1 that is no difference of half.
- `WhatIsStoredWasFound` (`StoredAsFound`).  `SentInv`: what is stored or saved is what some run has sent; the client's
  own loop over the directory counts the pictures it keeps.
- `CropsAreInside` (`CropInside`), for pictures of any size and any lines.

### What stays with TLC

The liveness properties, `MutexReleased`, `QuietDrains`, `TakenIsAnswered`, `NetworkReturns` and `EveryRunEnds`: they rest on fairness
and `ENABLED`, which is out of the prover's reach.  The bit table of `BitCount` and the
violations, which are about one instance each.

The induction rules of the library cannot be used either.  Where a property depends on a
recursive function (`Image`, `RecordStarts`, the eviction loop, the score's sums, the frames of a
directory), the proofs name the function's values explicitly, as a sequence of places or of
partial results, and show by contradiction with the least index that fails that the function takes them.

## 5. Plan

All rows are modelled and checked, and their safety properties and refinements proved.

| Modules | Subject | Left |
|---|---|---|
| `VideoIndex`, `MatchStore`, `VideoDB` | engine under threads | nothing that the prover can reach |
| `DurableStore`, `DBFile`, `DBFileFaults` | database file | to prove: what of the db file survives overlapping saves and an exit |
| `CheckCandidate`, `BitCount` | scoring | nothing that the prover can reach |
| `LruCache`, `FrameCache` | the browse server's cache | what a video larger than the limit leaves in the cache |
| `HttpRequest`, `Responder`, `HttpServer` | connections and pool of the browse server | nothing that the prover can reach |
| `ImageProcessor`, `RequestProcessor`, `VideoMatch` | clients, network and match server | nothing that the prover can reach |

Not modelled:

- Logging: `LogMsg` takes its own mutex inside `mutex_`, never the other way round, and
  changes nothing else; the file it writes is read by nobody.  Time measurement.
- Option parsing, usage texts, the text of pages and headers, JSON as text.  A plain reply of
  `/querykeyplain/` is cut at 128 bytes per line; the model has the list.
- The mirror, the median filter, the DCT and its median: a pure function in floating
  point from pixels to a number, of which TLA+ has nothing to say but that it is one.
- The inside of libtws, of which the repository has only the header.  What the match server
  relies on is modelled from how `main.cpp` uses it, and it is taken not to catch exceptions.
- What peers of the browse server that do not read their replies cost it in the long run:
  connections are few in the model, and each waits for itself.
- The memory of the frame buffers that `main.cpp:94` never frees, and `filelist`, which the client
  frees uninitialised when a directory cannot be read (modelled as a run that ends).
- Build files, lists and scripts: no state of the system.

## 6. Running

    tlc -workers 2 -config MCVideoDB.cfg MCVideoDB
    tlapm VideoDBProofs.tla
    tlapm VideoDBAddProofs.tla
    tlapm VideoDBStoreProofs.tla
    tlapm CheckCandidateProofs.tla
    tlapm DBFileProofs.tla
    tlapm FrameCacheProofs.tla
    tlapm HttpServerProofs.tla
    tlapm VideoMatchProofs.tla

`PROJECT.json` lists the runs, the wrong variants and the property each breaks,
the source lines every definition stands for, findings, hazards and theorems.
