# TLA+ models of SMT DataStream and SMT LogTrace

This directory holds TLA+ specifications of the programs in
`01_SMT_DataStream` (file collection and archiving) and `02_SMT_LogTrace` (log
indexing and search), the TLC configurations that check them on small
instances, and TLAPS proofs.

## 1. The system

### 1.1 Components

| component | code | state it keeps | operations |
|---|---|---|---|
| upload sessions | `api/upload_controller.cpp`, `upload/upload_repository.cpp` | Redis: session hash, chunk bitmap, digest hash (one TTL), three quota sets; temp file `<upload_id>.part` | `POST /uploads`, `PUT chunk`, `GET /uploads/{id}` |
| complete and archive | `api/upload_controller.cpp`, `archive/archive_storage.cpp`, `archive/archive_repository.cpp` | archive file, `archive_file` row (unique `upload_id`, unique `relative_path`), session state | `POST complete` |
| cleanup thread | `cleanup/cleanup_service.cpp` | none of its own | lookup, unlink, DEL, every interval |
| archive search | `api/archive_controller.cpp`, `common/archive_cursor.cpp` | none | list with keyset cursor, detail |
| collector agent | `collector/collector_app.cpp`, `spool_store.cpp`, `http_uploader.cpp` | task map, spool state files and payload snapshots | scan inputs, process tasks, restart |
| device authentication | `auth/device_authenticator.cpp` | nonce keys in Redis | one check per request |
| heartbeats | `api/heartbeat_controller.cpp`, `device/heartbeat.cpp` | device status hash, last-seen columns | `POST heartbeat` |
| incremental indexer (LogTrace) | `indexing/incremental_indexer.cpp`, `index_state_repository.cpp`, `archive_source_repository.cpp` | lock file, index state tables, parsed batches | scan, parse, record, rebuild |
| parsing and batch files (LogTrace) | `indexing/archive_parser.cpp`, `parsed_batch_writer.cpp`, `parsed_batch_reader.cpp`, `common/time_utils.cpp` | line buffer, parser state | parse an archive file, write and read a batch |
| segments and snapshots (LogTrace) | `indexing/segment_manager.cpp`, `segment_store.cpp`, `index_snapshot.cpp` | segment rows and files, current snapshot | build, publish, reload |
| search and caches (LogTrace) | `search/search_engine.cpp`, `cache/query_cache.cpp`, `slru_cache.h`, `rpc/*` | SLRU queues, snapshot version | search, invalidate |

### 1.2 How the parts interact

The collector calls the HTTP API of `datastream_server`. Each request is a
Workflow series: a chain of Redis commands, MySQL queries and file tasks, each
of which completes asynchronously; steps of different requests interleave
freely. Redis, MySQL and the file system are never updated together. A Redis or
MySQL task whose watch timeout passes is reported to the handler as
*Unavailable* although the command may have been executed or may still be. The
clients of LogTrace give up after the same kind of timeout. The cleanup thread
of the same process works on the same files and keys. LogTrace reads the
`archive_file` table and the archive files and never writes them.

### 1.3 What is hard, and what makes the parts correct

PROJECT.json lists the hazards with their lines. The central ones: concurrent
and repeated `complete` requests; chunk writers still running when the file is
verified and renamed; crash or failure between rename, INSERT and the session
update; commands executed after their handler has given up; expiry of the
session at any step; the cleanup thread acting on a stale lookup. Correct means:
a row in MySQL always has its intact file; clients hear consistent verdicts;
the bitmap never claims bytes that are not on disk; an interrupted complete can
be resumed; nothing removes the file of an upload in progress; abandoned files
eventually leave.

The collector has its own difficulties: the device may overwrite a file at any
moment between stat, hash and copy; an HTTP request that timed out may have been
executed, or be executed later, next to its repetition; the process may be
killed between an effect on the server and the save of the task; the session
may be lost between two calls. Correct means: the bytes in the spool are the
bytes that were hashed and stay until the server has archived them; a task is
DONE only for an archive of its own; a sealed file becomes one task; every
task settles.

LogTrace is a chain: rows of `archive_file` are scanned above a high-water mark,
files are parsed into a batch, a batch is built into a segment, segments are
loaded into a snapshot, searches run on the snapshot and are cached under its
version. Each link reads what the one before has left in MySQL or on disk, and
the Search Server and `logtrace_admin` work on the same tables and directories.
Hard are: a crash or a failed statement between two links, a statement that
MySQL executes after its program went on, two programs in one directory,
snapshots replaced during a call, answers of the RPC and of Redis that come too
late, and the arithmetic at the borders (line lengths, window, integer widths,
dates). Correct means: no archive is passed over and each reaches READY or
FAILED; a READY batch has the segment its row describes; the snapshot holds no
archive twice; the index says what the files say; a page is the slice of the
exhaustive ranking of the current snapshot; every call is answered.

## 2. Modules

| module | what it is |
|---|---|
| `UploadServer` | the upload half of `datastream_server`: create, chunk and complete handlers, Lua scripts, archive storage, `archive_file` table, cleanup thread, late commands, crash, expiry |
| `ArchiveLedger` | abstract specification: what the upload API promises about archived files and verdicts |
| `UploadServerInv` | the inductive invariant `IInv` of `UploadServer` and the relation `Benign` its proof uses |
| `UploadServerProofs` | TLAPS proofs |
| `UploadServerMC` | instance for TLC |
| `Collector` | `collector_agent` with its device, its spool and the server as seen over HTTP |
| `CollectorInv` | the inductive invariant `CInv` of `Collector` |
| `CollectorProofs` | TLAPS proofs |
| `CollectorMC` | instances for TLC |
| `UploadQuota`, `UploadQuotaMC` | the three quota sets of the upload scripts, with time |
| `UploadQuotaProofs` | the inductive invariant `QInv` of `UploadQuota` and TLAPS proofs |
| `PagedWalk` | abstract specification: what following the cursors of a list promises |
| `PagedWalkProofs` | TLAPS proof that the promise is kept for every order and every paging |
| `ArchivePaging`, `ArchivePagingMC` | the archive list and detail: query checks, cursor codec, statements |
| `ArchivePagingProofs` | the inductive invariant `AInv` of `ArchivePaging` and TLAPS proofs: order, cursor codec, refinement of `PagedWalk` |
| `IndexPipeline`, `IndexPipelineMC` | scan, recovery, rebuild, segment build and publication; Search Server and `logtrace_admin`; statements that are late |
| `IndexServedMC` | `IndexPipeline` with a history variable, for what the server serves |
| `IndexCatalog` | abstract specification: what the index tables promise a reader |
| `IndexPipelineInv` | the inductive invariants `TInv`, `NInv` and `RInv` of `IndexPipeline` |
| `IndexPipelineProofs` | TLAPS proofs: shape, file lock and scans; tables, directories and snapshot, and the refinement of `IndexCatalog` |
| `LineFormats`, `LineFormatsCheck` | CSV rows, UTF-8, calendar times; their reference definitions |
| `ArchiveParser`, `ArchiveParserMC` | `parseArchive`: line buffer, runtime-log and FCT parsers, digest check |
| `SegmentSearch`, `SegmentSearchMC` | batch writer and reader, segment build and load, search, original text |
| `SearchService`, `SearchServiceMC` | gateway, RPC, handlers and query cache over changing snapshots |
| `SearchServiceProofs` | the inductive invariants `SInv`, `PInv` and `DInv` of `SearchService` and TLAPS proofs |
| `SlruCache` | the in-process segmented LRU cache |
| `SlruCacheProofs` | the inductive invariant `SInv` of `SlruCache` and TLAPS proofs |
| `LossyCache` | abstract specification: what a cache promises |
| `DataStreamPartsMC` | quota sets, archive list and Collector in one instance for TLC |
| `LogTraceAlgorithmsMC` | parser, conversions, index and cache in one instance for TLC |

`ArchivePaging` implements `PagedWalk`, `IndexPipeline` implements
`IndexCatalog`, `SlruCache` implements `LossyCache`, `UploadServer` implements
`ArchiveLedger`. `SearchService` is composed of the abstract ones: its segments
come and go as `IndexCatalog` allows, its in-process caches lose entries as
`LossyCache` allows. `ArchiveParser` builds on `LineFormats`.

`PROJECT.json` maps every definition to the lines it models.

### 2.1 UploadServer

A request is a Workflow series. Every Redis command, MySQL query and file task
of a series is one action; the locals captured by the callbacks are the fields
of the handler's record.

| variable | in the code |
|---|---|
| `sess[u]` | session hash (state, and archive fields as `rec`), chunk bitmap `bits`, digest hash `digest` |
| `where[u]`, `day[u]`, `data[u]` | the file: temp name, archive name or removed; date directory; content per chunk (`None`: fallocated, or a mixture left by an interrupted write) |
| `row[u]`, `nextId` | `archive_file` and its AUTO_INCREMENT |
| `create[u]` | how far `POST /uploads` is for this id: allocateFile, createSession, unlink after a rejection, announced to the client |
| `writer[w]` | `PUT chunk`: lookup, BeginChunk, open, pwrite + fsync, FinishChunk |
| `completer[h]` | `POST complete`: lookup, BeginComplete, find by upload, stat, digest, rename, INSERT, resolve a conflict, MarkArchived or MarkFailed |
| `cleaner` | the cleanup thread: candidate, lookup, unlink, DEL |
| `lateChunk`, `lateComplete`, `lateCreate`, `lateDelete` | commands whose handler was told *Unavailable* while they may still be executed |
| `now` | wall clock; `now \div DayLength` is the UTC day in archive paths |
| `answers` | what `POST complete` has told clients |

Each `...Unavailable` action is a failed or timed-out command: the handler
answers 503 and the command is executed now, later (it moves to a late set) or
never. `Crash` resets all handlers and keeps Redis, MySQL and the files.
`Expire` is a TTL. Whole-file operations of `archiveUploadedFile` are split
where another actor can get between them: stat of the two names, digest, rename.

Decisions worth knowing:

* the named go-task queues of Workflow are not relied on for mutual exclusion:
  file steps of different requests interleave freely;
* hash, bitmap and digest keys of a session expire together. In the code the
  hash may expire first; no script reads the other two once it is gone, and
  upload ids are not reused;
* a write that stops partway is `ChunkWriteFailed`; a crash in the middle of a
  write is that action followed by `Crash`;
* the cleanup thread handles one candidate at a time, in any order. Its
  mtime-based retention is reflected by the guard that a create in progress is
  no candidate (retention is longer than any request timeout);
* authentication and body validation come before the modelled steps and change
  no state; a request they reject is not modelled.

Definitions such as `BeginChunkStatusNoConflict`, placed directly above the
definition they vary, are deliberately faulty versions. They are used by no
specification; each shows that a property fails when the code has that fault.

### 2.2 ArchiveLedger

The promise of the upload API without sessions, files, handlers or failures: an
upload is entered at most once, with an id of its own and the declared content;
entries never change; an answer ARCHIVED carries the entry, and an upload
reported FAILED is never entered. The refinement mapping takes an entry to be
what a reader sees who takes a row and opens its `relative_path`
(`Readable(u)`): if the file were missing, moved or damaged, the entry would
change or have other content, and the refinement would fail.

### 2.3 Collector

| variable | in the code |
|---|---|
| `source`, `history`, `sidecar` | the device's file (its mtime stands for the signature), what was written at which mtime, and `.meta.json` |
| `stable` | `observations_`, `stable_counts_` |
| `task`, `payload` | `tasks_` together with the state files; snapshots in `spool/files` |
| `pc`, `scan`, `todo`, `call`, `missing`, `reply` | where the thread is and its locals |
| `sess`, `owner`, `row`, `nextId` | the server |
| `late` | requests given up by the collector that may still reach the server |
| `lost`, `faults` | history: sessions lost so far, fault budget used |

`scanInputs` is four actions (stat and search, hash, copy, check) because the
device may write between them. `processTasks` visits the tasks; each HTTP call is
sent, executed by the server (`ServeCall`) and received (`Receive`) in separate
steps, and may time out in between. The memory map and the state files are one
variable: every change of a task is followed at once by `SpoolStore::save`,
which replaces the file atomically, and a failing save ends the process.
The server's handlers are those of `UploadServer` with their intermediate
states folded into outcomes: a failed `complete` leaves the session UPLOADING,
VERIFYING without or with a row, or ARCHIVED.

Abstractions: one device and one source path; every 5xx answer, the quota
answer and a transport error are `UNAVAILABLE`, every other 4xx is `REJECTED`;
the length of a back-off is left out (a task with `backoff` may be skipped any
number of times); a sealed file in `DoneMarker` mode behaves like
`AtomicRename`; a read that overlaps a write of the device sees the content
before or after it. A mixture would fail the second hash, as any difference does.

### 2.4 UploadQuota

The scripts of `upload_repository.cpp` once more, this time for what they do to
the sorted sets `quota:global`, `quota:device:*` and `quota:collector:*`, which
`UploadServer` leaves out. `session[u]` holds the state, `left` (its
`expires_at`) and `life` (the TTL of the hash), `quota[scope][u]` the score of
its member. All times are relative to now; `Tick` is one second. A script runs
`delay` seconds after the handler read its clock, the create script also after
the temp file was allocated. A bitmap can be full once as many chunks were
finished as there are; the bits themselves are in `UploadServer`. `Tardy` are the
uploads whose scripts may run late.

### 2.5 PagedWalk and ArchivePaging

`PagedWalk` knows rows, an order and a set of rows shown: a page shows some rows
behind those shown, passes over none, and says whether it is the last. Rows may
be inserted at any time. `ArchivePaging` is the HTTP handlers, one client that
follows `next_cursor`, and MySQL: `ParseQuery` is `parseArchiveQuery`,
`EncodeCursor`/`DecodeCursor` the codec (fixed-width digits to a base, with the
bound on the time), `Behind` and `Precedes` the WHERE and ORDER BY of
`createListTask`, `Page` its `LIMIT page_size + 1`.

### 2.6 IndexPipeline and IndexCatalog

| variable group | in the code |
|---|---|
| `rows` | `archive_file` of the other project: allocated, open and committed ids |
| `tables` | `indexed_archive`, `index_batch` with their states |
| `dirs` | parsed batch directories, segment directories, building directories |
| per program | where it is (`pc`), its locals, whether it holds `.indexer.lock` |
| snapshot | what the Search Server serves, with its version |

Every writing statement and every change of a directory is a step. A statement
is a record (`Sql`) with its effect on the tables (`NewArchive`, `NewBatch`), and
`Sent(p)` is the one program `p` sends where it is. `executeUpdate` may report
it as failed after its watch timeout (`mysql_client.cpp:34`) whatever became of
it: it was executed, it never will be, or it waits in `late` and is executed on
the tables as they are at some later time (`ExecuteLate`). The same holds when
the program crashes with a statement on its way. Only the statements of
`SegmentManager` carry a condition on the batch's state; a late `attachArchive`,
`markArchiveParsed` or `markBatchParsed` changes whatever it finds.

A crash keeps tables and directories and releases the lock. `build-once` of
`logtrace_admin` takes no lock and may run at any moment, next to the server as
well. When a program starts to build (recovery of BUILDING batches, refresh,
build) while the other one does, an `overlaps` budget is spent. `Orderly` says
that no late statement has been executed and no such overlap has begun; three
properties are about that time, and section 5 says what happens after it.

### 2.7 LineFormats and ArchiveParser

A file is a sequence of symbols (a comma, a quote, a line feed, a word, a time)
and its digest is itself. `ArchiveParser` reads it symbol by symbol with the
buffer of `max_line_bytes` plus one, strips a carriage return, parses each line
by the profile of the archive and compares size and digest at the end.
`LineFormatsCheck` states the reference definitions: what a CSV row is, which
byte sequences are UTF-8, how days are counted.

### 2.8 SegmentSearch

A corpus goes through `ParsedBatchWriter`, `ParsedBatchReader`, the build of the
inverted index document by document, the flattening term by term, the checks of
the loader, and the snapshot. A search visits segments and candidates one by one
and keeps the best in a bounded heap. An archive file may be truncated, or
overwritten with as many bytes (`Rewritten`), at any moment, also between the
verification of the originals and the second reading of each line; `torn`
remembers the archives overwritten during a build. Scores are the formula of the
code in thousandths, with the logarithms given as a table.

### 2.9 SearchService

A request of a caller passes the gateway's checks, the RPC's, the lookup in the
query cache, the search on the snapshot that is current then, and the write of
the cache; snapshots are replaced, SETEX commands are late or lost, the server
crashes and is started again. Integers of gateway and RPC keep their widths
(`Width64`, `Width32`, scaled down).

### 2.10 SlruCache and LossyCache

Two lists of keys and the map of entries as in `slru_cache.h`; the mutex makes
each operation one step. `LossyCache` is a map that may lose one other entry at
a step and never shows a value that was not put last.

## 3. Runs

| run | instance | what it checks |
|---|---|---|
| `upload_server` | 1 upload of 1 chunk, 2 contents, 2 writers, 2 complete handlers, cleanup, 1 late command, 2 days | `IInv`, `AnswersAgree`, the action properties `ArchiveImmutable` and `LiveFileNotRemoved`, refinement `ImplementsLedger` |
| `upload_live` | 1 handler of each kind, 1 late command, 2 days, any number of crashes and failures | `VerifyingIsSettled`, `TempFileLeaves` |
| `upload_midnight` | as `upload_server` | *violated*: `VerifyingIsResumable` (section 5) |
| `data_stream_parts`: quota | 3 uploads that share a device or a collector, the scripts of one up to 1 s late | `CountedInAll`, `LimitHolds`, `RetryIsAdmitted` |
| ... archive list | 5 rows, 3 of one millisecond, inserted during the walk; pages of 1 and 2 | `Descending`, refinement `ImplementsPagedWalk`, `WalkEnds` |
| ... Collector | 2 writes of 3 contents (one empty), 2 chunks, 3 upload ids, 1 fault, spool for 2 files | `CInv`, `DoneIsArchived`, `DoneIsSealedVersion`, `ArchivedOncePerSession`, `TasksSettle` |
| `collector_session_loss` | Collector: 1 write, 2 faults | *violated*: `SessionLossNotFatal` (section 5) |
| `index` | 2 archives that may be unparsable, 6 batches, server and admin, 1 command (scan, rebuild or build-once), 2 troubles out of fault, late statement, overlap, damage and crash | `RowsMatchFiles`, `NothingSkipped`, `SnapshotSound`, refinement `ImplementsCatalog` |
| `index_live` | the same with up to 3 troubles out of fault, damage and crash | `ArchiveSettles`, `ReadyIsServed` |
| `index_commit_order` | 2 open transactions | *violated*: `NothingSkipped` (section 5) |
| `index_build_once` | 1 overlap, nothing else goes wrong | *violated*: `TablesMatchFiles` (section 5) |
| `log_trace_algorithms`: parsing | logs of 1 and 2 lines, FCT reports of up to 9, all line endings, times at the ends of the readable years, damage | `ScanIsLineByLine`, `DocumentsAreLines`, `DamageIsReported`, `ReadableByBatchReader` |
| ... conversions | CSV texts of up to 8 symbols, up to 4 border bytes, times at calendar edges | `FormatsAreReference` |
| ... segments | 32 corpora of 2 batches and 3 archives, 8 queries, 1 file truncated or overwritten at any moment | `IndexMatchesFiles`, `PageIsSlice`, `DetailIsOriginal` |
| ... cache | 5 keys, 2 values, two partitions of 2 | `ListsMatchEntries`, `HitsSurvive`, refinement `ImplementsLossyCache` |
| `archive_isolation` | archives with times before 1970 and outside the years 1000 to 9999 | *violated*: `BadFileIsIsolated` (section 5) |
| `search` | 1 caller with four workloads, 2 batches, 2 rebuilds, 1 fault, 1 crash | `TypeOK` (with the window), `PageIsCurrent`, `DetailIsCurrent`, `EveryCallAnswered` |

Components that share no state are checked in one run: `data_stream_parts` and
`log_trace_algorithms` choose a component in the initial state (`part`), that
component runs as it would alone, and the others rest.

Names of the runs are those of `PROJECT.json`. The comment above each property
in the modules says what it means for the code. `IInv` and `CInv` imply the other
invariants of their modules (`TypeOK`, `ArchivedFileIntact`, `BitmapBehindFile`,
`PayloadIntact`, ...), which are theorems (section 4) and need no run of their own.

### 3.1 Bounds

*Uploads.* Sessions, files and rows of different uploads share nothing but the
AUTO_INCREMENT counter and the handlers that serve them in turn; one upload in
the run is enough for everything but the uniqueness of ids, which the proofs
establish for any number. *Chunks.* One chunk is missing, being written or
there; partly filled bitmaps of more chunks are covered by the proofs.
*Contents.* Two values per chunk give conflicting writers and a file that
differs from its declaration. *Handlers.* Two writers race on a chunk; two
complete handlers race on rename, INSERT and the session. *Late commands.* One
may overtake the handlers that are still running. *Clock.* A second day is what
the date directory can notice: `MaxTime` and `DayLength` let midnight come at any
moment, in `upload_live` as well. The proofs then remove these bounds.

*Collector.* Two writes are what it takes to change a file under an active
task and then have a new task for it. One fault is any of a timeout (executed
now, later or never), a 503, a rejection, a lost session or a crash, at any
step; the safety theorems allow any number. Three upload ids suffice because
each create beyond one per task costs a fault. A spool for two of the files
gets full when a failed task keeps its payload.

*Quota.* Three uploads of which two share a device and two a collector let each
of the three sets be the one that is full; session and terminal TTLs of 3 and
2 s are longer than the delay of 1 s and differ. One upload is `Tardy`:
`LimitHolds` is checked for the scopes it has no part in, next to its late
scripts, the other two properties for all scopes.

*Paging.* Three rows of one millisecond need two pages of them, so that a page
ends between equal times; rows arrive before, between and behind.

*Index.* With two archives a batch may hold both, one or one that fails, and a
second scan may find what the first left; each rebuild and each retraction costs
a batch id, and six are never used up by the commands and troubles allowed. The
command and the troubles may hit any step, together in one behaviour: in `index`
any two of a failing statement or build, a late statement, an overlap, a damaged
directory and a crash, in `index_live` a failure, a damage and a crash. Late
statements and overlaps are left out of `index_live` because its two properties
do not survive them (section 5). Two archives are within both limits of a scan;
that a scan cut short by a limit leaves no gap is shown by the proof only.

*Parser and formats.* Eight symbols are two quoted cells with a doubled quote;
lines of length at, one below and one above `MaxLine`, with every ending, are
among the files, and so are times one millisecond before the epoch, in the years
999 and 1000, and in the year 9999 with a zone that moves them into the year
10000. *Segments.* Corpora vary the first line of each archive; the
fixed lines give equal scores, equal times and a term in one segment only, the
window is smaller than the number of hits.

*Search.* A caller meets its own earlier requests through Redis and the
in-process caches; two batches give snapshots of equal and of different
versions. Two rebuilds are one more than `DetailIsCurrent` allows for, so its
condition is met by some steps and not by others. The workloads separate
requests that change nothing for each other.
The widths 16 and 8 stand for 2^64 and 2^32: what matters is that the sum of the
largest offset and a size wraps to a value below the window.

*Cache.* Five keys overflow both partitions of two.

Deadlock is not checked where a bounded universe ends: once every upload id has
been used and every file has left, all walks are made, all archives are parsed.
That concerns the runs of `UploadServerMC`, `DataStreamPartsMC` and
`LogTraceAlgorithmsMC`. The indexer and the search service never stop, and their
runs check deadlock.

### 3.2 Fairness

`VerifyingIsSettled` assumes strong fairness of each step of a complete request.
The collector repeats `complete` for ever with a capped delay, and Redis, MySQL,
the disk and the process do not fail at every attempt. Nothing else is assumed;
a session that expires ends the obligation. So does a file that stays `Stranded`
under another day than its session says: no retry gets that upload out of
VERIFYING (section 5), and without this exception the run finds the violation.

`TempFileLeaves` assumes strong fairness of the cleanup thread's steps (its loop
runs until shutdown), weak fairness of key expiry (a TTL that nobody refreshes
runs out) and of the steps of a create request. Each of the two properties
carries its own fairness as a hypothesis, because neither kind is needed, or
should be available, for the other.

`Fairness` of `Collector`: the thread goes on (weak fairness of its steps), the
server answers a request it receives, and a back-off ends: for every version of
the file, strong fairness of starting its tasks. Faults are finite in number in
every behaviour of the instance.

`QuotaFairness`: time passes, and a refused client asks again (weak
fairness of `Tick` and of an admitted create). Nobody has to finish or release
anything. Each session is extended finitely often in the instance.

`PagingFairness`: the client follows cursors, the server handles
what it receives, MySQL answers or fails.

In `data_stream_parts` the fairness of a component applies when it is the one that
runs; those that rest have nothing left to do that it could demand.

`Fairness` of `IndexPipeline`: a started program goes on, a stopped server is
started again by its supervisor, an open transaction of `archive_file` ends.
Nothing is assumed of operators and of late statements; faults and crashes are
finite in number.

`FairSpec` of `SearchService`: Workflow runs the tasks of a series to their end,
the server is started again, the RPC client notices a lost connection.

## 4. Proofs

### 4.1 The server

`UploadServerProofs` proves, for all sets of uploads, chunks, contents and
handlers and all bounds: `IInv` (hence `TypeOK`), `ArchivedFileIntact`,
`BitmapBehindFile`, `AnswersAgree`, `TerminalFollowsMySql`, `LiveUploadHasFile`,
the action properties `ArchiveImmutable`, `SessionMovesForward` and
`LiveFileNotRemoved`, and the refinement `ImplementsLedger`.

*Assumptions.* `NoneAssumption`, `ChunksAssumption`, `DeclaredAssumption`,
`ClockAssumption` and `NoneIsNoRecord`: the absent value is no upload, chunk,
content or record; files have at least one chunk; every upload has a declared
content. TLC evaluates them in every run.

*Why an invariant is needed.* None of the properties is inductive: that a row has
its file says nothing about a handler that is about to INSERT, or about an
INSERT that is still in flight. `IInv` adds what each running handler and each
late command relies on (`WriterClaim`, `CompleterClaim`).

*The argument.* BeginChunk registers one digest per chunk before any byte is
written, so all writers of a chunk write the same bytes, late ones included.
When BeginComplete sees the full bitmap, the content is `Final`: complete,
closed to new writers, and rewritten by the remaining ones with what is
there already. Every digest taken from then on gives the same verdict, so
handlers cannot disagree, and `MarkFailed` and `MarkArchived`, which overwrite any
state, never overwrite one with the other's.

*The layout.* `Benign` says what no step does to an announced upload. The
claims of all other handlers survive a benign step (`FinalKept`,
`WriterClaimKept`, `CompleterClaimKept`); the step lemmas for handler, session,
file and row steps reduce each action to a few local facts; there is one lemma per
action. The action properties follow from `IInv` and `Benign`. For the
refinement, a step that inserts a row is `Publish`, a step that adds an
answer is `AnswerArchived` or `AnswerFailed`, all others stutter.

### 4.2 The collector

`CollectorProofs` proves, for all contents, chunks and upload ids, all spool
sizes and stable windows and any number of writes, faults and late requests:
`CInv` (hence `TypeOK`), `PayloadIntact`, `DoneIsArchived`,
`NoIntegrityFailure`, `OneTaskPerSignature` and `ArchivedOncePerSession`, and with
the hypothesis `StableScans = 1` (`SealMode::AtomicRename`) `DoneIsSealedVersion`.

*Assumptions.* `ContentsAssumption`, `CollectorChunksAssumption`,
`BoundsAssumption` and `NoneIsNoRecordOfCollector`.

*The argument.* A session belongs to the task that created it (`owner`), and
every request for it, late ones included, comes from that task and carries the
bytes of its payload (`Sound`). So a session can hold nothing but the content
the task was hashed from, and neither a chunk conflict nor an integrity failure
is possible. A session is `Untouched` until the first complete is sent
for it, which happens after the task has left UPLOADING. From then on the task
keeps it (COMPLETING, DONE or FAILED) until the server says it is
missing, and a session goes missing only by being lost (`ClaimInv`). Two
archived sessions of one task can therefore not both be intact.

*The layout.* `TaskSaved` says when a task may be saved without harm to tasks
and sessions (`Saveable`); `ServeEffect` says what the server does with a
request and what its answer means; then one lemma per action.

*Sealed versions.* `SealInv` follows a task whose file was overwritten between
stat and hash. There is at most one unfinished task, and it is the youngest, so
the scan before the next pass finds it changed and fails it. Until then it has
had one pass, which creates a session at most: a complete takes a third pass.
With a longer stable window the new version is not sealed in time, the scan does
not look at the task, and the property is false; hence the hypothesis.

### 4.3 The paged walk

`PagedWalkProofs` proves `WalkComplete` of `PagedWalk` for every set of rows,
every strict total order (`StrictOrder`, a hypothesis of the theorem) and every
way to cut pages, with rows inserted at any time. `WalkComplete` speaks of the
end of a walk only; the inductive invariant adds `RestBehind`: what the walk has
not yet shown of its start lies behind everything shown. A page preserves it
because it passes over no row, and an inserted row is not in the start.

`ArchivePagingProofs` proves, for every table, all requests and all page sizes,
that the archive list is such a walk: `Descending`, the refinement
`ImplementsPagedWalk`, and with the theorem above
`WalkComplete`: what `PagedWalk` promises at the end of a walk, said of the rows
the client has been shown.

*Assumptions.* `ConfigAssumption`: a base of at least two, at least one digit,
page sizes as `app_config.cpp` requires them. `RowsAssumption`: there are
finitely many rows, `archive_id` is their key, times and ids are positive
and fit the bytes of a cursor, times also the signed type. `RequestsAssumption`:
a client begins a walk without a cursor or with one that is refused.

*The codec.* `CursorRoundTrip` says that decoding an encoded cursor gives time
and id of the row, for every base and width. Each digit is cut out of the number
by a shift and a mask, and decoding multiplies and adds from the first digit on,
so the claim is that the first `i` digits make up `n \div Base^(Width - i)`. It
is proved by a least counterexample: the naturals are well-founded, and the step
from `i - 1` to `i` is one division with remainder.

*The order.* `ListOrderIsStrict` and `CursorConditionIsOrder` say that ORDER BY is
strict and total and that the WHERE condition of a cursor is this order. A
finite set of rows then has one descending sequence: each row is at the place
given by the number of rows before it. From that follows what a page is: the
first rows behind the cursor, with nothing left out, and `has_more` exactly when
some are left.

*The invariant.* Neither property is inductive, since a page continues the walk
only if the cursor in the request is that of the last row shown. `AInv` says so of
a request in progress and of the `next_cursor` in an answer (the codec is used
between the two). A list page is then a page of `PagedWalk`, an insertion an
insertion, a request for a detail ends the walk, all other steps stutter.

### 4.4 The quotas

`UploadQuotaProofs` proves `CountedInAll` and `LimitHolds` of `UploadQuota` for
all uploads, devices, collectors, limits, lifetimes and delays.

*Assumptions.* `TtlAssumption` and `LimitAssumption`: there are finitely many
uploads, a script is late by less than a session lives, and limits are at least
one, as `app_config.cpp` requires.

*The argument.* `QInv` says per session what its three scores are (`Counted`):
equal to its `expires_at` while it is neither archived nor past it, absent once
archived. `LimitHolds` needs more than that, because a session whose member has
been dropped is not counted by the next create. `Prompt` closes the gap: where
scripts run without delay, `expires_at` and the life of the keys are the same
number, so a session is gone when its member may be dropped. Hence the sessions
in flight of a scope are among its members that have not expired, which the
create script counts. For a `Tardy` upload `Prompt` is false, and so is the
limit (section 5).

### 4.5 The cache

`SlruCacheProofs` proves, for all keys, values and capacities,
`ListsMatchEntries`, the action property `HitsSurvive` and the refinement
`ImplementsLossyCache`. The only assumptions are those of the constructor: both
capacities are at least one, and the absent value is no value. The lemmas about
`push_front`, `erase` and `pop_back` describe a list without repetitions by
its members and its length; with them each operation is reduced to two sets and
the map (`GetFacts`, `PutFacts`, `EraseFacts`). `SInv` says that these
three fit. A hit in a full cache is where they could part: one `get` moves two keys
between the lists in opposite directions. The promotion makes room before the
demotion needs it, so a `get` evicts nothing; that is also why `HitsSurvive` holds.

### 4.6 The indexer

The proofs about `IndexPipeline` hold for any number of archives, batches,
commands, faults, late statements, overlaps, damaged files and crashes. The
invariant comes in three layers, each checked by TLC on the instance of the run
`index` before it was proved.

*Assumptions.* `ArchivesAssumption` (finitely many archives, ids positive),
`DocumentsAssumption`, `LimitsAssumption`, `CommandsAssumption`. No assumption is
made about when `build-once` runs or when MySQL executes what.

1. `TInv` and `LInv` (`ShapeAndLock`): tables, directories, statements and
   locals have their shape, and a program inside a scan, a recovery or a rebuild
   holds `.indexer.lock`. Unconditional.
2. `NInv` (`NothingIsSkipped`): ids are allocated in order, what has been seen
   has no gap, and what a scan is about to attach continues it without one
   (`ScanClaim`); a late statement about an archive is about one that was seen
   or continues what was. Unconditional but for the hypothesis `Inserts <= 1`,
   that is, no two open transactions on `archive_file`. With two of them the run
   `index_commit_order` refutes the property: the hypothesis is exactly what the
   finding in section 5 is about.
3. `RInv` (`TablesAndPrograms`, `RowsAlwaysMatchFiles`, `SnapshotAlwaysSound`,
   `PipelineIsCatalog`): `RowOK`, `FilesOK` and `OrderOK` relate tables and
   directories; `LockClaim` is what a program inside an operation under the lock
   knows, `BuildClaim` what one that builds or publishes knows. It holds as long
   as `Orderly` does: until a late statement is executed, or one program starts
   to build while the other is building. These are events of a behaviour, not
   hypotheses about the program: `build-once` beside the running server,
   statements of unknown outcome and statements waiting in `late` are all part
   of the behaviours proved about. From such an event on the properties are
   false in some of them (`index_build_once`, section 5).

*The argument of the third layer.* Two programs work on the same batches at the
same time, one holding the lock and one building. The lock does not separate
them: a rebuild may fail the batch the server is building. So each claim is
written to survive that. What a builder knows of its batch holds as long as
the batch is BUILDING, and every statement it executes is conditional on that
state. `LockGuar` and `BuildGuar` say what a step of either side may do to the
other's batches. One group of lemmas shows that every action is within its
guarantee, another that each claim survives the other side's guarantee. Both
guarantees contain `CatalogStep`: the READY batches are unchanged, one leaves, or
a BUILDING one enters. With `OrderOK`, which puts it above the others, the
refinement of `IndexCatalog` follows.

### 4.7 The search service

`SearchServiceProofs` proves `TypeOK`, `PageIsCurrent` and `DetailIsCurrent` of
`SearchService` for any number of callers, batches, rebuilds, faults and
crashes, all requests and all integer widths.

*Assumptions.* `IdsAssumption`: finitely many archives and batches, batch ids
positive. `RequestsAssumption`: offset and size fit the type of the gateway.

1. `SInv` (`ServiceInvariant`, `ServiceTypeOK`): what a call has at each stage,
   that no view holds an archive twice, and that whatever holds a page (a call,
   an entry in Redis, a SETEX in flight) holds it under a query within the window.
   The sums at gateway and handler may wrap; the comparison of the engine, which
   subtracts, is the one the proof uses.
2. `PInv` (`PagesAreCurrent`). The first half of `PageIsCurrent`, that no page names
   a missing document, follows from `SInv`: a page is searched on the current
   snapshot, or `restore` has looked up each of its documents. For the second
   half, as long as nothing has been withdrawn, every snapshot is the catalog up
   to some batch (`Past`), and so is the one any cached page was computed on. Of
   two such views with the same version the batches are the same, so an entry that
   `restore` accepts is what a search would give. It does not matter under which
   version the entry was stored: that a page may be stored under the version of
   another snapshot (the key is computed before GET, the search is made after it)
   is harmless because the entry carries its own.
3. `DInv` (`DetailsAreCurrent`). The detail cache is not checked against the
   snapshot, so more must be known of it. While at most one batch has been
   withdrawn, an entry under the current version is about a document of the current
   snapshot (`EntriesCurrent`). A refresh could break this by bringing an old
   version back. It happens only after a publication (`due`), and `DueOK` says that
   the batch published then is either the largest one, so the version is new, or
   has itself been withdrawn, so nothing else was and the snapshot has lost nothing
   that an entry could be about. With a second withdrawal both may happen, and the
   property is false (section 5).

TLC checked `PInv` and `DInv` on an instance with three batches before they were
proved.

### 4.8 Only model-checked

* What the parsers, the index build and the heap compute: `ScanIsLineByLine`,
  `DocumentsAreLines`, `DamageIsReported` and `ReadableByBatchReader` of
  `ArchiveParser`, `FormatsAreReference` of `LineFormatsCheck`, `IndexMatchesFiles`,
  `PageIsSlice` and `DetailIsOriginal` of `SegmentSearch`. These modules are
  written with folds, filters of sequences and recursive functions;
  what these compute is an induction over data, which is beyond the
  prover. They are checked against reference definitions over bounded inputs.
* All liveness properties: `VerifyingIsSettled`, `TempFileLeaves`, `TasksSettle`,
  `RetryIsAdmitted`, `WalkEnds`, `ArchiveSettles`, `ReadyIsServed` and
  `EveryCallAnswered`. Fairness and ENABLED are beyond the prover.

## 5. Findings

Five statements of the documentation are refuted by a run.

1. **A session lost between two chunks fails the task for good**
   (`collector_session_loss`). `docs/15` says `UPLOAD_NOT_FOUND` leads to a new
   session. The code does so after `queryProgress` and `complete`, not after
   `uploadChunk`.
2. **Archives that commit out of order are never scanned**
   (`index_commit_order`). `docs/23` relies on `archive_id` being monotonic. Ids
   are allocated at INSERT and visible at COMMIT.
3. **`build-once` and the Search Server build at the same time**
   (`index_build_once`). `docs/23` says that `.indexer.lock` keeps the worker and
   `logtrace_admin` from publishing segments at the same time. Building and
   publishing do not take the lock: `build-once` clears the building directory of
   the worker, resets the batch that the worker is building and begins to build it
   anew; the worker then renames this unfinished directory and publishes it under
   the digest of its own files.
4. **An interrupted complete may never be resumed** (`upload_midnight`). `docs/05`
   of DataStream says that complete can be retried from VERIFYING. On *Resumable*
   the handler goes on with the path it computed at its own lookup. If another
   BeginComplete was executed in between, with the path of another day, file and
   session end up with different date directories; if the process then crashes, or
   the INSERT fails, every retry answers STORAGE_IO_ERROR until the session expires.
5. **One archive with an unusual time fails its whole batch** (`archive_isolation`).
   `docs/23` says that a bad file affects only its own records. A time before 1970
   that is not a whole second is printed with negative milliseconds, and a year
   below 1000 or above 9999 without four digits. The parser accepts these times, the
   batch reader refuses the printed ones, and with them all other archives of
   the batch.

The conditions in some properties mark further places where the code does less
than a document says. Each can be reproduced by removing the condition.

* *A lost session can lead to a second archive of one file.*
  `ArchivedOncePerSession` says that it takes a lost session: timeouts,
  repetitions and restarts alone never do it. The unique keys of MySQL contain
  the upload id, which is new in the second attempt.
* *A device can have one session too many.* `LimitHolds` is stated for scopes
  without a `Tardy` upload. Scores come from the handler's clock, the TTL of the
  hash starts when the script runs; in between, a create drops the member of a
  live session and FinishChunk puts it back without a check.
* *A late statement can undo what is READY.* `RowsMatchFiles`, `SnapshotSound`
  and `ImplementsCatalog` are about the time before MySQL executes a statement
  that its program gave up on. The UPDATEs of a scan have no condition on the
  state: a late `attachArchive` takes an archive out of a READY batch, so that
  it is scanned again and is in two segments, and a late `markBatchParsed`
  brings a batch back whose directory was removed. Without the condition the run
  `index` violates all three.
* *A round that fails may leave the index stuck.* `ArchiveSettles` leaves out
  damage, late statements and overlaps. They may leave a READY batch without its
  segment, on which every start of the server fails, or a BUILDING batch without
  an archive, on which every recovery fails, for `publishBatchReady` changes no
  row.
* *A READY batch may wait for the next build or restart.* `refreshSnapshot` runs
  after a build and at the start only. When it is refused because a batch it had
  listed was withdrawn by a rebuild before it was loaded, no other batch that
  has become READY is served until the next build, and if nothing new arrives,
  until the next start; the same holds for what `build-once` published beside
  the server. `ReadyIsServed` leaves out exactly this time (`behind`).
* *A file overwritten during a build is indexed.* `IndexMatchesFiles` says what
  enters the index: the terms verified at the start of the build or, for an
  archive that was overwritten after its digest was checked, with as many bytes
  and as many terms in the line, the new terms. Size and number of terms are all
  that is checked again.
* *A page cached before a rebuild is shown after it.* `docs/05` of LogTrace says
  that the version in the key keeps old results from a new snapshot. The version
  is the highest batch id, which stays when a lower batch is withdrawn; if the
  documents on the page are still there, it is shown with the total of the older
  snapshot. The second half of `PageIsCurrent` is therefore stated until the
  first rebuild. Its first half always holds: no page names a document that is
  gone.
* *A detail of a withdrawn document is shown from the cache.* `docs/15` of
  LogTrace says that the version in the key avoids this after a rebuild. Batches
  1 and 2 are READY and a detail of batch 1 is cached under version 2; batch 1
  is withdrawn, batch 3 published and withdrawn as well before the refresh: the
  version is 2 again, without batch 1. `DetailIsCurrent` is stated until a
  second batch is withdrawn; without that condition it takes three batches and
  two rebuilds to refute it.
* *An offset near the integer width is reported as a corrupt index.* The sum
  `offset + page_size` wraps before it is compared. The window part of `TypeOK`
  holds, because the engine refuses the request in the end.

## 6. Not modelled, and what is left

* Heartbeats and device status: one SELECT, one UPDATE and one script with a TTL
  per request. Nothing else reads or decides by what they write. Overlapping
  heartbeats of a device are written in the order in which their commands are
  executed.
* Device authentication: every handler starts with it; it changes nothing the
  modelled handlers read, and its refusals are early answers.
* Configuration, start-up, shutdown, health and metrics of all programs:
  sequential code without shared state.
* The bytes of segment and batch files and of JSON and protobuf messages. The
  models know a file as intact, damaged or missing, and fields as values.
* The fsync and rename order inside the batch writer, beyond written or not.
* Workflow, Redis and MySQL clients beyond what a handler sees of them.
* Deployment scripts.

What is left to prove is in section 4.8. Worth doing next: proofs about single
steps of the line buffer of `ArchiveParser`; authentication as a component of its
own.
