# compliary in TLA+

compliary serves a corpus of compliance frameworks (ISO, NIST, CIS, ...) to MCP clients. Two
programs carry its logic: `cmd/pipeline` turns the files under `data/` into the tables of
PostgreSQL, and `cmd/server` answers MCP tool calls over those tables behind an OAuth 2.1
authorization server of its own. This directory models the parts of them that run concurrently,
fail half way or live long, checks the models with TLC and proves theorems about them with TLAPS.

- `Sessions`: what the OAuth store promises, abstractly.
- `OAuthStore`: the store's tables and operations, each operation atomic. Implements `Sessions`.
- `OAuthTx`: the same operations as PostgreSQL runs them, statement by statement, with row locks.
  Implements `Sessions` too.
- `OAuthStoreProofs`, `OAuthTxProofs`: theorems about the two for every value of their constants.
  `OAuthRefinement`: that both implement `Sessions`.
- `Pipeline`: the ingestion pipeline, every statement an action, with failures, crashes and edits.
- `PipelineProofs`: theorems about `Pipeline` for every corpus.
- `Embedding`: the index stage again, chunk by chunk, with the Kaggle job and a second process.
  `EmbeddingProofs`: theorems about it for any files, controls and number of processes.
- `MapEdges`: the mapedges stage, the rebuilds that take its edges away, the marker.
  `MapEdgesProofs`: theorems about it for any trees and sources.
- `RateLimit`: what a rate limiter promises. `Server`: requests, limiters, pool and shutdown of
  `cmd/server`; implements `RateLimit`. `ServerProofs`: that it does, and the theorems about credentials and charging.
- `Corpus`, `Search`, `Document`, `Tools`: the MCP tools over a corpus that is being rewritten.
  `ToolsProofs`: theorems about them for any corpus, queries and servers.
- `MC*.tla`, `MC*.cfg`: the small instances TLC checks.

`tlc -workers 2 -config X.cfg M` checks an instance, `tlapm M.tla` a proof module. PROJECT.json lists
the runs, maps every definition to the lines it models, and lists hazards and theorems.

## Inventory

| Component | State | Operations | Interacts with | What is hard | What makes it correct |
|---|---|---|---|---|---|
| OAuth store (`pkg/oauth/postgres_store.go`, `sql/auth`) | clients, codes, families, access and refresh tokens | register, upsert CIMD client, create and exchange code, look up and renew token, rotate refresh, evict | handlers, verifier, evictor goroutine; several server processes share the tables | racing transactions, lock order, stale clocks, expiry boundaries, cap | one redemption per code, one live refresh token per session, replay revokes, no revival, cap kept, expired rows go |
| OAuth handlers, verifier, authorizer (`oauth.go`, `handlers.go`, `safefetch.go`, `pkg/operator`) | none of their own | authorize, token, register, bearer check | the store; remote client metadata | lookups that are stale when the store is reached | no grant to a client that is gone |
| In-memory store (`store.go`) | maps under one mutex | the same interface | tests | - | the same promise |
| Pipeline (`cmd/pipeline`, `pkg/manifest`, `pkg/extract`, `pkg/normalize/normalize.go`, `pkg/rag/index`, `pkg/rag/lexical`) | manifest rows with stage timestamps, bronze captures, silver documents and controls, gold chunks and vectors | manifest, extract, normalize, index, lexindex | each stage reads what the one before wrote; the operator edits `data/` | no transactions: crash or failure between statements; data edited between stages; rebuild by delete and insert | timestamps never claim more than the tables hold; a rerun repairs everything |
| Mapping edges (`pkg/normalize/mapedges.go`, `olir.go`, `cismap.go`, `curated.go`, `resolve.go`) | silver.control_mapping, silver.version_relation, `mapedges_at` | emit, resolve, mark fresh | normalize deletes what they point at; quality_gaps reads the marker | freshness marker of a partial run; three resolution rules over edges that come and go | a fresh marker means complete edges; a target is the one the edge names |
| Parsers (`pkg/normalize/*`) | none | text to control tree | normalize | numbering, duplicates, nesting | tree well formed, citations unique |
| Kaggle batch embedder (`pkg/rag/embed/kagglebatch`) | remote dataset and kernel | upload, push, poll, download, clean up | index stage | polling failures, timeouts, cleanup on every exit | no licensed text left behind, vectors belong to their chunks |
| Retrieval (`pkg/rag/retrieve`) | none | dense, sparse and citation arms, fusion | MCP tools | one arm failing, caps, ordering | fusion order, pinned hits kept, cap per framework |
| MCP tools (`pkg/mcp`) | none | tool calls, licence projection | retrieval, stores | a corpus that is being rebuilt under the reader | only permitted text leaves |
| HTTP server (`cmd/server`) | rate limiter map | middleware chain, evictor, shutdown | everything above | limiter entry evicted while in use, shutdown order | limits hold, no request dropped silently |
| Evaluation (`pkg/eval`, `cmd/eval`) | none | metrics, gates | retrieval | edge cases of the metrics | metric definitions |
| Fetchers, seeds, migrations, config, logging | files, configuration tables | start-up tools | - | - | - |
| Generated stores (`pkg/store`) | - | sqlc output of `sql/` | - | - | - |

## Plan

Items 1 to 10 are done.

1. `OAuthStore`, `Sessions`, `OAuthTx`: the store is where concurrent requests meet and where an
   error is hardest to see in a test.
2. `OAuthStoreProofs`, `OAuthRefinement`.
3. `Pipeline`.
4. `PipelineProofs`: `StageOrder` for any corpus, `NormalizedServed` when no two paths share a document.
5. `MapEdges`. Question: can a partial run leave a document marked fresh (the ISO emitter returns
   early while 27001 is missing)? Answer: only when normalize runs beside it.
6. `Embedding`. Question: does every exit, a failing upload included, delete the dataset? Answer:
   every exit but that one tries to (`ArtifactsTried`, `CreatedIsTried`).
7. `RateLimit`, `Server`: middleware order, the limiter and its evictor, shutdown.
8. `Corpus`, `Search`, `Document`, `Tools`: fusion, pinning, caps, abstention and the licence
   projection, while a rebuild is under way.
9. `ServerProofs`, `MapEdgesProofs`, `EmbeddingProofs`, `OAuthTxProofs`.
10. `ToolsProofs`: `DocumentAnswers`, `HonestAbstention`, `SearchAnswers` and `StatusAgrees`.
11. The metrics of `pkg/eval` and the tree-building discipline the parsers share.

Abstract specifications: `Sessions` (implemented by `OAuthStore` and `OAuthTx`), `RateLimit` (implemented
by `Server`); "the corpus follows `data/`" is the property `Recovers` of `Pipeline`, "the edges follow the corpus" is
`EdgesSettle` of `MapEdges`.

## The OAuth store

### OAuthStore

`client`, `code`, `family`, `access`, `refresh` are the tables of `sql/auth/schema.sql`, keyed by
primary key, `NULL` where there is no row. `used` holds the keys `randomHex` has returned, so a
fresh key collides with nothing. `now` is the database clock. Each public operation of
`postgresStore` is one action that includes everything the operation does: a registration includes
the eviction it runs first, a rotation touches the client, an exchange that fails still consumes its
code. An operation that is refused and changes nothing is no action.

- `RegisterClient`, `RegisterCIMDClient`: evict, count against `maxClients`, insert or upsert. When
  the cap is reached the transaction rolls back and takes its evictions with it.
- `CreateCode`, `ExchangeCode`, `ExchangeRejected`: a code is deleted by the first exchange that
  presents it, and rejected afterwards if expired, of another client or bound to other values.
- `RenewToken`: pushes access token, family and live refresh token to the same deadline.
- `RotateRefresh`, `ReplayRefresh`: a live token is replaced, a consumed one revokes its family.
- `Evict`: the four DELETEs of `evictExpired` with their cascades.

Which user signs in, whether a password or client secret is right and whether an authorizer accepts
only decides whether an operation is reached; the models let it be reached or not. Redirect URI and
PKCE are one abstract `Binding`. The identity row upserted at sign-in is not modelled: no operation
of the store reads it back to decide anything. A lost response to a rotation needs no action of its
own: the client's retry is a `ReplayRefresh`, and revoking the session is what the store then does.
`last_activity_at` may move backwards when a stale transaction commits late; no property depends on
it being monotone.

### Sessions

A code is unborn, open or spent; a session is unborn, live, revoked or ended; a refresh token is
unborn, current, spent or void. The actions say what a caller may observe: a code is redeemed once
and for one session, a spent token presented again revokes, nothing comes back, only a passed
deadline or a revocation ends a session, and only use moves the deadline. `Slack` is how old the clock
reading of an operation may be when it commits: 0 for `OAuthStore`, `MaxTxAge` for `OAuthTx`. The refinement
mapping (`absCode`, `absSession`, ...) reads the abstract state off the tables.

### OAuthTx

`txn[w]` is the open transaction of a process: its position, the rows it has chosen, the clock
reading it decided on. `held` are the row locks. Under READ COMMITTED writes become visible at
commit, so a transaction is a sequence of locking reads and a last step that applies the effect of
`OAuthStore`'s operators. Modelled as PostgreSQL does it:

- FOR UPDATE waits for the row and then reads its newest version; `clock_timestamp()` in its select
  list is evaluated when the row is found and again only if the row changed while waiting
  (`ClockAfterWait`); `now()` is fixed when the transaction begins.
- A DELETE chooses its rows on a snapshot, waits for each, and looks again before deleting
  (`StillSelected`). The NOT EXISTS clauses are not evaluated again for an unchanged row, but the
  foreign-key check of a grant holds a lock on the client that the DELETE waits for.
- The advisory lock of registration is a row called "registration".
- Cancelled requests, lost connections, crashes and deadlock victims are `Abort`: locks and effect vanish.

Looking up a token and locating its family are one step, because the family of a token never changes.
The wait for the client row and the commit are one step, because nothing is awaited in between.

### Runs

| Run | What it shows | Instance |
|---|---|---|
| `store` | `Sessions` implemented by the atomic operations (the invariants of the tables are theorems, and checked by the `tx` runs); expired codes and families go | a CIMD and a registered client, two codes, two sessions, two tokens of each kind, cap 1, token life 2, clock to 4: a session is renewed, rotated, replayed and expires, and another follows it |
| `tx_tokens` | the same invariants and `Sessions` under interleaving; requests never deadlock one another; no commit shortens a life | two workers and the evictor, token life 2, transactions open for up to 1 tick: long enough for a deadline to pass while a transaction waits |
| `tx_clients` | cap, foreign keys, granted clients and good codes survive | two registrable clients and a CIMD client for cap 1 |
| `tx_progress` | every transaction ends | two workers and the evictor, one family |

Symmetry permutes keys drawn at random and the workers, and is used only in `tx_tokens` and `tx_clients`, which check no liveness.
Clock and key supplies end; when they do an instance simply stops, so deadlock is not checked there
(the server has no work either when no request arrives).

Fairness. `FairSpec`: the clock advances and the evictor's ticker (every five minutes, `oauth.go`)
fires. `TxFairSpec`: strong fairness of each transaction's next step, because PostgreSQL serves lock requests
in queue order, so a lock that keeps becoming free is obtained; weak fairness of a deadlock victim's rollback,
because the deadlock detector runs after `deadlock_timeout`; and rollback of a transaction for
which the bounded instance has no fresh key, which the real key space never runs out of.

### Proofs

`OAuthStoreProofs` proves, for any sets of clients and keys, any life times and any cap:

- `TypeCorrect`, and `ReferencesHold`, `SessionsCovered`, `IdleWindowHolds` (each `Spec => []Inv`);
- `CapHolds`, by counting: an insertion follows a count below the cap;
- `GrantsKeepClients`, an action property.

The inductive invariant is `IndInv`: `TypeOK`, `ReferentialIntegrity`, `SessionCover`, `IdleWindow` and
`FreshKeys`. None of the parts is inductive alone. `SessionCover` needs
`FreshKeys` (a rotation must not overwrite a row), and `ReferentialIntegrity` (a family deleted takes its tokens
along); `RenewToken` needs `SessionCover` itself to know that the live refresh token has not
expired when the family has not. `IdleWindow` rests on the same facts. Deletion is treated once, in `CascadeInv`,
for `Evict` and both registrations.

`OAuthRefinement` proves `StoreKeepsPromise`: every step of `OAuthStore` is a step of `Sessions` or leaves its
variables alone. `Evict` and the evictions inside registrations map to `Reap` (lemma `ReapStep`), where
`SessionCover` and `ReferentialIntegrity` show that a session and its tokens end together.

`OAuthTxProofs` proves of the interleaved transactions, for any number of workers and evictors and any age a transaction may
reach: `TxTypes`, `TxSessionsCovered`, `TxIdleWindowHolds`, `TxReferencesHold`, `TxCapHolds`, `RequestsDoNotDeadlock`, and the action
properties `TxGrantsKeepClients`, `GoodCodesAreKept`, `SessionsNeverShortened`. The inductive invariant is `TxInv`:

- `IndInv` and `ClientCap` of the committed tables.
- `Locks`: a transaction holds exactly the locks its position says (`Holds`). `Exclusive`: no two locks of different transactions conflict.
- `TxFacts`, per transaction: clock readings at most `MaxTxAge` old (`Clocks`), and what it has judged under its locks still is so
  (`Renewing`, `Rotating`, `Exchanging`; for deletions `Cascades`, `Staged`, `Over`; for registrations `Counted`).

The argument is rely and guarantee. `Effect(w)` is all that a step of `w` may do to the tables: change rows it holds
exclusively, insert rows under fresh keys whose client it has not seen locked, touch `last_activity_at`. Each action satisfies it, and from it and
`Exclusive` the `Other...` lemmas show that the facts of every other transaction survive. What a transaction judged before its lock was granted is
re-read under the lock, and the facts only say what has been re-read. The hard case is a DELETE of clients: its NOT EXISTS clauses are read long
before the rows go. `Over` says why that is right: a client that has been locked has had no grant since, because a grant takes the
client's row (`GoneClient`); one that still is waited for either has none or was used within `MaxTxAge`, and then the recheck of `last_activity_at`
passes it over. That last step needs `MaxTxAge <= ClientIdleTTL`: a transaction that stays open for as long as an unused client
is kept (a day; `clientIdleTTL`, `store.go:31`) is not covered, and no request context lives that long. It is a named conjunct of `TxAssumption`.

`RequestsDoNotDeadlock`: every member of a cycle both waits and holds a row that another waits for. A request that holds something and waits wants a token
of the family it has locked, or the client (`RequestWants`); nobody in the set holds a client (`HoldsOfFamily`), and a token of a locked family is held by
nobody else (`NoWait`). Evictions, those inside registrations too, are not in the set: see the lock order under Disagreements.

`OAuthRefinement` proves `TransactionsKeepPromise` too: `OAuthTx` implements `Sessions` with `Slack = MaxTxAge`. The lemmas about what an
operation's rows are in terms of `Sessions` (`GrantMap`, `ExtendMap`, `RotateMap`, `ReapMap`, ...) take the clock reading as a parameter and serve both
refinements; a commit uses the reading its transaction took, and `TxInv` says that what it read then still stands.

The assumptions are the named ASSUMEs of `OAuthStore` and `OAuthTx`: key sets disjoint and without `NULL`, positive
code and token life, a finite set of clients, at most `maxClients` static clients, workers and evictors apart, and the bound on `MaxTxAge` above.

Only model-checked: liveness (`ExpiredRowsGo`, `EveryTransactionEnds`), out of the prover's reach.

## The pipeline

### Pipeline

`disk` is `data/`; `man` the manifest rows with their stage timestamps as booleans; `capture` the
bronze rows, per path and hash the bytes read; `doc` and `tree` the silver document and its controls;
`chunk` the gold chunks of a document, whether their controls still exist, whether all are there and
whether they have dense and sparse vectors; `run` the process: stage, position, files to do. Bytes
stand for their hash. Many rows (controls, chunks) written one statement at a time are modelled by none, some or all.

- `Start`, `Leave`: one stage, or manifest, extract and normalize in a row; a file that failed stops
  the list after its stage.
- `ScanFile`, `ScanAmbiguity`, `ScanDemote`: the upsert resets the stages when the hash changed,
  ambiguous rows are reported, rows without a file are demoted unless the walk found nothing.
- `ExtractCapture`, `MarkExtracted`: the file is read again and stored under the manifest's hash.
- `NormalizeDocument`, `NormalizeDelete`, `NormalizeInsert`, `MarkNormalized`, and `NormalizeSkip`
  for an amendment whose base is missing and for companion workbooks.
- `ReapOrphans`, `IndexFile`, `BuildDelete`, `BuildInsert`, `Embed`, `IndexCorpus`, `MarkIndexed`: every
  document of the file's version is rebuilt, then all missing vectors are made, then the files of
  this run are marked, unless vectors are incomplete.
- `ExtractFail`, `NormalizeFail`, `IndexFileFail`, `BuildFail`, `MarkIndexedFail`, an incomplete `Embed` or
  `IndexCorpus`, `Crash`: any statement may fail, and the process may die between any two.
- `Edit`: a file appears, changes, disappears or becomes unreadable, also while a stage runs.

Abstractions: of the texts in `stage_error` only "ambiguous" matters to a property. The files of a
stage are taken in any order, which includes the order by path the code uses. The two bronze upserts are one step, since nothing reads the
first without the second. One process runs at a time (`Embedding` has two). Only amendments of the scheme that is parsed are in the instances, and main
documents carry no qualifier. The `mapedges` stage and the `mapedges_at` column are left to `MapEdges`.

### Runs

| Run | What it shows | Instance |
|---|---|---|
| `pipe_file` | a stage never lists a row its predecessor has not completed for this hash; a normalized row has its whole tree, of the right bytes; once edits and failures stop, rerunning the stages settles everything, and silver is parsed from the bytes `data/` has | one path with two contents, absent or unreadable; every stage command |
| `pipe_version` | missing chunks of an indexed file always show as another waiting row of its version; rerunning the stages settles the version | a standard and its amendment whose files become unreadable and readable again |

Two configurations beside the runs state what the code does not keep, and TLC finds them violated: `MCPipeCapture.cfg` (bytes captured under the hash of their
predecessor, `CaptureOfHash`) and `MCPipePaths.cfg` (an indexed row of a document whose bytes silver does not have, `CompleteMeansServed`).

One path suffices for `pipe_file` because its properties relate a row to its own document, and two contents
are what a changed hash needs. Two documents suffice for the index stage because it works version by version and one other document is
what a rebuild can damage. `pipe_version` uses unreadable files instead of removed ones because both
take a row out of the stages; a removed sibling is described below under Disagreements. `NormalizedServed` assumes one path per document,
and `MCPipePaths.cfg` shows why.

Fairness of `Recovers`: a live process goes on (weak fairness of `Good`), which says that its statements and its calls of Kaggle return: the code
bounds neither, so `Recovers` is about runs in which they do. The operator keeps
running the default stages and the index stage (strong fairness, since the other command
may be what runs whenever one is possible). The property assumes what the operator must provide: edits and failures stop, every file is readable, no two files claim one
document; and that no edit came between the hash of a file and its capture (`Unedited`): nothing in the code notices one, and `MCPipeCapture.cfg` shows what
is served then. One unreadable file stops the default stages after manifest, so without that
premise nothing else is processed by the default command either.

### Proofs

`PipelineProofs` proves, for any files, contents, documents, versions and commands:

- `PipelineTyped` and `StagesInOrder`: `TypeOK` and `StageOrder` are invariants. The inductive invariant is
  `PipeInv`, which adds `Worklists`: the rows a running stage works on are as the stage listed them
  (extracted, not yet normalized, and so on), and a file about to be marked extracted has its capture. Without
  it marking a row, which tests nothing, could set a timestamp without the one before. `TypeOK`
  needs `StageOrder` in turn: the tree that normalize writes is made of a capture, which
  must exist.
- `TreesServed`: `NormalizedServed` is an invariant if no two paths share a document (`OnePath`). `ServedInv` adds what
  silver holds half way through a file: the document row has the file's hash from the first statement on, and
  the tree is whole before the row is marked. The hypothesis cannot be dropped: see `MCPipePaths.cfg`.

- `HolesAreShown`: `HolesShow` is an invariant if no file leaves `data/` (`NoRemovals`), however many files a version and paths a
  document have. `HolesInv` says of the tables that an active row whose tree is torn, or an indexed row whose document lacks chunks or
  vectors, has another active row of its version that waits (`TableFacts`), and of a running stage what it may still rely on: the
  manifest scan has seen every file, so it demotes none (`ManifestFacts`); normalize has cleared the timestamps of the document it is
  replacing (`NormalizeFacts`); of each file the index stage counts as done, every document of its version is built or about to be
  built, or a file of that version was left out and waits, and by the time files are marked no vector is missing (`IndexFacts`).
  Without the last one marking a file would say something about the documents of others. The hypothesis is the run's own: with removals the property is false, see the removed sibling under Disagreements.

They rest on `FileAssumption` and `NullAssumption` of `Pipeline`. `Recovers` is model-checked only.

## Embedding

### State and actions

`chunk` is gold.chunk joined with its embedding and sparse vector: the text of a row (a control and the
normalization it was made by), the text its vector was made of, the texts the BM25 encoder knew when it was weighed.
`rev` counts normalizations of a file, `indexed` is its `indexed_at`, `proc` the index stage of each process and what it
has at Kaggle.

- `Start`, `ReapOrphans`, `ListDocuments`, `ListControls`, `DeleteChunksForControls`, `InsertChunk`, `DocBuilt`, `FileBuilt`, `BuildFails`: phase 1 of `runIndex`.
  For each waiting file every document of its version is rebuilt, those of indexed files too; one that fails leaves the file out, and the
  others are tried all the same. The controls are read once and may be gone when their chunks are inserted.
- `ChooseEngine`, `ListMissing`, `EmbedLocal`: the engine, and the local embedder. `auto` counts the missing chunks.
- `UploadInput`, `PollDataset`, `PushKernel`, `PollKernel`, `Timeout`, `DownloadOutput`, `ParseVector`, `ParseFails`, `DeleteKernel`,
  `DeleteDataset`: `EmbedStream`. Kaggle may answer anything at any poll; a request that reports an error may have taken effect; the output has any order.
- `Train`, `Weigh`: `IndexCorpus`. `MarkIndexed`, `Finish`: the marks, only if both global phases succeeded.
- `Normalize` by another process, and `Crash`, at any moment.

Pipeline's `Embed` and `IndexCorpus` are the same phases as one step each. There is no hidden lock: a second process is only kept away by the foreign key
of the vectors and the unique key of the chunks.

### Runs

| Run | What it shows | Instance |
|---|---|---|
| `embed` | a vector is of its chunk's text, a weighed chunk's text was in the encoder's corpus, a job that passed its upload tried both deletes on every exit | two processes, one with `auto` and enough missing chunks for Kaggle, one local; one file with two controls; normalized once in between; one start each, three chunk rows |
| `embed_one` | a file whose chunks are not complete waits, or a file of its version does (`HolesWait`); the waits for Kaggle and the clean-up end (`WaitsEnd`) | one process, three files of one control, two of them of one version, `auto` with two missing chunks going to Kaggle, two starts, one failed poll in a row tolerated |

Two configurations beside the runs are violated: `MCEmbedMarks.cfg` (an indexed file without its chunks, `MarkedComplete`; one process, two files of a version, two starts)
and `MCEmbedUpload.cfg` (a dataset that was created and never tried to be deleted, `CreatedIsTried`; one process, two files).

Two controls are what output out of order needs, and three rows let one file be built and rebuilt in part. `HolesWait` needs two files of a version, because one is what the other's
rebuild takes down, and two starts, one to mark a file and one to damage it; the third file shows that versions do not disturb each other. It is checked with one process and no normalization
beside it: a second process may delete chunks between the first one's embedding and its mark, which the code does not prevent.
Fairness of `WaitsEnd`: weak fairness of the polls, of the deadline and of the clean-up, and of nothing else. `waitDatasetReady` and `waitKernel` run under a context with a timeout and
`cleanup` under one of its own; the upload, the push, the download and the statements of the database run under `context.Background()`, so that a run ends is not claimed.
The models stop when their starts are used up, so deadlock is not checked.

### Proofs

`EmbeddingProofs` proves, for any files with disjoint finite sets of controls, any number of processes and any bounds:

- `IndexTypes`, `VectorsAreOfTheText`, `EncoderKnowsTheText`, `ArtifactsAreTried`. The inductive invariant is `IndexInv`. The statements that
  store a vector go by the chunk's id, which was read some steps before, so that the vector is right needs `Truthful`: whatever rows a process still
  has in hand, a chunk of that id either is gone or has the text that was read. It holds because ids are never drawn twice (`IdsFresh`) and no statement changes the
  text of a chunk. `JobState` says what a job has at Kaggle at each place of the stage.
- `ArtifactsAreTried` is about every exit of `EmbedStream` after its upload: the deferred clean-up runs whether the wait for the dataset, the push, the wait for the kernel, the
  download or the parse is what ended the job.
- `IncompleteFilesWait`: `Alone => (Spec => []HolesWait)`. `MarkInv` adds, for each place of the stage: a file that is listed, taken or built is not marked (`Files`); the controls
  of a file have chunks, or a file of its version is left to a later run, and while no document of the file at hand failed those that were listed have theirs (`Chunked`);
  each chunk has a vector or still is in the job's list (`Dense`), and the same of the sparse vectors (`Weighed`); a list that was read before the vectors were made still names every chunk without one.
  `Alone` is one process and no normalization, the hypothesis under which the run checks the property too: a second
  process may delete a chunk between the first one's embedding and its mark. Failures, crashes and restarts are all in.

The missing chunks come in the order of their query; which of the orders that respect it (`Listing`) is left open, because the proofs cannot
sort. `WaitsEnd` is model-checked only.

## Mapping edges

### State and actions

`doc` has for each main document how often it was normalized, how many of its controls are inserted and its
`mapedges_at`; `edge` is silver.control_mapping with the resolved target; `super` silver.version_relation; `held` the captured
workbooks; `norm` the document under rebuild; `run` the stage. A control's id is its place and its document's rebuild, so a rebuilt control is another row.

- `NormalizeDelete`, `InsertControl`, `NormalizeDone`, `NormalizeFails`: `writeTree`. Deleting the controls takes their edges along, unresolves the
  edges into them and clears the marker, in one statement; a tree may stay half inserted.
- `Load`, `Emit`, `Emitted`, `Resolve`: the emitters, each reading controls, upserting one edge at a time and resolving. `ISOForward`,
  `ISOReverse`, `OLIREdges`, `CISEdges` and `CuratedEdges` are what each derives from the corpus.
- `ResolveAnnexPrefix`, `EmitVersionSupersessions`, `ResolveViaSupersession`: the passes over what is still unresolved.
- `MarkMapEdgesFresh`: stamps every document, unless a workbook was skipped. `StageFails`: any statement fails.
- `staleMapEdges`, `curatedMappingGaps`, `unresolvedMappings`: the worklists quality_gaps computes from these tables.

One CIS workbook stands for the three; titles of safeguards are distinct; rows of a workbook are upserted in any order (both parsers range over
a Go map), those of the other sources in the one order of their query.

### Run

`mapedges` checks `FreshMeansBuilt`, `ResolvedRight` and `EdgesSettle` on four documents: ISO 27001 with a clause and an Annex A control, 27002,
NIST 800-53 and CIS v8.1; crosswalk rows that cite a clause and a bare Annex number, a CIS row with a blank and one with an unknown relationship, curated rows that
cite an old version, no version and a version nobody has. Each document is normalized up to twice, one statement fails. Twice is what losing an edge needs.
`Concurrent = FALSE`: normalize and mapedges run one after the other. With TRUE, `FreshMeansBuilt` fails: the marker also stamps a document that was normalized
after the emitters had read it. Fairness of `EdgesSettle`: a started statement sequence goes on, the operator starts the stage again and again, and both workbooks are captured in the end.

### Proofs

`MapEdgesProofs` proves, for any documents, trees, workbooks and curated rows:

- `EdgeTypesHold`, whatever runs beside the stage.
- `TargetsAreRight` and `StampsAreHonest`: `ResolvedRight` and `FreshMeansBuilt`, if the stages run one at a time (`~Concurrent`). The hypothesis is the
  one the run makes; without it `FreshMeansBuilt` is false, as said above.

The inductive invariant `EdgeInv` has `Exclusive` (one stage at a time), `ResolvedRight` and `Progress`: while the stage is at a source, every control of
a built document has the edges that the sources before it derive, and of the source at hand those not in `todo` any more. Two facts carry it. No step of the stage takes an edge away:
upserts and resolutions keep its key (`KeysStay`). Normalize takes edges away only with the controls they start from, and clears the marker in the same
statement. For `ResolvedRight` each pass over the unresolved edges has a lemma of its own, and a rebuilt document unresolves what pointed into it.
`MapEdgesAssumption` says that citations of a tree are distinct, that a framework and version name one document, and that a parsed tree is not empty.
`EdgesSettle` is model-checked only.

## The server

### State and actions

`cfg` is the environment, `bucket` the clients maps of both limiters, `req` the requests in flight with their place in the
middleware, `srv` the process. A bucket keeps how long it was not looked up instead of a time stamp.

- `Accept`, `Lookup`, `Allow`, `OriginVerify`, `Authenticate`, `LookupToken`, `BeginRenewal`, `RenewToken`, `Route`, `Acquire`, `QueryDone`, `Panic`, `WriteDeadline`, `ClientReads`: a request on its way.
  `Lookup` is under the mutex and `Allow` after it; an evicted bucket lives on for the request that holds it (`lim`). With OAuth the verifier asks the store twice, each time on a connection
  of the pool (`Acquired`), and the static token is only compared when it says no.
- `OAuthMode`, `Projection`, `Accepts`: the decisions of `run` and `secure`, taken apart from one another in the code. `ClientIP` counts hops from the right.
- `Tick`, `Evict`: time, refilling, the evictors. `Signal`, `ServeReturns`, `ClosePool`, `Exit`: the end. `ListenAndServe` returns when `Shutdown`
  begins, so requests in flight may find the pool closed.

`RateLimit` is the promise: one bucket for each address and limiter that is never forgotten. The mapping reads a missing entry as a full bucket.
`ServerAssumption` says when that is right: a bucket fills within the idle time less the time a request may hold it (10 minutes against a burst of
100 at 50 per second, and likewise for the gate).

### Runs

`server` checks `LimitsKept` (the refinement), `FullNeedsCredential` (16 environments without the edge, every credential), `GuessesCharged`
(the deployed environment: requests through the distribution with and without a forged header, and past it), `PublicRequestsEnd` and `ShutdownEnds`.
Bursts of one make every request count; two concurrent requests in the deployed environment are what a limiter race needs; three addresses: the client, the forged one, the edge;
TTL 2 and stall 1 are the least that the assumption leaves, so evictions come as early as they can while a request may still be slow between its lookup and its Allow. Elsewhere one request at a time, because credentials are decided without looking at other requests.
What `LimitsKept` exercises is the eviction of a bucket by its age while it may be part-empty; the same inequality keeps the evictor away from a bucket between its lookup and its Allow.
Fairness: goroutines are scheduled, and the landing page's statements return because it gives them three seconds (`landing.go:52`). The DSN sets no `statement_timeout`, `r.Context()` has no
deadline and `Shutdown` does not cancel it, so no other statement is assumed to answer: `ShutdownEnds`, and the part of `PublicRequestsEnd` about the OAuth POSTs, say what follows if they do
(`StatementsAnswer`). Nothing is assumed of clients, of ticks or of evictions.

### Proofs

`ServerProofs` proves, for any addresses, kinds of requests, environments and numbers of requests:

- `ServerTypes`, `FullBodiesNeedCredential`, `GuessesAreCharged`. The inductive invariant `ServerInv` adds `Passed`: what a request at
  each place of the middleware has behind it (a verdict of each limiter on its way, the secret, the credential), and the key a limiter found for it. `GuessesAreCharged` then is
  about `ClientIP`: counted from the right of the header, `Hops` addresses are those that proxies appended, for every `Hops` of 1 or more.
- `LimitsAreKept`: `Server` implements `RateLimit`. `Refilled` is what an eviction needs: a bucket is full, or
  has refilled for all its idle time but the stall a request may have taken its token after; so an entry that the evictor removes is full. `Held` is the other half: a bucket that a request took up at
  its lookup is still in the map at its Allow. This is where the inequality of `ServerAssumption` between burst, rate, TTL and stall is used, and the only place. The steps of the mapping are then: a tick
  refills, an Allow spends or refuses, everything else is a stutter.

`PublicRequestsEnd` and `ShutdownEnds` are model-checked only.

## The tools

### State and actions

`Corpus` has the tables as tools read them (`control`, `chunk`, `vector`, `sparse`, `edge`, `current`) and the writers' statements: normalize, a
re-emitted edge, the index stage's rebuild and its vectors, the seed. `vector` is by chunk and model, since embedders coexist (`Models`); the index stage writes those of `Model`.
`Listed` are the versions of config.framework_version, and a document's version need not be one; `Relations` is silver.version_relation. `call` is the call under way; `calm` says that nothing was written and no statement failed since it began.

- `Search`: `citationLookup`, `EmbedQuery`, `vectorArmExact`, `sparseArm`, `hydrate`, `nonCurrentHits`, `nonCurrentHydrate`, `hitSourceURLs`, `filterGaps`, `SearchShape`, one action for each
  statement of a call; `Needs` skips those the call does not make. Fusion, the cap, pinning, the append and the abstention floor are operators on sequences of hits. `StatementFails` and
  `SearchFails` tell tolerated failures from the others; `CitationFails` is a lookup that fails part of the way, whose rows stay.
- `Document`: `findControl`, the diagnostics of a miss, the sections, `ProjectDocument`; `CorpusStatus` is one statement.
- `Tools` composes them: one call at a time with the writers. Calls share nothing they write, so two calls add nothing.

### Run

`tools` checks the answers of undisturbed calls against what the corpus holds (`FindsTheCorpus`, `OpensTheMeant`), and for every call that no chunk appears twice (`NoChunkTwice`), that
a document reply is of one build (`OneBuild`), that abstention is honest, and that the counts of corpus_status agree. The corpus: two versions of a framework, an amendment of the current one, a second framework with the same
citation, a version of that framework which is not listed, a withdrawn control, mappings across, relations to a listed and an unlisted version. Seven queries and six lookups choose every mode, filter, cap and section; three servers: an embedder of the stored model, one of an
older model, whose vectors some of the corpora still have, with reduced bodies, none. A document carries an id, the order of its chunks' ids; the dense arm and the fusion settle ties by it as the code does. One pipeline job or seed while a call runs, with vectors or without from the start. Four rows to an arm and two citations to a lookup make the limits bite; RRF's constant is 20 as in the code.
Deadlock is checked: a call can always be made.

`tools_floor` is a violation: `FloorSeesAllHits` says with MCP.md that the floor looks at all returned hits, and a search with a citation abstains although its lead hit is above the floor.

### Proofs

`ToolsProofs` proves, for any documents, trees, edges, queries, lookups and servers and any number of jobs:

- `TypeCorrect`.
- `DocumentsAnswer`: a document reply is of one build, and an undisturbed one opens what the citation means.
- `AbstainsHonestly`: a search abstains exactly when it says why, always on an empty reply, and with hits exactly when the dense arm ranked some of them and the cosine of each of those is below the floor.
- `SearchesAnswer`: no search lists a chunk twice (`NoChunkTwice`), and an undisturbed one finds what the corpus holds (`FindsTheCorpus`).
- `StatusConsistent`: the counts of corpus_status agree with each other (`CountsAgree`; a chunk has at most one vector of a model), and while nothing is written every resolved edge is counted once at either end,
  but for those from or to a version that is not listed (`EdgesAgree`, with `Leaving` and `Reaching`).

The inductive invariant is `ToolsInv`, of five parts.

- `CorpusInv`, about the tables: the rows of a document are of one parse, builds are at most the number of jobs (so a new build is unlike every build a call may hold rows of),
  a control has one chunk at most, an edge leaves a control that exists, a framework has one current version; and `JobHolds`: what normalize has inserted so far is of its build, and
  what the index stage still has to chunk has no chunk. The last is why `CountsAgree` holds in the middle of a rebuild.
- `SearchInv`: the pins, the older versions and the hits name a chunk once at every statement of the call; a dense ranking means that the embedder's model has vectors; which gaps
  are known before the reply is shaped. The lists may come from different states of the tables: what `NoChunkTwice` needs is that each is distinct and that merging and appending skip what the other list has.
- `KnowsInv`: what a search that nothing came between knows of the tables at each of its statements (`KnownAt`). After the lookup it has as many cited controls as there are, up to the limit; after an arm, a
  list of what the arm can find in which nothing comes before its betters (`ArmKnown`); after hydration, hits with the same promise about both arms together (`MainKnown`), to which the older versions are
  then appended (`OlderKnown`). A statement that the call does not make would have told it nothing (`Skipped`). Any write or failure ends the promise, so only reads have to keep it.
- `DocInv`: sections read after the control belong to its build, whatever became of it since; while the call is calm, what the statements so far found is what the tables hold (`Knows`).
- `StatusInv`: what one statement counted. The sums that `EdgesAgree` compares are recursions over finite sets with one solution (`SumUnique`: there is no least subset on which two solutions differ), and counting the edges by an end is one (`CountsAddUp`): the sum of the resolved counts is the number of edges in `Leaving`, of the inbound counts in `Reaching`.

For `FindsTheCorpus` the step that matters is fusion. A chunk that is ahead of another in each arm that ranks the other has the smaller rank there, so its sum of reciprocal ranks is larger, whatever the weights
(`SumsCompare`, `BetterAbove`): what is better in both arms is above in the fused list, and truncation, hydration and the merge keep a beginning of that list in order (`LimitFollows`, `HydratedAll`, `MergedFollows`). The cap per framework
moves hits and, since it runs on a list that is truncated already, drops none (`CappedAll`); hence "listed too, ahead of it unless a cap moves hits".

Most of the module is lemmas about sequences: `Ordered` lists a finite set once and in order, when keys tell its members apart (`ChunkId` does, by build, document and place);
`Kept`, `Limit`, the merge, the cap and the append keep a list distinct. For this `Ordered` and `By` take the order as a set of pairs, and selection is by index (`Kept`), not by `SelectSeq`, whose definition is recursive.

## Disagreements met while modelling

Places where the code does something other than a comment or document says. The first five are stated by a configuration that TLC finds violated; `tools_floor` is the one listed as a run.

- `MCEmbedMarks.cfg`, `MarkedComplete`: "This prevents marking a file as indexed when its vectors are still incomplete" (`cmd/pipeline/main.go:637`). Nothing takes a mark back: indexing another file of
  the version deletes the chunks of every document of it (`main.go:492`), and a failure or a kill after that leaves a marked file without them. `HolesWait` is what does hold.
- `MCEmbedUpload.cfg`, `CreatedIsTried`: "Delete the dataset + kernel on every exit" (`pkg/rag/embed/kagglebatch/kagglebatch.go:230`). An upload that reports an error although
  the dataset was created returns at line 227, before the clean-up is deferred.
- `MCPipeCapture.cfg`, `CaptureOfHash`: "keyed by (manifest_rel_path, sha256) so a re-drop of a changed file is a new observation" (`sql/bronze/schema.sql:7`). A file replaced between
  scan and extract is stored under the hash of its predecessor; when that one comes back, the row keeps its stages and the wrong bytes are served.
- `MCPipePaths.cfg`, `CompleteMeansServed`: "sha256 diff drives re-runs. Completeness = every active row for a current version reaching indexed_at"
  (`sql/ingest/schema.sql:4`). Stages are kept per path, documents per key: a document that moves to another path with other content and back is taken as done while silver holds the other content.
- `tools_floor`, `FloorSeesAllHits`: "The floor compares the best raw vector cosine similarity across the returned hits" (`docs/design/MCP.md:164`). `mergePinned` (`pkg/rag/retrieve/retrieve.go:873`)
  returns a cited control without a similarity and drops the copy that has one.

The others are stated by no configuration:

- "Every family operation locks the family row first" (`pkg/oauth/postgres_store.go:353`). The evictor
  deletes access tokens before families (line 670) and so holds a token row while it asks for the family; a
  renewal that took the family just before its deadline waits for that token row, and PostgreSQL aborts one of the two.
  `tx_progress` shows that nothing stays stuck.
- The same sentence of `sql/ingest/schema.sql:4`, once more: a failed rebuild started for one file deletes the chunks of its indexed sibling; if the first
  file is then removed, every active row is indexed and the sibling has no chunks.
- "the scan reports both as a quality gap and processes neither"
  (`docs/design/SCHEMA.md:62`). Only the default stage list stops; `-stage extract` takes both files.
- "either the run completed and all documents' outbound edges are current, or it failed and none are" (`pkg/normalize/mapedges.go:51`). Not when another process normalizes meanwhile.
- The reason "document re-normalized since the last mapedges run" (`pkg/mcp/quality_gaps.go:395`) is also given in a corpus over which the stage never completed, once there are edges.
- The 10 seconds that `cmd/server/main.go:222` gives `Shutdown` are not waited for: `ListenAndServe` returns when `Shutdown` begins, and `run` closes the pool under the requests.
- "capPerFramework limits how many top-k slots one framework may occupy" (`pkg/rag/retrieve/retrieve.go:831`). It runs after the list was truncated to the free slots, so it
  changes their order and never their members.

Observations without a text to contradict: a pinned chunk that an arm also ranked can leave a reply shorter than top-k; a rebuild between the citation lookup and the arms can list one control under two chunks; two CIS rows that
agree in safeguard and target but not in relationship keep the one a Go map iterated last.

## What is only model-checked

Of the tools nothing: every property of `tools` is proved. The proofs of `FreshMeansBuilt`, `ResolvedRight` and `HolesWait` take one stage at a time, as the runs do. `ExpiredRowsGo`, `EveryTransactionEnds`, `Recovers`, `WaitsEnd`, `EdgesSettle`, `PublicRequestsEnd` and
`ShutdownEnds` are liveness under fairness and stay with TLC.

## Mutants

Every property of a passing run has a mutant: a definition changed the way a plausible bug would change it
(`Mut...` operators beside the definition), under which TLC finds the property violated. They show that the properties depend on the code.

## Not modelled

- Parsers and raw capture formats: text recognition by regular expressions and libraries. What they return is a
  constant of the models. Edges that a parsed document carries itself are left out with them.
- ONNX inference, BM25 weights, evaluation metrics: floating point.
- Fetchers, client metadata fetch, migrations, configuration, logging, health check, stdio server: start-up or network I/O without state that the
  modelled parts read.
- The in-memory OAuth store: a test double of the PostgreSQL one.
- Of the MCP tools: the guide, the other categories of quality_gaps, argument errors answered before anything is
  read, pages beyond the first, and the CurrentOnly option, which no tool sets. Ties between lexical scores: the code leaves their order to PostgreSQL.
- Time as such: deadlines and tickers are events that may happen, bounded in number.

PROJECT.json has a note for every component.
