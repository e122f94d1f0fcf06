----------------------------- MODULE Embedding -----------------------------
(***************************************************************************)
(* The index stage seen from the rows of gold.chunk: pipeline processes    *)
(* that rebuild chunks, embed the ones without a vector, locally or in a   *)
(* Kaggle GPU job, and weigh them for BM25, while others normalize.        *)
(* Pipeline treats embedding as one step of one process; here it is the    *)
(* upload, the polls, the download, the vectors one by one and the         *)
(* clean-up, and nothing keeps a second process away.  Time is not         *)
(* modelled: a deadline may pass at any sleep, and has passed after        *)
(* MaxPolls of them.                                                       *)
(***************************************************************************)
EXTENDS Integers, Sequences, FiniteSets

CONSTANTS Proc,            \* pipeline processes
          File,            \* files with a parsed role, each a document of its own
          VersionOf,       \* [File -> framework version the document belongs to]
          ControlsOf,      \* [File -> set of controls]
          Engines,         \* [Proc -> what embed.engine may say in its configuration]
          MinBatch,        \* embed.kaggle.min_batch
          MaxPollFailures, \* failed kernel polls tolerated in a row
          MaxPolls,        \* sleeps before a deadline
          MaxId, MaxRev,   \* bounds: chunk rows ever inserted, normalizations of a file,
          MaxStarts,       \* and starts of the stage by a process
          NULL

Control == UNION {ControlsOf[f] : f \in File}

ASSUME EmbeddingAssumption ==
    /\ DOMAIN ControlsOf = File /\ DOMAIN VersionOf = File /\ File # {}
    /\ \A f \in File : IsFiniteSet(ControlsOf[f])
    /\ \A f, g \in File : f # g => ControlsOf[f] \cap ControlsOf[g] = {}
    /\ Engines \in [Proc -> SUBSET {"local", "kaggle", "auto"}]
    /\ {MinBatch, MaxPollFailures, MaxPolls, MaxId, MaxRev, MaxStarts} \subseteq Nat

VARIABLES rev,      \* how often a file was normalized: its controls are rebuilt
          indexed,  \* its indexed_at is set
          chunk,    \* gold.chunk with its embedding and sparse vector
          nextId,   \* the identity column of gold.chunk
          proc      \* the index stage of a process and its Kaggle artifacts

vars == <<rev, indexed, chunk, nextId, proc>>

Id == 1..MaxId

\* A silver control is its citation and the normalization that inserted it; the
\* text of its chunk, context prefix included, is taken to be a function of the
\* two.  Left out: the body of an equivalent control of another document, which
\* index.go appends and which may change without a normalization of this one.
Text == Control \X (0..MaxRev)
FileOf(c) == CHOOSE f \in File : c \in ControlsOf[f]
Current(t) == t[2] = rev[FileOf(t[1])]

\* vec: the text the vector was made of; sparse: the texts BM25 was trained on.
ChunkRow == [text: Text, vec: Text \cup {NULL}, sparse: (SUBSET Text) \cup {NULL}]

\* NULL is no value of a column.
ASSUME NullAssumption ==
    NULL \notin Text \cup ChunkRow /\ \A T \in SUBSET Text : T # NULL

Rows == {i \in Id : chunk[i] # NULL}

\* A row of a listing: the chunk's id and text as they were read.
Listed == [id: Id, text: Text]

\* One embedding phase; tried: the deletes cleanup has attempted.
NoJob == [missing |-> <<>>, seen |-> {}, polls |-> 0, fails |-> 0, unknown |-> FALSE,
          uploaded |-> FALSE, dataset |-> FALSE, kernel |-> FALSE, tried |-> {}]

\* files: still to be taken; cur: the one taken; docs: the documents of its version
\* still to rebuild; todo: the controls of one of them to insert, as read;
\* fileErrored: one of them failed; built: files none of whose documents failed;
\* errs: phases that failed.
IdleProc == [pc |-> "idle", engine |-> NULL, files |-> {}, cur |-> NULL, docs |-> {},
             todo |-> {}, fileErrored |-> FALSE, built |-> {}, errs |-> {}, job |-> NoJob,
             corpus |-> <<>>, starts |-> 0]

PC == {"idle", "reap", "files", "docs", "delete", "insert", "engine", "list", "local", "upload",
       "ready", "push", "kernel", "output", "parse", "rmkernel", "rmdataset", "train",
       "weigh", "mark", "failed", "done", "crashed"}
AtRest == {"idle", "failed", "done", "crashed"}

JobRow == [missing: Seq(Listed), seen: SUBSET Nat, polls: 0..MaxPolls,
           fails: 0..MaxPollFailures, unknown: BOOLEAN, uploaded: BOOLEAN, dataset: BOOLEAN,
           kernel: BOOLEAN, tried: SUBSET {"dataset", "kernel"}]
ProcRow == [pc: PC, engine: {"local", "kaggle", "auto", NULL}, files: SUBSET File, cur: File \cup {NULL},
            docs: SUBSET File, todo: SUBSET Text, fileErrored: BOOLEAN, built: SUBSET File, errs: SUBSET {"build", "embed", "sparse"},
            job: JobRow, corpus: Seq(Listed), starts: 0..MaxStarts]

TypeOK ==
    /\ rev \in [File -> 0..MaxRev]
    /\ indexed \in [File -> BOOLEAN]
    /\ chunk \in [Id -> ChunkRow \cup {NULL}]
    /\ nextId \in 1..MaxId + 1
    /\ proc \in [Proc -> ProcRow]

Init ==
    /\ rev = [f \in File |-> 0]
    /\ indexed = [f \in File |-> FALSE]
    /\ chunk = [i \in Id |-> NULL]
    /\ nextId = 1
    /\ proc = [p \in Proc |-> IdleProc]

-----------------------------------------------------------------------------
\* Another process scans, extracts and normalizes a file that changed: its
\* controls get new ids and its stage timestamps are cleared.
Normalize(f) ==
    /\ rev[f] < MaxRev
    /\ rev' = [rev EXCEPT ![f] = @ + 1]
    /\ indexed' = [indexed EXCEPT ![f] = FALSE]
    /\ UNCHANGED <<chunk, nextId, proc>>

At(p, l) == proc[p].pc = l
Goto(p, l) == proc' = [proc EXCEPT ![p].pc = l]
tables == <<rev, indexed, chunk, nextId>>
Without(ids) == [i \in Id |-> IF i \in ids THEN NULL ELSE chunk[i]]

\* The stage returns an error before its first phase is over.
Stop(p) ==
    /\ proc[p].pc = "reap"
    /\ Goto(p, "failed")
    /\ UNCHANGED tables

\* The process is killed: no deferred call runs.  What it leaves at Kaggle is
\* nobody's any more and is forgotten here.
Crash(p) ==
    /\ proc[p].pc \notin AtRest
    /\ proc' = [proc EXCEPT ![p] = [IdleProc EXCEPT !.pc = "crashed",
                                                   !.starts = proc[p].starts]]
    /\ UNCHANGED tables

Start(p) == \E e \in Engines[p] :
    /\ proc[p].pc \in AtRest /\ proc[p].starts < MaxStarts
    /\ proc' = [proc EXCEPT ![p] = [IdleProc EXCEPT
           !.pc = "reap", !.engine = e, !.files = {f \in File : ~indexed[f]}, !.starts = proc[p].starts + 1]]
    /\ UNCHANGED tables

ReapOrphans(p) ==
    /\ At(p, "reap")
    /\ chunk' = Without({i \in Rows : ~Current(chunk[i].text)})
    /\ Goto(p, "files")
    /\ UNCHANGED <<rev, indexed, nextId>>

ListDocumentsForVersion(v) == {g \in File : VersionOf[g] = v}
ListControlsForDocument(f) == ControlsOf[f] \X {rev[f]}

\* The next file: every document of its version is rebuilt, those of files that
\* are indexed already included.  Without the list the file is left out.
ListDocuments(p) == \E f \in proc[p].files, ok \in BOOLEAN :
    /\ At(p, "files")
    /\ proc' = [proc EXCEPT ![p].pc = "docs", ![p].files = @ \ {f}, ![p].cur = f,
           ![p].docs = IF ok THEN ListDocumentsForVersion(VersionOf[f]) ELSE {},
           ![p].fileErrored = ~ok, ![p].errs = IF ok THEN @ ELSE @ \cup {"build"}]
    /\ UNCHANGED tables

\* The controls of the next document, or their equivalents, cannot be listed, or
\* they are the ones to build chunks of.
ListControls(p) == \E g \in proc[p].docs, ok \in BOOLEAN :
    /\ At(p, "docs")
    /\ proc' = [proc EXCEPT ![p].pc = IF ok THEN "delete" ELSE @, ![p].docs = @ \ {g},
           ![p].todo = IF ok THEN ListControlsForDocument(g) ELSE {},
           ![p].fileErrored = @ \/ ~ok, ![p].errs = IF ok THEN @ ELSE @ \cup {"build"}]
    /\ UNCHANGED tables

DeleteChunksForControls(p) ==
    /\ At(p, "delete")
    /\ chunk' = Without({i \in Rows : chunk[i].text \in proc[p].todo})
    /\ Goto(p, "insert")
    /\ UNCHANGED <<rev, indexed, nextId>>

\* The controls in the order of the listing; uq_gold_chunk: one chunk per
\* control id.
InsertChunk(p) == LET t == CHOOSE t \in proc[p].todo : TRUE IN
    /\ At(p, "insert") /\ proc[p].todo # {}
    /\ \A i \in Rows : chunk[i].text # t
    /\ nextId <= MaxId
    /\ chunk' = [chunk EXCEPT ![nextId] = [text |-> t, vec |-> NULL, sparse |-> NULL]]
    /\ nextId' = nextId + 1
    /\ proc' = [proc EXCEPT ![p].todo = @ \ {t}]
    /\ UNCHANGED <<rev, indexed>>

DocBuilt(p) ==
    /\ At(p, "insert") /\ proc[p].todo = {}
    /\ Goto(p, "docs")
    /\ UNCHANGED tables

\* A statement of the rebuild fails (a duplicate control among the reasons): the
\* next document is tried all the same.
BuildFails(p) ==
    /\ \/ proc[p].pc = "delete"
       \/ proc[p].pc = "insert" /\ proc[p].todo # {}
    /\ proc' = [proc EXCEPT ![p].pc = "docs", ![p].todo = {}, ![p].fileErrored = TRUE,
                            ![p].errs = @ \cup {"build"}]
    /\ UNCHANGED tables

\* Mutant: a file is taken for built although one of its documents failed.
MutBuiltAnyway(p) ==
    /\ At(p, "docs") /\ proc[p].docs = {}
    /\ proc' = [proc EXCEPT ![p].pc = "files", ![p].cur = NULL, ![p].fileErrored = FALSE,
                            ![p].built = @ \cup {proc[p].cur}]
    /\ UNCHANGED tables

FileBuilt(p) ==
    /\ At(p, "docs") /\ proc[p].docs = {}
    /\ proc' = [proc EXCEPT ![p].pc = "files", ![p].cur = NULL, ![p].fileErrored = FALSE,
           ![p].built = IF proc[p].fileErrored THEN @ ELSE @ \cup {proc[p].cur}]
    /\ UNCHANGED tables

FilesDone(p) ==
    /\ At(p, "files") /\ proc[p].files = {}
    /\ Goto(p, "engine")
    /\ UNCHANGED tables

-----------------------------------------------------------------------------
(* Phase 2: dense vectors for every chunk without one.                     *)

MissingEmbedding == {i \in Rows : chunk[i].vec = NULL}
MissingSparse == {i \in Rows : chunk[i].sparse = NULL}

\* A listing has every one of the rows, in the order of the ids.
Listing(ids) ==
    {[k \in 1..Cardinality(ids) |-> [id |-> s[k], text |-> chunk[s[k]].text]] :
        s \in {s \in [1..Cardinality(ids) -> ids] :
                 /\ \A i \in ids : \E k \in DOMAIN s : s[k] = i
                 /\ \A j, k \in DOMAIN s : j < k => s[j] < s[k]}}

\* With engine "auto", few missing chunks are embedded locally.
ChooseEngine(p) ==
    /\ At(p, "engine")
    /\ proc' = [proc EXCEPT ![p].pc = "list",
           ![p].engine = IF @ = "local" \/ (@ = "auto" /\ Cardinality(MissingEmbedding) < MinBatch)
                         THEN "local" ELSE "kaggle"]
    /\ UNCHANGED tables

ListMissing(p) == \E rows \in Listing(MissingEmbedding) :
    /\ At(p, "list")
    /\ proc' = [proc EXCEPT
           ![p].job.missing = rows,
           ![p].pc = IF MissingEmbedding = {} THEN "train"
                     ELSE IF proc[p].engine = "local" THEN "local" ELSE "upload"]
    /\ UNCHANGED tables

\* The embedding phase is over; the sparse phase runs whatever happened.  What
\* the job left at Kaggle stays recorded.
EmbedOver(p, failed) ==
    proc' = [proc EXCEPT ![p].pc = "train",
                         ![p].errs = IF failed THEN @ \cup {"embed"} ELSE @,
                         ![p].job.missing = <<>>, ![p].job.seen = {}]

\* UpsertChunkEmbedding: the foreign key refuses a vector for a deleted chunk.
Upsert(k, p) ==
    LET row == proc[p].job.missing[k]
    IN  /\ row.id \in Rows
        /\ chunk' = [chunk EXCEPT ![row.id].vec = row.text]
        /\ UNCHANGED <<rev, indexed, nextId>>

EmbedLocal(p) ==
    LET k == Cardinality(proc[p].job.seen) + 1
    IN  /\ At(p, "local") /\ k <= Len(proc[p].job.missing)
        /\ Upsert(k, p)
        /\ proc' = [proc EXCEPT ![p].job.seen = @ \cup {k}]

LocalDone(p) ==
    /\ At(p, "local") /\ Cardinality(proc[p].job.seen) = Len(proc[p].job.missing)
    /\ EmbedOver(p, FALSE)
    /\ UNCHANGED tables

\* Listing, counting, the embedder's start-up, a batch or an upsert fails.
EmbedFails(p) ==
    /\ proc[p].pc \in {"engine", "list", "local"}
    /\ proc[p].pc = "local" => Cardinality(proc[p].job.seen) < Len(proc[p].job.missing)
    /\ EmbedOver(p, TRUE)
    /\ UNCHANGED tables

-----------------------------------------------------------------------------
(* EmbedStream: one Kaggle job.                                            *)

\* The input dataset is created; an error may come although it was.
UploadInput(p) == \E created, ok \in BOOLEAN :
    /\ At(p, "upload")
    /\ ok => created
    /\ IF ok
       THEN proc' = [proc EXCEPT ![p].pc = "ready", ![p].job = [@ EXCEPT
                                  !.uploaded = TRUE, !.dataset = TRUE]]
       ELSE proc' = [proc EXCEPT ![p].pc = "train", ![p].errs = @ \cup {"embed"},
                        ![p].job = [NoJob EXCEPT !.dataset = created]]
    /\ UNCHANGED tables

\* Each wait counts its own polls and failures.
NewWait(job) == [job EXCEPT !.polls = 0, !.fails = 0, !.unknown = FALSE]

\* Mutant: the clean-up is deferred after the wait for the dataset.
MutDeferLate(p, failed) ==
    IF At(p, "ready") THEN EmbedOver(p, failed)
    ELSE proc' = [proc EXCEPT ![p].pc = "rmkernel",
                              ![p].errs = IF failed THEN @ \cup {"embed"} ELSE @,
                              ![p].job = NewWait(@)]

\* Every later exit, good or bad, runs the deferred cleanup.
ToCleanup(p, failed) ==
    proc' = [proc EXCEPT ![p].pc = "rmkernel",
                         ![p].errs = IF failed THEN @ \cup {"embed"} ELSE @,
                         ![p].job = NewWait(@)]

JobFails(p) == ToCleanup(p, TRUE) /\ UNCHANGED tables

NextWait(p, l) == proc' = [proc EXCEPT ![p].pc = l, ![p].job = NewWait(@)]

\* Mutants: the deadline is compared before the poll is counted; sleeps are not
\* counted at all.
MutOnePollMore(p, unknown, fails) ==
    /\ proc[p].job.polls <= MaxPolls
    /\ proc' = [proc EXCEPT ![p].job.polls = @ + 1, ![p].job.unknown = unknown,
                            ![p].job.fails = fails]
MutNoDeadline(p, unknown, fails) ==
    proc' = [proc EXCEPT ![p].job.unknown = unknown, ![p].job.fails = fails]

\* sleep: one more poll before the deadline of the wait.
Sleep(p, unknown, fails) ==
    /\ proc[p].job.polls < MaxPolls
    /\ proc' = [proc EXCEPT ![p].job.polls = @ + 1, ![p].job.unknown = unknown,
                            ![p].job.fails = fails]

Timeout(p) ==
    /\ proc[p].pc \in {"ready", "kernel"}
    /\ JobFails(p)

\* waitDatasetReady: a dataset not yet visible is waited for, and once it has
\* been invisible for the grace period the push is left to find out.
PollDataset(p) ==
    /\ At(p, "ready")
    /\ \/ NextWait(p, "push")                                  \* READY
       \/ proc[p].job.unknown /\ NextWait(p, "push")           \* 403, 404 past the grace
       \/ Sleep(p, TRUE, 0)                                    \* 403, 404
       \/ Sleep(p, FALSE, 0)                                   \* still processing
       \/ ToCleanup(p, TRUE)                                   \* FAILED, DELETED, an error
    /\ UNCHANGED tables

\* pushKernel; a rejected push may have created the kernel.
PushKernel(p) == \E created, ok \in BOOLEAN :
    /\ At(p, "push")
    /\ ok => created
    /\ proc' = [proc EXCEPT ![p].pc = IF ok THEN "kernel" ELSE "rmkernel",
                            ![p].job.kernel = created,
                            ![p].errs = IF ok THEN @ ELSE @ \cup {"embed"}]
    /\ UNCHANGED tables

\* waitKernel: failed polls are counted and an answer resets the count.  Nothing
\* says the kernel ever ends.
PollKernel(p) ==
    LET fails == proc[p].job.fails
    IN  /\ At(p, "kernel")
        /\ \/ fails < MaxPollFailures /\ Sleep(p, FALSE, fails + 1)
           \/ fails = MaxPollFailures /\ ToCleanup(p, TRUE)
           \/ Sleep(p, FALSE, 0)                                \* queued, running
           \/ ToCleanup(p, TRUE)                                \* ERROR, CANCEL
           \/ NextWait(p, "output")                             \* COMPLETE
        /\ UNCHANGED tables

DownloadOutput(p) ==
    /\ At(p, "output")
    /\ Goto(p, "parse") \/ ToCleanup(p, TRUE)
    /\ UNCHANGED tables

\* Mutant: the n-th row of the output is taken for the n-th input.
MutByArrival(p, k) ==
    /\ At(p, "parse")
    /\ k \in 1..Len(proc[p].job.missing) \ proc[p].job.seen
    /\ LET nth == proc[p].job.missing[Cardinality(proc[p].job.seen) + 1]
       IN  /\ nth.id \in Rows
           /\ chunk' = [chunk EXCEPT ![nth.id].vec = proc[p].job.missing[k].text]
    /\ proc' = [proc EXCEPT ![p].job.seen = @ \cup {k}]
    /\ UNCHANGED <<rev, indexed, nextId>>

\* streamParseVectors: a row with a new index in range and the right dimension
\* is upserted as it arrives, whatever the order.
ParseVector(p, k) ==
    /\ At(p, "parse")
    /\ k \in 1..Len(proc[p].job.missing) \ proc[p].job.seen
    /\ Upsert(k, p)
    /\ proc' = [proc EXCEPT ![p].job.seen = @ \cup {k}]

\* A repeated or foreign index, a wrong dimension, an unreadable line, an upsert
\* that fails, or the end of the file before every index was seen.
ParseFails(p) ==
    /\ At(p, "parse")
    /\ JobFails(p)

ParseDone(p) ==
    /\ At(p, "parse") /\ proc[p].job.seen = 1..Len(proc[p].job.missing)
    /\ ToCleanup(p, FALSE)
    /\ UNCHANGED tables

\* cleanup: both deletes are tried, and a failure is only logged.
DeleteKernel(p) == \E ok \in BOOLEAN :
    /\ At(p, "rmkernel")
    /\ proc' = [proc EXCEPT ![p].pc = "rmdataset", ![p].job.tried = @ \cup {"kernel"},
                            ![p].job.kernel = @ /\ ~ok]
    /\ UNCHANGED tables

DeleteDataset(p) == \E ok \in BOOLEAN :
    /\ At(p, "rmdataset")
    /\ proc' = [proc EXCEPT ![p].pc = "train", ![p].job.tried = @ \cup {"dataset"},
                            ![p].job.dataset = @ /\ ~ok,
                            ![p].job.missing = <<>>, ![p].job.seen = {}]
    /\ UNCHANGED tables

-----------------------------------------------------------------------------
(* Phase 3: BM25, and the marks.                                           *)

\* IndexCorpus lists the chunks without a sparse vector and trains on them.
Train(p) == \E rows \in Listing(MissingSparse) :
    /\ At(p, "train")
    /\ proc' = [proc EXCEPT ![p].pc = "weigh", ![p].corpus = rows]
    /\ UNCHANGED tables

\* Mutant: a chunk is weighed with the encoder of the chunks after it.
MutTrainLate(p) == {proc[p].corpus[k].text : k \in 2..Len(proc[p].corpus)}

\* The texts the encoder knows while it writes.
Trained(p) == {proc[p].corpus[k].text : k \in 1..Len(proc[p].corpus)}

\* The chunks in order; UpdateChunkSparse of a row that is gone changes nothing
\* and is no error.
Weigh(p, k) ==
    LET row == proc[p].corpus[k]
    IN  /\ At(p, "weigh")
        /\ k = Cardinality(proc[p].job.seen) + 1
        /\ chunk' = IF row.id \in Rows
                    THEN [chunk EXCEPT ![row.id].sparse = Trained(p)] ELSE chunk
        /\ proc' = [proc EXCEPT ![p].job.seen = @ \cup {k}]
        /\ UNCHANGED <<rev, indexed, nextId>>

SparseOver(p, errs) ==
    /\ proc' = [proc EXCEPT ![p].pc = "mark", ![p].errs = @ \cup errs, ![p].corpus = <<>>,
                            ![p].job.seen = {}]
    /\ UNCHANGED tables

SparseDone(p) ==
    /\ At(p, "weigh") /\ Cardinality(proc[p].job.seen) = Len(proc[p].corpus)
    /\ SparseOver(p, {})

SparseFails(p) ==
    /\ \/ At(p, "train")
       \/ At(p, "weigh") /\ Cardinality(proc[p].job.seen) < Len(proc[p].corpus)
    /\ SparseOver(p, {"sparse"})

\* Mutant: only the last global phase decides.
MutLastPhaseOnly(p) == "sparse" \notin proc[p].errs

\* MarkIndexed runs only when both global phases succeeded.
GlobalPhaseOK(p) == proc[p].errs \cap {"embed", "sparse"} = {}

\* MarkIndexed, file by file; a failed mark leaves the file for the next run.
MarkIndexed(p) == \E f \in proc[p].built, ok \in BOOLEAN :
    /\ At(p, "mark") /\ GlobalPhaseOK(p)
    /\ indexed' = [indexed EXCEPT ![f] = @ \/ ok]
    /\ proc' = [proc EXCEPT ![p].built = @ \ {f},
                            ![p].errs = IF ok THEN @ ELSE @ \cup {"build"}]
    /\ UNCHANGED <<rev, chunk, nextId>>

Finish(p) ==
    /\ At(p, "mark")
    /\ proc[p].built = {} \/ ~GlobalPhaseOK(p)
    /\ proc' = [proc EXCEPT ![p] = [IdleProc EXCEPT
                   !.pc = IF proc[p].errs = {} THEN "done" ELSE "failed", !.job = proc[p].job,
                   !.starts = proc[p].starts]]
    /\ UNCHANGED tables

-----------------------------------------------------------------------------
Step(p) ==
    \/ ReapOrphans(p) \/ ListDocuments(p) \/ ListControls(p) \/ DeleteChunksForControls(p)
    \/ InsertChunk(p) \/ DocBuilt(p) \/ FileBuilt(p) \/ BuildFails(p) \/ FilesDone(p) \/ ChooseEngine(p) \/ ListMissing(p)
    \/ EmbedLocal(p) \/ LocalDone(p) \/ EmbedFails(p) \/ UploadInput(p) \/ PollDataset(p)
    \/ PushKernel(p) \/ PollKernel(p) \/ Timeout(p) \/ DownloadOutput(p)
    \/ (\E k \in Id : ParseVector(p, k)) \/ ParseFails(p) \/ ParseDone(p)
    \/ DeleteKernel(p) \/ DeleteDataset(p)
    \/ Train(p) \/ (\E k \in 1..Len(proc[p].corpus) : Weigh(p, k))
    \/ SparseDone(p) \/ SparseFails(p) \/ MarkIndexed(p) \/ Finish(p) \/ Stop(p)

Next ==
    \/ \E f \in File : Normalize(f)
    \/ \E p \in Proc : Start(p) \/ Crash(p) \/ Step(p)

Spec == Init /\ [][Next]_vars

\* What has a deadline: the two status waits, whose polls and sleeps run under a
\* context with a timeout, and the clean-up under its own.  The upload, the push,
\* the download and the statements of the database run under a context that
\* nothing cancels, and are not assumed to return.
Deadlined(p) ==
    PollDataset(p) \/ PollKernel(p) \/ Timeout(p) \/ DeleteKernel(p) \/ DeleteDataset(p)

FairSpec == Spec /\ \A p \in Proc : WF_vars(Deadlined(p))

-----------------------------------------------------------------------------
(* Properties.                                                             *)

\* Every stored vector was made of the text its chunk has: no arrival order of
\* the kernel's output, no rebuild or normalization between the listing and the
\* upsert, and no second process gives a chunk another chunk's vector.
VectorOfText == \A i \in Rows : chunk[i].vec \in {NULL, chunk[i].text}

\* Every sparse vector was weighed by an encoder trained on a corpus with the
\* chunk's own text, so none of its terms was skipped as unknown.
SparseKnowsText == \A i \in Rows : chunk[i].sparse # NULL => chunk[i].text \in chunk[i].sparse

\* A job whose upload succeeded has tried to delete both its dataset and its
\* kernel before the stage goes on, whichever exit it took: the wait for the
\* dataset, the push, the wait for the kernel, the download, the parse or the end.
\* A job whose upload failed never made a kernel.
ArtifactsTried ==
    \A p \in Proc : proc[p].pc \in {"train", "weigh", "mark", "done", "failed"} =>
        /\ proc[p].job.uploaded => proc[p].job.tried = {"dataset", "kernel"}
        /\ ~proc[p].job.uploaded => ~proc[p].job.kernel

\* "Delete the dataset + kernel on every exit": a dataset that was created was
\* tried to be deleted when the job is over.
CreatedIsTried ==
    \A p \in Proc : proc[p].pc \in {"train", "weigh", "mark", "done", "failed"} =>
        (proc[p].job.dataset => "dataset" \in proc[p].job.tried)

\* No wait for Kaggle and no clean-up lasts for ever, with datasets that never get
\* ready, kernels that never end, and polls that fail now and then.
Waiting == {"ready", "kernel", "rmkernel", "rmdataset"}
WaitsEnd == \A p \in Proc : proc[p].pc \in Waiting ~> proc[p].pc \notin Waiting

\* Every control of a file has a chunk with both vectors.
Complete(f) == \A c \in ControlsOf[f] : \E i \in Rows :
    chunk[i].text = <<c, rev[f]>> /\ chunk[i].vec # NULL /\ chunk[i].sparse # NULL

\* "This prevents marking a file as indexed when its vectors are still
\* incomplete": an indexed file is complete.
MarkedComplete == \A f \in File : indexed[f] => Complete(f)

\* A file that is not complete is waiting, or a file of the same version is: the
\* next run of the stage rebuilds it, whatever failed and wherever it was killed.
HolesWait == \A f \in File :
    Complete(f) \/ \E g \in ListDocumentsForVersion(VersionOf[f]) : ~indexed[g]
=============================================================================
