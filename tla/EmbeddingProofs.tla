-------------------------- MODULE EmbeddingProofs --------------------------
(* Proofs about Embedding, for any number of processes, files and controls, *)
(* any configuration and any answers of Kaggle.                            *)
EXTENDS Embedding, FiniteSetTheorems, TLAPS

\* An id is given once: no row of gold.chunk has one that is still to come.
IdsFresh == \A i \in Id : i >= nextId => chunk[i] = NULL

\* What a listing says is true of every row of it that is still there.
Truthful(rows) ==
    \A k \in 1..Len(rows) :
        /\ rows[k].id < nextId
        /\ chunk[rows[k].id] # NULL => chunk[rows[k].id].text = rows[k].text

\* What the job has left at Kaggle and tried to delete, by where the process is.
Before == {"reap", "files", "docs", "delete", "insert", "engine", "list", "local", "upload"}
After == {"train", "weigh", "mark", "done", "failed"}
JobState(r) ==
    /\ IsFiniteSet(r.job.seen)
    /\ r.pc \in Before => r.job.tried = {} /\ ~r.job.kernel /\ ~r.job.uploaded
    /\ r.pc \in {"ready", "push", "kernel", "output", "parse", "rmkernel"} =>
          r.job.tried = {} /\ r.job.uploaded
    /\ r.pc = "rmdataset" => r.job.tried = {"kernel"} /\ r.job.uploaded
    /\ r.pc \in After =>
          /\ r.job.uploaded => r.job.tried = {"dataset", "kernel"}
          /\ ~r.job.uploaded => ~r.job.kernel

\* A file is being rebuilt.
Taken == {"docs", "delete", "insert"}
HasFile(r) == r.pc \in Taken => r.cur \in File

IndexInv ==
    /\ TypeOK /\ IdsFresh /\ VectorOfText /\ SparseKnowsText
    /\ \A p \in Proc : /\ JobState(proc[p]) /\ HasFile(proc[p])
                       /\ Truthful(proc[p].job.missing) /\ Truthful(proc[p].corpus)

-----------------------------------------------------------------------------
(* One process, and no normalization beside it.                            *)

Alone == MaxRev = 0 /\ \A p, q \in Proc : p = q

\* A file that is listed, being rebuilt or built is one that is not marked; each
\* is one of these only.
Files(r) ==
    /\ \A f \in r.files \cup r.built : ~indexed[f]
    /\ r.files \cap r.built = {}
    /\ r.pc \in Taken => r.cur \notin r.files \cup r.built /\ ~indexed[r.cur]

\* The files of a version stand or fall together: the controls of a file have
\* chunks, or a file of the same version is left to a later run.
Sibs(f) == ListDocumentsForVersion(VersionOf[f])
HasChunk(t) == \E i \in Rows : chunk[i].text = t
HasChunks(f) == \A t \in ListControlsForDocument(f) : HasChunk(t)
Left(built, f) == \E g \in Sibs(f) : ~indexed[g] /\ g \notin built

\* While no document of the file failed, the controls of those that were listed
\* have chunks, or are still to be inserted.
Chunked(r) ==
    /\ \A f \in File : Left(r.built, f) \/ HasChunks(f)
    /\ r.pc \in Taken => r.docs \subseteq Sibs(r.cur)
    /\ r.pc = "delete" => \E g \in Sibs(r.cur) : r.todo = ListControlsForDocument(g)
    /\ r.pc \in Taken /\ ~r.fileErrored =>
          \A g \in Sibs(r.cur) \ r.docs : \A t \in ListControlsForDocument(g) :
              (r.pc # "docs" /\ t \in r.todo) \/ HasChunk(t)

\* The chunks without a vector are those the phase has still to do.
Pending(rows, seen, i) == \E k \in 1..Len(rows) : k \notin seen /\ rows[k].id = i
Dense(r) ==
    /\ r.pc \in (Before \ {"local"}) \cup {"train"} => r.job.seen = {}
    /\ r.pc \in {"local", "weigh"} => r.job.seen = 1..Cardinality(r.job.seen)
    /\ r.pc \in {"local", "upload", "ready", "push", "kernel", "output", "parse"} =>
          \A i \in MissingEmbedding : Pending(r.job.missing, r.job.seen, i)
    /\ r.pc \in {"rmkernel", "rmdataset", "train", "weigh", "mark"} =>
          "embed" \in r.errs \/ MissingEmbedding = {}
Weighed(r) ==
    /\ r.pc = "weigh" => \A i \in MissingSparse : Pending(r.corpus, r.job.seen, i)
    /\ r.pc = "mark" => "sparse" \in r.errs \/ MissingSparse = {}

MarkInv ==
    /\ IndexInv /\ HolesWait
    /\ \A p \in Proc : Files(proc[p]) /\ Chunked(proc[p]) /\ Dense(proc[p]) /\ Weighed(proc[p])

-----------------------------------------------------------------------------
\* What a step of a process does to its row: it stays one, and the listings in it
\* are those it had or fresh ones.
RowStep(p) ==
    /\ proc' = [proc EXCEPT ![p] = proc'[p]]
    /\ proc'[p] \in ProcRow /\ JobState(proc'[p]) /\ HasFile(proc'[p])
    /\ proc'[p].job.missing \in {proc[p].job.missing, <<>>} \cup Listing(MissingEmbedding)
    /\ proc'[p].corpus \in {proc[p].corpus, <<>>} \cup Listing(MissingSparse)

-----------------------------------------------------------------------------
(* Listings and rows.                                                      *)

\* The bounds are numbers.
LEMMA Bounds ==
    /\ MinBatch \in Nat /\ MaxPollFailures \in Nat /\ MaxPolls \in Nat
    /\ MaxId \in Nat /\ MaxRev \in Nat /\ MaxStarts \in Nat
BY EmbeddingAssumption

\* A set of ids is finite.
LEMMA FiniteIds ==
    ASSUME NEW ids \in SUBSET Id
    PROVE  IsFiniteSet(ids) /\ Cardinality(ids) \in Nat
<1>1. IsFiniteSet(Id)
  BY Bounds, FS_Interval DEF Id
<1>2. IsFiniteSet(ids)
  BY <1>1, FS_Subset
<1> QED
  BY <1>2, FS_CardinalityType

\* A listing has the ids and the texts of the chunks that are missing something.
LEMMA ListingRows ==
    ASSUME TypeOK, NEW ids \in SUBSET Rows, NEW rows \in Listing(ids)
    PROVE  /\ rows \in Seq(Listed) /\ Len(rows) = Cardinality(ids)
           /\ \A k \in 1..Len(rows) : rows[k].id \in ids /\ rows[k].text = chunk[rows[k].id].text
           /\ \A i \in ids : \E k \in 1..Len(rows) : rows[k].id = i
<1>1. PICK s \in [1..Cardinality(ids) -> ids] :
         /\ rows = [k \in 1..Cardinality(ids) |-> [id |-> s[k], text |-> chunk[s[k]].text]]
         /\ \A i \in ids : \E k \in DOMAIN s : s[k] = i
  BY DEF Listing
<1>2. ids \subseteq Id /\ Cardinality(ids) \in Nat
  BY FiniteIds DEF Rows
<1>3. ASSUME NEW i \in ids PROVE [id |-> i, text |-> chunk[i].text] \in Listed
  <2>1. chunk[i] \in ChunkRow
    BY <1>2, <1>3 DEF TypeOK, Rows
  <2> QED
    BY <1>2, <1>3, <2>1 DEF ChunkRow, Listed
<1>4. rows \in [1..Cardinality(ids) -> Listed]
  BY <1>1, <1>3
<1>5. rows \in Seq(Listed) /\ Len(rows) = Cardinality(ids)
  BY <1>2, <1>4
<1>6. \A k \in 1..Cardinality(ids) : rows[k].id = s[k] /\ rows[k].text = chunk[s[k]].text
  BY <1>1
<1> QED
  BY <1>1, <1>5, <1>6

\* Where the stage can be.
LEMMA Places ==
    /\ "idle" \in PC /\ "reap" \in PC /\ "files" \in PC /\ "docs" \in PC /\ "delete" \in PC /\ "insert" \in PC
    /\ "engine" \in PC /\ "list" \in PC /\ "local" \in PC /\ "upload" \in PC /\ "ready" \in PC
    /\ "push" \in PC /\ "kernel" \in PC /\ "output" \in PC /\ "parse" \in PC
    /\ "rmkernel" \in PC /\ "rmdataset" \in PC /\ "train" \in PC /\ "weigh" \in PC
    /\ "mark" \in PC /\ "failed" \in PC /\ "done" \in PC /\ "crashed" \in PC
BY DEF PC

\* The row of a process and the columns of its job.
LEMMA ProcTypes ==
    ASSUME TypeOK, NEW p \in Proc
    PROVE  proc \in [Proc -> ProcRow] /\ proc[p] \in ProcRow /\ proc[p].job \in JobRow
<1>1. proc \in [Proc -> ProcRow]
  BY DEF TypeOK
<1>2. proc[p] \in ProcRow
  BY <1>1
<1> QED
  BY <1>1, <1>2 DEF ProcRow

\* The first row of a process.
LEMMA IdleTypes ==
    /\ NoJob \in JobRow /\ IsFiniteSet(NoJob.seen)
    /\ NoJob.tried = {} /\ ~NoJob.kernel /\ ~NoJob.uploaded /\ NoJob.missing = <<>> /\ NoJob.seen = {}
    /\ IdleProc \in ProcRow /\ IdleProc.job = NoJob /\ IdleProc.corpus = <<>> /\ IdleProc.pc = "idle"
<1>1. NoJob \in JobRow
  BY Bounds DEF NoJob, JobRow
<1>2. IsFiniteSet(NoJob.seen)
  BY FS_EmptySet DEF NoJob
<1>3. IdleProc \in ProcRow
  BY <1>1, Bounds, Places DEF IdleProc, ProcRow
<1> QED
  BY <1>1, <1>2, <1>3 DEF NoJob, IdleProc

-----------------------------------------------------------------------------
(* The row of a process after each of its steps.                           *)

\* Steps that leave the job as it is.
LEMMA JobKept ==
    ASSUME TypeOK, NEW p \in Proc, JobState(proc[p]),
           proc' = [proc EXCEPT ![p] = proc'[p]], proc'[p] \in ProcRow, HasFile(proc'[p]),
           proc'[p].job = proc[p].job,
           proc'[p].corpus \in {proc[p].corpus, <<>>} \cup Listing(MissingSparse),
           \/ proc[p].pc \in Before /\ proc'[p].pc \in Before
           \/ proc[p].pc \in Before /\ proc'[p].pc = "failed"
           \/ proc[p].pc \in {"ready", "push", "kernel", "output", "parse"}
              /\ proc'[p].pc \in {"kernel", "output", "parse"}
           \/ /\ proc[p].pc \in After /\ proc'[p].pc \in {"train", "weigh", "mark"}
              /\ proc[p].pc # "failed" /\ proc[p].errs \subseteq proc'[p].errs
    PROVE  RowStep(p)
<1>1. JobState(proc'[p])
  BY DEF JobState, Before, After
<1> QED
  BY <1>1 DEF RowStep

\* The stage up to the embedding.
LEMMA BuildRows ==
    ASSUME TypeOK, NEW p \in Proc, JobState(proc[p]), HasFile(proc[p]),
           \/ ReapOrphans(p) \/ ListDocuments(p) \/ ListControls(p) \/ DeleteChunksForControls(p)
           \/ InsertChunk(p) \/ DocBuilt(p) \/ FileBuilt(p) \/ BuildFails(p) \/ FilesDone(p)
           \/ ChooseEngine(p) \/ Stop(p)
    PROVE  RowStep(p)
<1> DEFINE r == proc[p]
           r1 == proc'[p]
<1>0. proc \in [Proc -> ProcRow] /\ r \in ProcRow
  BY ProcTypes
<1> SUFFICES /\ proc' = [proc EXCEPT ![p] = r1] /\ r1 \in ProcRow /\ HasFile(r1)
             /\ r1.job = r.job /\ r1.corpus = r.corpus
             /\ r.pc \in Before /\ r1.pc \in Before \cup {"failed"}
  BY JobKept
<1>1. CASE ReapOrphans(p)
  <2>1. r1 = [r EXCEPT !.pc = "files"] /\ r.pc = "reap"
    BY <1>0, <1>1 DEF ReapOrphans, At, Goto
  <2> QED
    BY <1>0, <1>1, <2>1, Places DEF ReapOrphans, Goto, ProcRow, Before, HasFile, Taken
<1>2. CASE ListDocuments(p)
  <2>1. PICK f \in r.files, ok \in BOOLEAN :
           /\ proc' = [proc EXCEPT ![p].pc = "docs", ![p].files = @ \ {f}, ![p].cur = f,
                  ![p].docs = IF ok THEN ListDocumentsForVersion(VersionOf[f]) ELSE {},
                  ![p].fileErrored = ~ok, ![p].errs = IF ok THEN @ ELSE @ \cup {"build"}]
           /\ r.pc = "files"
    BY <1>2 DEF ListDocuments, At
  <2> DEFINE F == r.files \ {f}
             D == IF ok THEN ListDocumentsForVersion(VersionOf[f]) ELSE {}
             E == IF ok THEN r.errs ELSE r.errs \cup {"build"}
             e == ~ok
  <2>2. /\ f \in File /\ F \in SUBSET File /\ D \in SUBSET File /\ e \in BOOLEAN
        /\ E \in SUBSET {"build", "embed", "sparse"}
    BY <1>0 DEF ProcRow, ListDocumentsForVersion
  <2>3. r1 = [r EXCEPT !.pc = "docs", !.files = F, !.cur = f, !.docs = D, !.fileErrored = e,
                       !.errs = E]
    BY <1>0, <2>1 DEF ProcRow
  <2>4. proc' = [proc EXCEPT ![p] = r1]
    BY <1>0, <2>1, ZenonT(60)
  <2> HIDE DEF F, D, E, e, r1
  <2>5. r1 \in ProcRow /\ r1.pc = "docs" /\ r1.cur = f /\ r1.job = r.job /\ r1.corpus = r.corpus
    BY <1>0, <2>2, <2>3, Places DEF ProcRow
  <2> QED
    BY <2>1, <2>2, <2>4, <2>5 DEF Before, HasFile, Taken, r1
<1>10. CASE ListControls(p)
  <2>1. PICK g \in r.docs, ok \in BOOLEAN :
           /\ proc' = [proc EXCEPT ![p].pc = IF ok THEN "delete" ELSE @, ![p].docs = @ \ {g},
                  ![p].todo = IF ok THEN ListControlsForDocument(g) ELSE {},
                  ![p].fileErrored = @ \/ ~ok, ![p].errs = IF ok THEN @ ELSE @ \cup {"build"}]
           /\ r.pc = "docs"
    BY <1>10 DEF ListControls, At
  <2> DEFINE l == IF ok THEN "delete" ELSE r.pc
             D == r.docs \ {g}
             T == IF ok THEN ListControlsForDocument(g) ELSE {}
             E == IF ok THEN r.errs ELSE r.errs \cup {"build"}
             e == r.fileErrored \/ ~ok
  <2>0. g \in File /\ ListControlsForDocument(g) \subseteq Text
    BY <1>0, <2>1, Bounds DEF ListControlsForDocument, ProcRow, Text, Control, TypeOK
  <2>2. /\ l \in {"docs", "delete"} /\ l \in PC /\ D \in SUBSET File /\ T \in SUBSET Text
        /\ e \in BOOLEAN /\ E \in SUBSET {"build", "embed", "sparse"}
    BY <1>0, <2>0, <2>1, Places DEF ProcRow
  <2>3. r1 = [r EXCEPT !.pc = l, !.docs = D, !.todo = T, !.fileErrored = e, !.errs = E]
    BY <1>0, <2>1 DEF ProcRow
  <2>4. proc' = [proc EXCEPT ![p] = r1]
    BY <1>0, <2>1, ZenonT(60)
  <2> HIDE DEF l, D, T, E, e, r1
  <2>5. r1 \in ProcRow /\ r1.pc = l /\ r1.cur = r.cur /\ r1.job = r.job /\ r1.corpus = r.corpus
    BY <1>0, <2>2, <2>3 DEF ProcRow
  <2> QED
    BY <2>1, <2>2, <2>4, <2>5 DEF Before, HasFile, Taken, r1
<1>3. CASE DeleteChunksForControls(p)
  <2>1. r1 = [r EXCEPT !.pc = "insert"] /\ r.pc = "delete"
    BY <1>0, <1>3 DEF DeleteChunksForControls, At, Goto
  <2> QED
    BY <1>0, <1>3, <2>1, Places DEF DeleteChunksForControls, Goto, ProcRow, Before, HasFile, Taken
<1>4. CASE InsertChunk(p)
  <2> DEFINE t == CHOOSE t \in r.todo : TRUE
  <2>1. r1 = [r EXCEPT !.todo = @ \ {t}] /\ r.pc = "insert"
    BY <1>0, <1>4 DEF InsertChunk, At
  <2> QED
    BY <1>0, <1>4, <2>1, Places DEF InsertChunk, ProcRow, Before, HasFile, Taken
<1>5. CASE FileBuilt(p)
  <2> DEFINE B == IF r.fileErrored THEN r.built ELSE r.built \cup {r.cur}
  <2>1. r.pc = "docs" /\ r.cur \in File
    BY <1>5 DEF FileBuilt, At, HasFile, Taken
  <2>2. r1 = [r EXCEPT !.pc = "files", !.cur = NULL, !.fileErrored = FALSE, !.built = B]
    BY <1>0, <1>5 DEF FileBuilt, ProcRow
  <2>3. B \in SUBSET File /\ proc' = [proc EXCEPT ![p] = r1]
    BY <1>0, <1>5, <2>1 DEF FileBuilt, ProcRow
  <2> HIDE DEF B, r1
  <2>4. r1 \in ProcRow /\ r1.pc = "files" /\ r1.job = r.job /\ r1.corpus = r.corpus
    BY <1>0, <2>2, <2>3, Places DEF ProcRow
  <2> QED
    BY <2>1, <2>3, <2>4 DEF Before, HasFile, Taken, r1
<1>6. CASE BuildFails(p)
  <2>1. /\ r1 = [r EXCEPT !.pc = "docs", !.todo = {}, !.fileErrored = TRUE, !.errs = @ \cup {"build"}]
        /\ r.pc \in {"delete", "insert"}
    BY <1>0, <1>6 DEF BuildFails
  <2> QED
    BY <1>0, <1>6, <2>1, Places DEF BuildFails, ProcRow, Before, HasFile, Taken
<1>11. CASE DocBuilt(p)
  <2>1. r1 = [r EXCEPT !.pc = "docs"] /\ r.pc = "insert"
    BY <1>0, <1>11 DEF DocBuilt, At, Goto
  <2> QED
    BY <1>0, <1>11, <2>1, Places DEF DocBuilt, Goto, ProcRow, Before, HasFile, Taken
<1>7. CASE FilesDone(p)
  <2>1. r1 = [r EXCEPT !.pc = "engine"] /\ r.pc = "files"
    BY <1>0, <1>7 DEF FilesDone, At, Goto
  <2> QED
    BY <1>0, <1>7, <2>1, Places DEF FilesDone, Goto, ProcRow, Before, HasFile, Taken
<1>8. CASE ChooseEngine(p)
  <2>1. PICK e \in {"local", "kaggle"} :
           r1 = [r EXCEPT !.pc = "list", !.engine = e] /\ r.pc = "engine"
    BY <1>0, <1>8 DEF ChooseEngine, At
  <2> QED
    BY <1>0, <1>8, <2>1, Places, ZenonT(60) DEF ChooseEngine, ProcRow, Before, HasFile, Taken
<1>9. CASE Stop(p)
  <2>1. r1 = [r EXCEPT !.pc = "failed"] /\ r.pc = "reap"
    BY <1>0, <1>9 DEF Stop, Goto
  <2> QED
    BY <1>0, <1>9, <2>1, Places DEF Stop, Goto, ProcRow, Before, HasFile, Taken
<1> QED
  BY <1>1, <1>2, <1>3, <1>4, <1>5, <1>6, <1>7, <1>8, <1>9, <1>10, <1>11

\* Steps that replace the job.
LEMMA JobReplaced ==
    ASSUME TypeOK, NEW p \in Proc, NEW r1 \in ProcRow,
           proc' = [proc EXCEPT ![p] = proc'[p]], proc'[p] = r1,
           JobState(r1), r1.pc \notin {"docs", "delete", "insert"},
           r1.job.missing \in {proc[p].job.missing, <<>>} \cup Listing(MissingEmbedding),
           r1.corpus \in {proc[p].corpus, <<>>} \cup Listing(MissingSparse)
    PROVE  RowStep(p)
BY DEF RowStep, HasFile, Taken

\* The listing of the missing vectors and the embedding in this process.
LEMMA LocalRows ==
    ASSUME TypeOK, NEW p \in Proc, JobState(proc[p]),
           ListMissing(p) \/ EmbedLocal(p) \/ LocalDone(p) \/ EmbedFails(p)
    PROVE  RowStep(p)
<1> DEFINE r == proc[p]
           r1 == proc'[p]
<1>0. proc \in [Proc -> ProcRow] /\ r \in ProcRow /\ r.job \in JobRow
  BY ProcTypes
<1>00. <<>> \in Seq(Listed)
  OBVIOUS
<1>1. CASE ListMissing(p)
  <2> DEFINE pc == IF MissingEmbedding = {} THEN "train"
                   ELSE IF r.engine = "local" THEN "local" ELSE "upload"
  <2>0. PICK rows \in Listing(MissingEmbedding) :
           /\ proc' = [proc EXCEPT ![p].job.missing = rows, ![p].pc = pc]
           /\ r.pc = "list"
    BY <1>1 DEF ListMissing, At
  <2>1. /\ r1 = [r EXCEPT !.pc = pc, !.job = [@ EXCEPT !.missing = rows]]
        /\ rows \in Listing(MissingEmbedding) /\ r.pc = "list" /\ pc \in {"train", "local", "upload"}
    BY <1>0, <2>0 DEF ProcRow, JobRow
  <2> HIDE DEF pc
  <2> DEFINE j == [r.job EXCEPT !.missing = rows]
  <2>2. rows \in Seq(Listed)
    BY <2>1, ListingRows DEF MissingEmbedding, Rows
  <2>3. /\ j \in JobRow /\ j.missing = rows /\ j.seen = r.job.seen /\ j.tried = r.job.tried
        /\ j.kernel = r.job.kernel /\ j.uploaded = r.job.uploaded
    BY <1>0, <2>2 DEF JobRow
  <2>4. r1 = [r EXCEPT !.pc = pc, !.job = j]
    BY <2>1
  <2> HIDE DEF j
  <2>5. r1 \in ProcRow /\ r1.pc = pc /\ r1.job = j /\ r1.corpus = r.corpus /\ r1.errs = r.errs
    <3>1. pc \in PC
      BY <2>1, Places
    <3> QED
      BY <1>0, <2>1, <2>3, <2>4, <3>1, ZenonT(60) DEF ProcRow
  <2>6. JobState(r1)
    BY <2>1, <2>3, <2>5 DEF JobState, Before, After
  <2>7. proc' = [proc EXCEPT ![p] = r1]
    BY <1>0, <1>1 DEF ListMissing
  <2> QED
    BY <2>1, <2>3, <2>5, <2>6, <2>7, JobReplaced
<1>2. CASE EmbedLocal(p)
  <2> DEFINE n == Cardinality(r.job.seen) + 1
             j == [r.job EXCEPT !.seen = @ \cup {n}]
  <2>1. r1 = [r EXCEPT !.job = j] /\ r.pc = "local"
    BY <1>0, <1>2 DEF EmbedLocal, At, ProcRow, JobRow
  <2>2. n \in Nat /\ IsFiniteSet(r.job.seen \cup {n})
    BY FS_CardinalityType, FS_AddElement DEF JobState
  <2> HIDE DEF n
  <2>3. /\ j \in JobRow /\ j.missing = r.job.missing /\ j.seen = r.job.seen \cup {n}
        /\ j.tried = r.job.tried /\ j.kernel = r.job.kernel /\ j.uploaded = r.job.uploaded
    BY <1>0, <2>2 DEF JobRow
  <2> HIDE DEF j
  <2>5. r1 \in ProcRow /\ r1.pc = "local" /\ r1.job = j /\ r1.corpus = r.corpus /\ r1.errs = r.errs
    BY <1>0, <2>1, <2>3, Places DEF ProcRow
  <2>6. JobState(r1)
    BY <2>1, <2>2, <2>3, <2>5 DEF JobState, Before, After
  <2>7. proc' = [proc EXCEPT ![p] = r1]
    BY <1>0, <1>2 DEF EmbedLocal
  <2> QED
    BY <2>3, <2>5, <2>6, <2>7, JobReplaced
<1>3. CASE LocalDone(p) \/ EmbedFails(p)
  <2>0. PICK failed \in BOOLEAN : EmbedOver(p, failed)
    BY <1>3 DEF LocalDone, EmbedFails
  <2> DEFINE E == IF failed THEN r.errs \cup {"embed"} ELSE r.errs
  <2>1. /\ r1 = [r EXCEPT !.pc = "train", !.errs = E,
                          !.job = [@ EXCEPT !.missing = <<>>, !.seen = {}]]
        /\ E \in SUBSET {"build", "embed", "sparse"}
    BY <1>0, <2>0 DEF EmbedOver, ProcRow, JobRow
  <2> HIDE DEF E
  <2> DEFINE j == [r.job EXCEPT !.missing = <<>>, !.seen = {}]
  <2>2. r.pc \in Before
    BY <1>3 DEF LocalDone, EmbedFails, At, Before
  <2>3. /\ j \in JobRow /\ j.missing = <<>> /\ j.seen = {} /\ j.tried = r.job.tried
        /\ j.kernel = r.job.kernel /\ j.uploaded = r.job.uploaded
    BY <1>0, <1>00 DEF JobRow
  <2>4. r1 = [r EXCEPT !.pc = "train", !.errs = E, !.job = j]
    BY <2>1
  <2> HIDE DEF j
  <2>5. r1 \in ProcRow /\ r1.pc = "train" /\ r1.job = j /\ r1.corpus = r.corpus
    BY <1>0, <2>1, <2>3, <2>4, Places DEF ProcRow
  <2>6. JobState(r1)
    BY <2>2, <2>3, <2>5, FS_EmptySet DEF JobState, Before, After
  <2>7. proc' = [proc EXCEPT ![p] = r1]
    BY <1>0, <1>3 DEF LocalDone, EmbedFails, EmbedOver
  <2> QED
    BY <2>3, <2>5, <2>6, <2>7, JobReplaced
<1> QED
  BY <1>1, <1>2, <1>3

\* A wait that starts anew keeps the rest of the job.
LEMMA WaitTypes ==
    ASSUME NEW j \in JobRow
    PROVE  LET w == NewWait(j)
           IN  /\ w \in JobRow /\ w.missing = j.missing /\ w.seen = j.seen /\ w.tried = j.tried
               /\ w.kernel = j.kernel /\ w.uploaded = j.uploaded
<1>1. 0 \in 0..MaxPolls /\ 0 \in 0..MaxPollFailures
  BY Bounds
<1> QED
  BY <1>1 DEF NewWait, JobRow

\* cleanup is entered from every exit after the upload.
LEMMA CleanupRow ==
    ASSUME TypeOK, NEW p \in Proc, JobState(proc[p]), NEW failed \in BOOLEAN, ToCleanup(p, failed),
           proc[p].pc \in {"ready", "kernel", "output", "parse"}
    PROVE  RowStep(p)
<1> DEFINE r == proc[p]
           r1 == proc'[p]
           j == NewWait(r.job)
           E == IF failed THEN r.errs \cup {"embed"} ELSE r.errs
<1>0. proc \in [Proc -> ProcRow] /\ r \in ProcRow /\ r.job \in JobRow
  BY ProcTypes
<1>1. r1 = [r EXCEPT !.pc = "rmkernel", !.errs = E, !.job = j] /\ E \in SUBSET {"build", "embed", "sparse"}
  BY <1>0 DEF ToCleanup, ProcRow
<1>2. /\ j \in JobRow /\ j.missing = r.job.missing /\ j.seen = r.job.seen /\ j.tried = r.job.tried
      /\ j.uploaded = r.job.uploaded
  BY <1>0, WaitTypes
<1> HIDE DEF j, E
<1>3. r1 \in ProcRow /\ r1.pc = "rmkernel" /\ r1.job = j /\ r1.corpus = r.corpus
  BY <1>0, <1>1, <1>2, Places, ZenonT(60) DEF ProcRow
<1>4. JobState(r1)
  BY <1>2, <1>3 DEF JobState, Before, After
<1>5. proc' = [proc EXCEPT ![p] = r1]
  BY <1>0 DEF ToCleanup
<1> QED
  BY <1>2, <1>3, <1>4, <1>5, JobReplaced

\* The next wait, or the push between the two.
LEMMA NextWaitRow ==
    ASSUME TypeOK, NEW p \in Proc, JobState(proc[p]), NEW l, NextWait(p, l),
           (proc[p].pc = "ready" /\ l = "push") \/ (proc[p].pc = "kernel" /\ l = "output")
    PROVE  RowStep(p)
<1> DEFINE r == proc[p]
           r1 == proc'[p]
           j == NewWait(r.job)
<1>0. proc \in [Proc -> ProcRow] /\ r \in ProcRow /\ r.job \in JobRow
  BY ProcTypes
<1>1. r1 = [r EXCEPT !.pc = l, !.job = j]
  BY <1>0 DEF NextWait, ProcRow
<1>2. /\ j \in JobRow /\ j.missing = r.job.missing /\ j.seen = r.job.seen /\ j.tried = r.job.tried
      /\ j.kernel = r.job.kernel /\ j.uploaded = r.job.uploaded
  BY <1>0, WaitTypes
<1> HIDE DEF j
<1>3. r1 \in ProcRow /\ r1.pc = l /\ r1.job = j /\ r1.corpus = r.corpus
  <2>1. l \in PC
    BY Places
  <2> QED
    BY <1>0, <1>1, <1>2, <2>1, ZenonT(60) DEF ProcRow
<1>4. JobState(r1)
  BY <1>2, <1>3 DEF JobState, Before, After
<1>5. proc' = [proc EXCEPT ![p] = r1]
  BY <1>0 DEF NextWait
<1> QED
  BY <1>2, <1>3, <1>4, <1>5, JobReplaced

\* One more poll of the same wait.
LEMMA SleepRow ==
    ASSUME TypeOK, NEW p \in Proc, JobState(proc[p]), proc[p].pc \in {"ready", "kernel"},
           NEW unknown \in BOOLEAN, NEW fails \in 0..MaxPollFailures, Sleep(p, unknown, fails)
    PROVE  RowStep(p)
<1> DEFINE r == proc[p]
           r1 == proc'[p]
           n == r.job.polls + 1
           j == [r.job EXCEPT !.polls = n, !.unknown = unknown, !.fails = fails]
<1>0. proc \in [Proc -> ProcRow] /\ r \in ProcRow /\ r.job \in JobRow
  BY ProcTypes
<1>11. r.job.polls < MaxPolls /\ r.job.polls \in 0..MaxPolls
  BY <1>0 DEF Sleep, JobRow
<1>12. n \in 0..MaxPolls
  BY <1>11, Bounds
<1>13. r1 = [r EXCEPT !.job = [[[@ EXCEPT !.polls = n] EXCEPT !.unknown = unknown] EXCEPT !.fails = fails]]
  BY <1>0 DEF Sleep, ProcRow
<1>1. r1 = [r EXCEPT !.job = j] /\ n \in 0..MaxPolls
  BY <1>0, <1>12, <1>13 DEF JobRow
<1> HIDE DEF n
<1>2. /\ j \in JobRow /\ j.missing = r.job.missing /\ j.seen = r.job.seen /\ j.tried = r.job.tried
      /\ j.kernel = r.job.kernel /\ j.uploaded = r.job.uploaded
  BY <1>0, <1>1 DEF JobRow
<1> HIDE DEF j
<1>3. r1 \in ProcRow /\ r1.pc = r.pc /\ r1.job = j /\ r1.corpus = r.corpus
  BY <1>0, <1>1, <1>2, Places DEF ProcRow
<1>4. JobState(r1)
  BY <1>2, <1>3 DEF JobState, Before, After
<1>5. proc' = [proc EXCEPT ![p] = r1]
  BY <1>0 DEF Sleep
<1> QED
  BY <1>2, <1>3, <1>4, <1>5, JobReplaced

\* The Kaggle job, up to the clean-up.
LEMMA KaggleRows ==
    ASSUME TypeOK, NEW p \in Proc, JobState(proc[p]),
           \/ UploadInput(p) \/ PollDataset(p) \/ PushKernel(p) \/ PollKernel(p) \/ Timeout(p)
           \/ DownloadOutput(p) \/ ParseFails(p) \/ ParseDone(p)
    PROVE  RowStep(p)
<1> DEFINE r == proc[p]
           r1 == proc'[p]
<1>0. proc \in [Proc -> ProcRow] /\ r \in ProcRow /\ r.job \in JobRow
  BY ProcTypes
<1>1. CASE UploadInput(p)
  <2>1. PICK created \in BOOLEAN, ok \in BOOLEAN :
           /\ r.pc = "upload"
           /\ IF ok
              THEN proc' = [proc EXCEPT ![p].pc = "ready", ![p].job = [@ EXCEPT
                                        !.uploaded = TRUE, !.dataset = TRUE]]
              ELSE proc' = [proc EXCEPT ![p].pc = "train", ![p].errs = @ \cup {"embed"},
                               ![p].job = [NoJob EXCEPT !.dataset = created]]
    BY <1>1 DEF UploadInput, At
  <2>2. CASE ok
    <3> DEFINE j == [r.job EXCEPT !.uploaded = TRUE, !.dataset = TRUE]
    <3>1. r1 = [r EXCEPT !.pc = "ready", !.job = j] /\ proc' = [proc EXCEPT ![p] = r1]
      BY <1>0, <2>1, <2>2 DEF ProcRow, JobRow
    <3>2. /\ j \in JobRow /\ j.missing = r.job.missing /\ j.seen = r.job.seen
          /\ j.tried = r.job.tried /\ j.uploaded = TRUE
      BY <1>0 DEF JobRow
    <3> HIDE DEF j, r1
    <3>3. r1 \in ProcRow /\ r1.pc = "ready" /\ r1.job = j /\ r1.corpus = r.corpus
      BY <1>0, <3>1, <3>2, Places DEF ProcRow
    <3>4. JobState(r1)
      BY <2>1, <3>2, <3>3 DEF JobState, Before, After
    <3> QED
      BY <3>1, <3>2, <3>3, <3>4, JobReplaced DEF r1
  <2>3. CASE ~ok
    <3> DEFINE j == [NoJob EXCEPT !.dataset = created]
               E == r.errs \cup {"embed"}
    <3>1. r1 = [r EXCEPT !.pc = "train", !.errs = E, !.job = j] /\ proc' = [proc EXCEPT ![p] = r1]
      BY <1>0, <2>1, <2>3 DEF ProcRow
    <3>2. /\ j \in JobRow /\ j.missing = <<>> /\ j.seen = {} /\ j.tried = {} /\ ~j.kernel /\ ~j.uploaded
          /\ E \in SUBSET {"build", "embed", "sparse"} /\ "embed" \in E
      <4>1. NoJob \in JobRow /\ NoJob.missing = <<>> /\ NoJob.seen = {} /\ NoJob.tried = {} /\ ~NoJob.kernel
            /\ ~NoJob.uploaded
        BY IdleTypes
      <4> QED
        BY <1>0, <4>1 DEF JobRow, ProcRow
    <3> HIDE DEF j, E
    <3>3. r1 \in ProcRow /\ r1.pc = "train" /\ r1.job = j /\ r1.corpus = r.corpus /\ r1.errs = E
      BY <1>0, <3>1, <3>2, Places DEF ProcRow
    <3>4. JobState(r1)
      BY <3>2, <3>3, FS_EmptySet DEF JobState, Before, After
    <3> QED
      BY <3>1, <3>2, <3>3, <3>4, JobReplaced
  <2> QED
    BY <2>2, <2>3
<1>2. CASE PollDataset(p)
  <2>1. r.pc = "ready" /\ 0 \in 0..MaxPollFailures
    BY <1>2, Bounds DEF PollDataset, At
  <2> QED
    BY <1>2, <2>1, NextWaitRow, SleepRow, CleanupRow DEF PollDataset
<1>3. CASE PushKernel(p)
  <2>1. PICK created \in BOOLEAN, ok \in BOOLEAN :
           /\ r.pc = "push"
           /\ proc' = [proc EXCEPT ![p].pc = IF ok THEN "kernel" ELSE "rmkernel",
                                   ![p].job.kernel = created,
                                   ![p].errs = IF ok THEN @ ELSE @ \cup {"embed"}]
    BY <1>3 DEF PushKernel, At
  <2> DEFINE j == [r.job EXCEPT !.kernel = created]
             E == IF ok THEN r.errs ELSE r.errs \cup {"embed"}
             l == IF ok THEN "kernel" ELSE "rmkernel"
  <2>2. r1 = [r EXCEPT !.pc = l, !.errs = E, !.job = j]
    BY <1>0, <2>1 DEF ProcRow, JobRow
  <2>3. proc' = [proc EXCEPT ![p] = r1]
    BY <1>0, <2>1
  <2>4. /\ j \in JobRow /\ j.missing = r.job.missing /\ j.seen = r.job.seen /\ j.tried = r.job.tried
        /\ j.uploaded = r.job.uploaded
        /\ E \in SUBSET {"build", "embed", "sparse"} /\ l \in {"kernel", "rmkernel"}
    BY <1>0 DEF JobRow, ProcRow
  <2> HIDE DEF j, E, l
  <2>5. r1 \in ProcRow /\ r1.pc = l /\ r1.job = j /\ r1.corpus = r.corpus
    <3>1. l \in PC
      BY <2>4, Places
    <3> QED
      BY <1>0, <2>2, <2>4, <3>1, ZenonT(60) DEF ProcRow
  <2>6. JobState(r1)
    BY <2>1, <2>4, <2>5 DEF JobState, Before, After
  <2> QED
    BY <2>3, <2>4, <2>5, <2>6, JobReplaced
<1>4. CASE PollKernel(p)
  <2>1. r.pc = "kernel" /\ r.job.fails \in 0..MaxPollFailures /\ 0 \in 0..MaxPollFailures
    BY <1>0, <1>4, Bounds DEF PollKernel, At, JobRow
  <2>2. r.job.fails < MaxPollFailures => r.job.fails + 1 \in 0..MaxPollFailures
    BY <2>1, Bounds
  <2> QED
    BY <1>4, <2>1, <2>2, NextWaitRow, SleepRow, CleanupRow DEF PollKernel
<1>5. CASE Timeout(p) \/ ParseFails(p) \/ ParseDone(p)
  BY <1>5, CleanupRow DEF Timeout, ParseFails, ParseDone, JobFails, At
<1>6. CASE DownloadOutput(p)
  <2>1. r.pc = "output"
    BY <1>6 DEF DownloadOutput, At
  <2>2. CASE Goto(p, "parse")
    <3>1. r1 = [r EXCEPT !.pc = "parse"] /\ proc' = [proc EXCEPT ![p] = r1]
      BY <1>0, <2>2 DEF Goto
    <3>2. r1 \in ProcRow /\ r1.pc = "parse" /\ r1.job = r.job /\ r1.corpus = r.corpus
      BY <1>0, <3>1, Places DEF ProcRow
    <3> QED
      BY <2>1, <3>1, <3>2, JobKept DEF HasFile, Taken
  <2> QED
    BY <1>6, <2>1, <2>2, CleanupRow DEF DownloadOutput
<1> QED
  BY <1>1, <1>2, <1>3, <1>4, <1>5, <1>6

\* The vectors of the output, and the clean-up.
LEMMA OutputRows ==
    ASSUME TypeOK, NEW p \in Proc, JobState(proc[p]),
           (\E k \in Id : ParseVector(p, k)) \/ DeleteKernel(p) \/ DeleteDataset(p)
    PROVE  RowStep(p)
<1> DEFINE r == proc[p]
           r1 == proc'[p]
<1>0. proc \in [Proc -> ProcRow] /\ r \in ProcRow /\ r.job \in JobRow
  BY ProcTypes
<1>1. ASSUME NEW k \in Id, ParseVector(p, k) PROVE RowStep(p)
  <2> DEFINE j == [r.job EXCEPT !.seen = @ \cup {k}]
  <2>1. r1 = [r EXCEPT !.job = j] /\ r.pc = "parse" /\ k \in Nat
    BY <1>0, <1>1 DEF ParseVector, At, ProcRow, JobRow, Id
  <2>2. IsFiniteSet(r.job.seen \cup {k})
    BY FS_AddElement DEF JobState
  <2>3. /\ j \in JobRow /\ j.missing = r.job.missing /\ j.seen = r.job.seen \cup {k}
        /\ j.tried = r.job.tried /\ j.kernel = r.job.kernel /\ j.uploaded = r.job.uploaded
    BY <1>0, <2>1 DEF JobRow
  <2> HIDE DEF j
  <2>4. r1 \in ProcRow /\ r1.pc = "parse" /\ r1.job = j /\ r1.corpus = r.corpus
    BY <1>0, <2>1, <2>3, Places DEF ProcRow
  <2>5. JobState(r1)
    BY <2>1, <2>2, <2>3, <2>4 DEF JobState, Before, After
  <2>6. proc' = [proc EXCEPT ![p] = r1]
    BY <1>0, <1>1 DEF ParseVector
  <2> QED
    BY <2>3, <2>4, <2>5, <2>6, JobReplaced
<1>2. CASE DeleteKernel(p)
  <2>1. PICK ok \in BOOLEAN :
           /\ r.pc = "rmkernel"
           /\ proc' = [proc EXCEPT ![p].pc = "rmdataset", ![p].job.tried = @ \cup {"kernel"},
                                   ![p].job.kernel = @ /\ ~ok]
    BY <1>2 DEF DeleteKernel, At
  <2> DEFINE K == r.job.kernel /\ ~ok
             T == r.job.tried \cup {"kernel"}
             j == [r.job EXCEPT !.tried = T, !.kernel = K]
  <2>2. r1 = [r EXCEPT !.pc = "rmdataset", !.job = j]
    BY <1>0, <2>1 DEF ProcRow, JobRow
  <2>3. proc' = [proc EXCEPT ![p] = r1]
    BY <1>0, <2>1
  <2>4. K \in BOOLEAN /\ T \in SUBSET {"dataset", "kernel"} /\ T = {"kernel"}
    BY <1>0, <2>1 DEF JobRow, JobState
  <2> HIDE DEF K, T
  <2>5. /\ j \in JobRow /\ j.missing = r.job.missing /\ j.seen = r.job.seen /\ j.tried = T
        /\ j.uploaded = r.job.uploaded
    BY <1>0, <2>4 DEF JobRow
  <2> HIDE DEF j
  <2>6. r1 \in ProcRow /\ r1.pc = "rmdataset" /\ r1.job = j /\ r1.corpus = r.corpus
    BY <1>0, <2>2, <2>5, Places DEF ProcRow
  <2>7. JobState(r1)
    BY <2>1, <2>4, <2>5, <2>6 DEF JobState, Before, After
  <2> QED
    BY <2>3, <2>5, <2>6, <2>7, JobReplaced
<1>3. CASE DeleteDataset(p)
  <2>1. PICK ok \in BOOLEAN :
           /\ r.pc = "rmdataset"
           /\ proc' = [proc EXCEPT ![p].pc = "train", ![p].job.tried = @ \cup {"dataset"},
                                   ![p].job.dataset = @ /\ ~ok,
                                   ![p].job.missing = <<>>, ![p].job.seen = {}]
    BY <1>3 DEF DeleteDataset, At
  <2> DEFINE D == r.job.dataset /\ ~ok
             T == r.job.tried \cup {"dataset"}
             j == [r.job EXCEPT !.tried = T, !.dataset = D, !.missing = <<>>, !.seen = {}]
  <2>2. r1 = [r EXCEPT !.pc = "train", !.job = j]
    BY <1>0, <2>1, ZenonT(60) DEF ProcRow, JobRow
  <2>3. proc' = [proc EXCEPT ![p] = r1]
    BY <1>0, <2>1, ZenonT(60)
  <2>4. /\ D \in BOOLEAN /\ T \in SUBSET {"dataset", "kernel"} /\ T = {"dataset", "kernel"}
        /\ <<>> \in Seq(Listed)
    BY <1>0, <2>1 DEF JobRow, JobState
  <2> HIDE DEF D, T
  <2>5. /\ j \in JobRow /\ j.missing = <<>> /\ j.seen = {} /\ j.tried = T
        /\ j.uploaded = r.job.uploaded
    BY <1>0, <2>4 DEF JobRow
  <2> HIDE DEF j
  <2>6. r1 \in ProcRow /\ r1.pc = "train" /\ r1.job = j /\ r1.corpus = r.corpus
    BY <1>0, <2>2, <2>5, Places DEF ProcRow
  <2>7. JobState(r1)
    BY <2>1, <2>4, <2>5, <2>6, FS_EmptySet DEF JobState, Before, After
  <2> QED
    BY <2>3, <2>5, <2>6, <2>7, JobReplaced
<1> QED
  BY <1>1, <1>2, <1>3

\* The sparse phase, the marks and the end.
LEMMA SparseRows ==
    ASSUME TypeOK, NEW p \in Proc, JobState(proc[p]),
           \/ Train(p) \/ (\E k \in 1..Len(proc[p].corpus) : Weigh(p, k))
           \/ SparseDone(p) \/ SparseFails(p) \/ MarkIndexed(p) \/ Finish(p)
    PROVE  RowStep(p)
<1> DEFINE r == proc[p]
           r1 == proc'[p]
<1>0. /\ proc \in [Proc -> ProcRow] /\ r \in ProcRow /\ r.job \in JobRow /\ <<>> \in Seq(Listed)
      /\ r.job.missing \in Seq(Listed) /\ r.corpus \in Seq(Listed)
  <2>1. proc \in [Proc -> ProcRow] /\ r \in ProcRow /\ r.job \in JobRow
    BY ProcTypes
  <2> QED
    BY <2>1 DEF ProcRow, JobRow
<1>1. CASE Train(p)
  <2>1. PICK rows \in Listing(MissingSparse) :
           r.pc = "train" /\ proc' = [proc EXCEPT ![p].pc = "weigh", ![p].corpus = rows]
    BY <1>1 DEF Train, At
  <2>2. r1 = [r EXCEPT !.pc = "weigh", !.corpus = rows] /\ proc' = [proc EXCEPT ![p] = r1]
    BY <1>0, <2>1 DEF ProcRow
  <2>3. rows \in Seq(Listed)
    BY <2>1, ListingRows DEF MissingSparse, Rows
  <2>4. /\ r1 \in ProcRow /\ r1.pc = "weigh" /\ r1.job = r.job /\ r1.corpus = rows
        /\ r1.errs = r.errs
    BY <1>0, <2>2, <2>3, Places DEF ProcRow
  <2> QED
    BY <2>1, <2>2, <2>4, JobKept DEF HasFile, Taken, After
<1>2. ASSUME NEW k \in 1..Len(r.corpus), Weigh(p, k) PROVE RowStep(p)
  <2> DEFINE j == [r.job EXCEPT !.seen = @ \cup {k}]
  <2>1. r1 = [r EXCEPT !.job = j] /\ r.pc = "weigh"
    BY <1>0, <1>2 DEF Weigh, At, ProcRow, JobRow
  <2>2. IsFiniteSet(r.job.seen \cup {k}) /\ k \in Nat
    <3>1. Len(r.corpus) \in Nat
      BY <1>0
    <3>2. IsFiniteSet(r.job.seen)
      BY DEF JobState
    <3>3. IsFiniteSet(r.job.seen \cup {k})
      BY <3>2, FS_AddElement
    <3>4. k \in Nat
      BY <3>1
    <3> QED
      BY <3>3, <3>4
  <2>3. /\ j \in JobRow /\ j.missing = r.job.missing /\ j.seen = r.job.seen \cup {k}
        /\ j.tried = r.job.tried /\ j.kernel = r.job.kernel /\ j.uploaded = r.job.uploaded
    BY <1>0, <2>2 DEF JobRow
  <2> HIDE DEF j
  <2>4. r1 \in ProcRow /\ r1.pc = "weigh" /\ r1.job = j /\ r1.corpus = r.corpus /\ r1.errs = r.errs
    BY <1>0, <2>1, <2>3, Places DEF ProcRow
  <2>5. JobState(r1)
    BY <2>1, <2>2, <2>3, <2>4 DEF JobState, Before, After
  <2>6. proc' = [proc EXCEPT ![p] = r1]
    BY <1>0, <1>2 DEF Weigh
  <2> QED
    BY <2>3, <2>4, <2>5, <2>6, JobReplaced
<1>3. CASE SparseDone(p) \/ SparseFails(p)
  <2>1. PICK errs \in {{}, {"sparse"}} :
           /\ r.pc \in {"train", "weigh"}
           /\ proc' = [proc EXCEPT ![p].pc = "mark", ![p].errs = @ \cup errs, ![p].corpus = <<>>,
                            ![p].job.seen = {}]
    BY <1>3 DEF SparseDone, SparseFails, SparseOver, At
  <2> DEFINE E == r.errs \cup errs
             j == [r.job EXCEPT !.seen = {}]
  <2>2. r1 = [r EXCEPT !.pc = "mark", !.errs = E, !.corpus = <<>>, !.job = j]
    BY <1>0, <2>1 DEF ProcRow, JobRow
  <2>3. proc' = [proc EXCEPT ![p] = r1]
    BY <1>0, <2>1, ZenonT(60)
  <2>4. E \in SUBSET {"build", "embed", "sparse"} /\ r.errs \subseteq E
    BY <1>0, <2>1 DEF ProcRow
  <2> HIDE DEF E
  <2>5. /\ j \in JobRow /\ j.missing = r.job.missing /\ j.seen = {}
        /\ j.tried = r.job.tried /\ j.kernel = r.job.kernel /\ j.uploaded = r.job.uploaded
    BY <1>0 DEF JobRow
  <2> HIDE DEF j
  <2>6. r1 \in ProcRow /\ r1.pc = "mark" /\ r1.job = j /\ r1.corpus = <<>> /\ r1.errs = E
    <3>1. <<>> \in Seq(Listed)
      OBVIOUS
    <3>2. r1.pc = "mark" /\ r1.job = j /\ r1.corpus = <<>> /\ r1.errs = E
      BY <1>0, <2>2 DEF ProcRow
    <3>3. r1 \in ProcRow
      BY <1>0, <2>2, <2>4, <2>5, <3>1, Places DEF ProcRow
    <3> QED
      BY <3>2, <3>3
  <2>7. JobState(r1)
    BY <2>1, <2>4, <2>5, <2>6, FS_EmptySet DEF JobState, Before, After
  <2> QED
    BY <2>3, <2>5, <2>6, <2>7, JobReplaced
<1>4. CASE MarkIndexed(p)
  <2>1. PICK f \in r.built, ok \in BOOLEAN :
           /\ r.pc = "mark"
           /\ proc' = [proc EXCEPT ![p].built = @ \ {f},
                            ![p].errs = IF ok THEN @ ELSE @ \cup {"build"}]
    BY <1>4 DEF MarkIndexed, At
  <2> DEFINE E == IF ok THEN r.errs ELSE r.errs \cup {"build"}
             B == r.built \ {f}
  <2>2. r1 = [r EXCEPT !.built = B, !.errs = E]
    BY <1>0, <2>1 DEF ProcRow
  <2>3. proc' = [proc EXCEPT ![p] = r1]
    BY <1>0, <2>1
  <2>4. E \in SUBSET {"build", "embed", "sparse"} /\ B \in SUBSET File /\ r.errs \subseteq E
    BY <1>0 DEF ProcRow
  <2> HIDE DEF E, B
  <2>5. r1 \in ProcRow /\ r1.pc = "mark" /\ r1.job = r.job /\ r1.corpus = r.corpus /\ r1.errs = E
    BY <1>0, <2>1, <2>2, <2>4 DEF ProcRow
  <2> QED
    BY <2>1, <2>3, <2>4, <2>5, JobKept DEF HasFile, Taken, After
<1>5. CASE Finish(p)
  <2> DEFINE l == IF r.errs = {} THEN "done" ELSE "failed"
  <2>1. r1 = [IdleProc EXCEPT !.pc = l, !.job = r.job, !.starts = r.starts] /\ r.pc = "mark"
    BY <1>0, <1>5 DEF Finish, At
  <2>2. r.starts \in 0..MaxStarts /\ IdleProc \in ProcRow /\ IdleProc.corpus = <<>>
    BY <1>0, IdleTypes DEF ProcRow
  <2>3. l \in {"done", "failed"}
    OBVIOUS
  <2> HIDE DEF l
  <2>4. r1 \in ProcRow /\ r1.pc = l /\ r1.job = r.job /\ r1.corpus = <<>>
    <3>1. l \in PC
      BY <2>3, Places
    <3> QED
      BY <1>0, <2>1, <2>2, <2>3, <3>1, ZenonT(60) DEF ProcRow
  <2>5. JobState(r1)
    BY <2>1, <2>3, <2>4 DEF JobState, Before, After
  <2>6. proc' = [proc EXCEPT ![p] = r1]
    BY <1>0, <1>5 DEF Finish
  <2> QED
    BY <2>3, <2>4, <2>5, <2>6, JobReplaced
<1> QED
  BY <1>1, <1>2, <1>3, <1>4, <1>5

\* A process starts its stage, or is killed in it.
LEMMA StartRows ==
    ASSUME TypeOK, NEW p \in Proc, JobState(proc[p]), Start(p) \/ Crash(p)
    PROVE  RowStep(p)
<1> DEFINE r == proc[p]
           r1 == proc'[p]
<1>0. proc \in [Proc -> ProcRow] /\ r \in ProcRow /\ r.starts \in 0..MaxStarts
  <2>1. proc \in [Proc -> ProcRow] /\ r \in ProcRow
    BY ProcTypes
  <2> QED
    BY <2>1 DEF ProcRow
<1>1. CASE Start(p)
  <2>1. PICK e \in Engines[p] :
           /\ r.starts < MaxStarts
           /\ proc' = [proc EXCEPT ![p] = [IdleProc EXCEPT
                  !.pc = "reap", !.engine = e, !.files = {f \in File : ~indexed[f]},
                  !.starts = r.starts + 1]]
    BY <1>1 DEF Start
  <2> DEFINE F == {f \in File : ~indexed[f]}
             n == r.starts + 1
  <2>2. r1 = [IdleProc EXCEPT !.pc = "reap", !.engine = e, !.files = F, !.starts = n]
    BY <1>0, <2>1
  <2>3. /\ e \in {"local", "kaggle", "auto", NULL} /\ F \in SUBSET File /\ n \in 0..MaxStarts
    <3>1. Engines[p] \subseteq {"local", "kaggle", "auto"}
      BY EmbeddingAssumption
    <3>2. n \in 0..MaxStarts
      BY <1>0, <2>1, Bounds
    <3> QED
      BY <3>1, <3>2
  <2> HIDE DEF F, n
  <2>4. r1 \in ProcRow /\ r1.pc = "reap" /\ r1.job = NoJob /\ r1.corpus = <<>>
    BY <2>2, <2>3, IdleTypes, Places, ZenonT(60) DEF ProcRow
  <2>5. JobState(r1) /\ NoJob.missing = <<>>
    BY <2>4, IdleTypes DEF JobState, Before, After
  <2>6. proc' = [proc EXCEPT ![p] = r1]
    BY <1>0, <2>1
  <2> QED
    BY <2>4, <2>5, <2>6, JobReplaced
<1>2. CASE Crash(p)
  <2>1. r1 = [IdleProc EXCEPT !.pc = "crashed", !.starts = r.starts]
    BY <1>0, <1>2 DEF Crash
  <2>2. r1 \in ProcRow /\ r1.pc = "crashed" /\ r1.job = NoJob /\ r1.corpus = <<>>
    BY <1>0, <2>1, IdleTypes, Places, ZenonT(60) DEF ProcRow
  <2>3. JobState(r1) /\ NoJob.missing = <<>>
    BY <2>2, IdleTypes DEF JobState, Before, After
  <2>4. proc' = [proc EXCEPT ![p] = r1]
    BY <1>0, <1>2 DEF Crash
  <2> QED
    BY <2>2, <2>3, <2>4, JobReplaced
<1> QED
  BY <1>1, <1>2

\* Every step of a process.
LEMMA Rowed ==
    ASSUME TypeOK, NEW p \in Proc, JobState(proc[p]), HasFile(proc[p]),
           Start(p) \/ Crash(p) \/ Step(p)
    PROVE  /\ RowStep(p) /\ proc' \in [Proc -> ProcRow]
           /\ \A q \in Proc : q # p => proc'[q] = proc[q]
<1>1. RowStep(p)
  BY BuildRows, LocalRows, KaggleRows, OutputRows, SparseRows, StartRows DEF Step
<1>2. proc \in [Proc -> ProcRow] /\ proc' = [proc EXCEPT ![p] = proc'[p]] /\ proc'[p] \in ProcRow
  BY <1>1, ProcTypes DEF RowStep
<1> QED
  BY <1>1, <1>2

-----------------------------------------------------------------------------
(* The tables.                                                             *)

\* The rows that are there had their ids and texts before.
RowsKept ==
    /\ nextId <= nextId'
    /\ \A i \in Id : i < nextId /\ chunk'[i] # NULL =>
          chunk[i] # NULL /\ chunk'[i].text = chunk[i].text

\* What is true of the chunks.
Chunks ==
    /\ chunk \in [Id -> ChunkRow \cup {NULL}] /\ nextId \in 1..MaxId + 1
    /\ IdsFresh /\ VectorOfText /\ SparseKnowsText

\* The vectors and weights, row by row.
LEMMA ByRow ==
    /\ VectorOfText <=> \A i \in Id : chunk[i] # NULL => chunk[i].vec \in {NULL, chunk[i].text}
    /\ SparseKnowsText <=> \A i \in Id :
          chunk[i] # NULL /\ chunk[i].sparse # NULL => chunk[i].text \in chunk[i].sparse
    /\ VectorOfText' <=> \A i \in Id : chunk'[i] # NULL => chunk'[i].vec \in {NULL, chunk'[i].text}
    /\ SparseKnowsText' <=> \A i \in Id :
          chunk'[i] # NULL /\ chunk'[i].sparse # NULL => chunk'[i].text \in chunk'[i].sparse
BY DEF VectorOfText, SparseKnowsText, Rows

\* Rows are deleted.
LEMMA DeleteKeeps ==
    ASSUME Chunks, NEW ids, chunk' = Without(ids), nextId' = nextId
    PROVE  Chunks' /\ RowsKept
<1>1. \A i \in Id : chunk'[i] = IF i \in ids THEN NULL ELSE chunk[i]
  BY DEF Without
<1>2. chunk' \in [Id -> ChunkRow \cup {NULL}]
  BY DEF Without, Chunks
<1>3. nextId \in Nat /\ nextId <= nextId'
  BY Bounds DEF Chunks
<1> QED
  BY <1>1, <1>2, <1>3, ByRow DEF Chunks, IdsFresh, RowsKept

\* One row is inserted or replaced by one with the same text.
LEMMA RowChanges ==
    ASSUME Chunks, NEW i \in Id, NEW row \in ChunkRow,
           chunk' = [chunk EXCEPT ![i] = row],
           row.vec \in {NULL, row.text}, row.sparse # NULL => row.text \in row.sparse,
           \/ nextId' = nextId /\ chunk[i] # NULL /\ row.text = chunk[i].text
           \/ i = nextId /\ nextId' = nextId + 1
    PROVE  Chunks' /\ RowsKept
<1>1. \A k \in Id : chunk'[k] = IF k = i THEN row ELSE chunk[k]
  BY DEF Chunks
<1>2. chunk' \in [Id -> ChunkRow \cup {NULL}]
  BY DEF Chunks
<1>3. /\ nextId \in Nat /\ nextId <= nextId' /\ i \in 1..MaxId /\ MaxId \in Nat
      /\ nextId' \in 1..MaxId + 1
  BY Bounds DEF Chunks, Id
<1>4. IdsFresh'
  <2>1. ASSUME NEW k \in Id, k >= nextId' PROVE chunk'[k] = NULL
    <3>1. k \in Nat /\ k >= nextId
      BY <1>3, <2>1 DEF Id
    <3>2. k # i
      BY <1>3, <2>1, <3>1 DEF Chunks, IdsFresh
    <3> QED
      BY <1>1, <3>1, <3>2 DEF Chunks, IdsFresh
  <2> QED
    BY <2>1 DEF IdsFresh
<1>5. VectorOfText' /\ SparseKnowsText'
  BY <1>1, ByRow DEF Chunks
<1>6. RowsKept
  BY <1>1, <1>3 DEF RowsKept
<1> QED
  BY <1>2, <1>3, <1>4, <1>5, <1>6 DEF Chunks

\* A chunk row has the columns of gold.chunk.
LEMMA RowColumns ==
    ASSUME NEW row \in ChunkRow, NEW t \in Text, NEW T \in SUBSET Text
    PROVE  /\ row.text \in Text
           /\ LET v == [row EXCEPT !.vec = t]
              IN  v \in ChunkRow /\ v.text = row.text /\ v.vec = t /\ v.sparse = row.sparse
           /\ LET w == [row EXCEPT !.sparse = T]
              IN  w \in ChunkRow /\ w.text = row.text /\ w.vec = row.vec /\ w.sparse = T
           /\ [text |-> t, vec |-> NULL, sparse |-> NULL] \in ChunkRow
BY DEF ChunkRow

\* What a step of a process does to the tables.
LEMMA TableStep ==
    ASSUME TypeOK, Chunks, NEW p \in Proc, Start(p) \/ Crash(p) \/ Step(p),
           JobState(proc[p]), Truthful(proc[p].job.missing), Truthful(proc[p].corpus)
    PROVE  /\ Chunks' /\ RowsKept /\ UNCHANGED rev
           /\ indexed' \in [File -> BOOLEAN]
<1> DEFINE r == proc[p]
<1>0. /\ r \in ProcRow /\ r.job \in JobRow /\ r.job.missing \in Seq(Listed) /\ r.corpus \in Seq(Listed)
      /\ r.todo \in SUBSET Text /\ indexed \in [File -> BOOLEAN]
      /\ chunk \in [Id -> ChunkRow \cup {NULL}]
  <2>1. r \in ProcRow /\ r.job \in JobRow
    BY ProcTypes
  <2> QED
    BY <2>1 DEF ProcRow, JobRow, TypeOK
<1>1. ASSUME UNCHANGED <<chunk, nextId>> PROVE Chunks' /\ RowsKept
  <2>1. nextId <= nextId'
    BY <1>1, Bounds DEF Chunks
  <2> QED
    BY <1>1, <2>1, ByRow DEF Chunks, IdsFresh, RowsKept
<1>2. CASE UNCHANGED tables
  BY <1>0, <1>1, <1>2 DEF tables
<1>3. CASE ReapOrphans(p) \/ DeleteChunksForControls(p)
  BY <1>0, <1>3, DeleteKeeps DEF ReapOrphans, DeleteChunksForControls
<1>4. CASE InsertChunk(p)
  <2>1. PICK t \in r.todo :
           /\ chunk' = [chunk EXCEPT ![nextId] = [text |-> t, vec |-> NULL, sparse |-> NULL]]
           /\ nextId <= MaxId /\ nextId' = nextId + 1 /\ UNCHANGED <<rev, indexed>>
    BY <1>4 DEF InsertChunk
  <2> DEFINE row == [text |-> t, vec |-> NULL, sparse |-> NULL]
  <2>2. nextId \in Id /\ t \in Text
    BY <1>0, <2>1, Bounds DEF Chunks, Id
  <2>3. row \in ChunkRow /\ row.vec = NULL /\ row.sparse = NULL
    BY <2>2 DEF ChunkRow
  <2>4. chunk' = [chunk EXCEPT ![nextId] = row]
    BY <2>1
  <2> HIDE DEF row
  <2> QED
    BY <1>0, <2>1, <2>2, <2>3, <2>4, RowChanges
<1>5. ASSUME NEW k \in 1..Len(r.job.missing), Upsert(k, p)
      PROVE  Chunks' /\ RowsKept /\ UNCHANGED <<rev, indexed>>
  <2> DEFINE m == r.job.missing[k]
             row == [chunk[m.id] EXCEPT !.vec = m.text]
  <2>1. m.id \in Rows /\ chunk' = [chunk EXCEPT ![m.id].vec = m.text] /\ UNCHANGED <<rev, indexed, nextId>>
    BY <1>5 DEF Upsert
  <2>2. m \in Listed
    BY <1>0, <1>5
  <2>3. m.id \in Id /\ m.text \in Text /\ chunk[m.id] # NULL /\ chunk[m.id] \in ChunkRow
    BY <1>0, <2>1, <2>2 DEF Listed, Rows
  <2>4. chunk[m.id].text = m.text
    BY <1>5, <2>3 DEF Truthful
  <2>5. chunk' = [chunk EXCEPT ![m.id] = row]
    BY <2>1
  <2>6. row \in ChunkRow /\ row.text = chunk[m.id].text /\ row.vec = m.text /\ row.sparse = chunk[m.id].sparse
    BY <2>3, RowColumns, ZenonT(60)
  <2>7. row.sparse # NULL => row.text \in row.sparse
    BY <2>3, <2>6, ByRow DEF Chunks
  <2> HIDE DEF m, row
  <2> QED
    BY <2>1, <2>3, <2>4, <2>5, <2>6, <2>7, RowChanges, ZenonT(60)
<1>6. CASE EmbedLocal(p) \/ (\E k \in Id : ParseVector(p, k))
  <2>1. PICK k \in 1..Len(r.job.missing) : Upsert(k, p)
    <3>1. CASE \E k \in Id : ParseVector(p, k)
      BY <3>1 DEF ParseVector
    <3>2. CASE EmbedLocal(p)
      <4> DEFINE k == Cardinality(r.job.seen) + 1
      <4>1. IsFiniteSet(r.job.seen)
        BY DEF JobState
      <4>2. k \in Nat /\ k >= 1
        BY <4>1, FS_CardinalityType
      <4>3. k <= Len(r.job.missing) /\ Upsert(k, p)
        BY <3>2 DEF EmbedLocal
      <4>4. Len(r.job.missing) \in Nat
        BY <1>0
      <4> HIDE DEF k
      <4>5. k \in 1..Len(r.job.missing)
        BY <4>2, <4>3, <4>4
      <4> QED
        BY <4>3, <4>5
    <3> QED
      BY <1>6, <3>1, <3>2
  <2> QED
    BY <1>0, <1>5, <2>1
<1>7. ASSUME NEW k \in 1..Len(r.corpus), Weigh(p, k)
      PROVE  Chunks' /\ RowsKept /\ UNCHANGED <<rev, indexed>>
  <2> DEFINE m == r.corpus[k]
             T == Trained(p)
             row == [chunk[m.id] EXCEPT !.sparse = T]
  <2>1. /\ chunk' = IF m.id \in Rows THEN [chunk EXCEPT ![m.id].sparse = T] ELSE chunk
        /\ UNCHANGED <<rev, indexed, nextId>>
    BY <1>7 DEF Weigh
  <2>2. m \in Listed /\ \A n \in 1..Len(r.corpus) : r.corpus[n] \in Listed
    BY <1>0, <1>7
  <2>3. T \in SUBSET Text /\ m.text \in T
    BY <1>7, <2>2 DEF Trained, Listed
  <2>4. CASE m.id \in Rows
    <3>1. m.id \in Id /\ chunk[m.id] # NULL /\ chunk[m.id] \in ChunkRow
      BY <1>0, <2>4 DEF Rows
    <3>2. chunk[m.id].text = m.text
      BY <1>7, <3>1 DEF Truthful
    <3>3. chunk' = [chunk EXCEPT ![m.id] = row]
      BY <2>1, <2>4
    <3>4. row \in ChunkRow /\ row.text = chunk[m.id].text /\ row.vec = chunk[m.id].vec /\ row.sparse = T
      <4>1. m.text \in Text
        BY <2>2 DEF Listed
      <4>2. PICK c \in ChunkRow : c = chunk[m.id]
        BY <3>1
      <4>3. row = [c EXCEPT !.sparse = T]
        BY <4>2
      <4> HIDE DEF m, T, row
      <4> QED
        BY <2>3, <4>2, <4>3 DEF ChunkRow
    <3>5. row.vec \in {NULL, row.text}
      BY <3>1, <3>4, ByRow DEF Chunks
    <3> HIDE DEF m, row, T
    <3> QED
      BY <2>1, <2>3, <3>1, <3>2, <3>3, <3>4, <3>5, RowChanges
  <2> QED
    BY <1>1, <2>1, <2>4
<1>8. CASE MarkIndexed(p)
  <2>1. UNCHANGED <<rev, chunk, nextId>> /\ indexed' \in [File -> BOOLEAN]
    BY <1>0, <1>8 DEF MarkIndexed
  <2> QED
    BY <1>1, <2>1
<1>9. Start(p) \/ Crash(p) => UNCHANGED tables
  BY DEF Start, Crash
<1>10. ListDocuments(p) \/ ListControls(p) \/ DocBuilt(p) \/ FileBuilt(p) \/ BuildFails(p)
       \/ FilesDone(p) \/ ChooseEngine(p) \/ ListMissing(p) \/ LocalDone(p) \/ EmbedFails(p)
       => UNCHANGED tables
  BY DEF ListDocuments, ListControls, DocBuilt, FileBuilt, BuildFails, FilesDone, ChooseEngine,
         ListMissing, LocalDone, EmbedFails
<1>11. UploadInput(p) \/ PollDataset(p) \/ PushKernel(p) \/ PollKernel(p) \/ Timeout(p)
       \/ DownloadOutput(p) \/ ParseFails(p) \/ ParseDone(p) => UNCHANGED tables
  BY DEF UploadInput, PollDataset, PushKernel, PollKernel, Timeout, DownloadOutput, ParseFails,
         ParseDone, JobFails
<1>12. DeleteKernel(p) \/ DeleteDataset(p) \/ Train(p) \/ SparseDone(p) \/ SparseFails(p)
       \/ Finish(p) \/ Stop(p) => UNCHANGED tables
  BY DEF DeleteKernel, DeleteDataset, Train, SparseDone, SparseFails, SparseOver, Finish, Stop
<1> QED
  BY <1>0, <1>2, <1>3, <1>4, <1>6, <1>7, <1>8, <1>9, <1>10, <1>11, <1>12, DeleteKeeps DEF Step

-----------------------------------------------------------------------------
(* The invariant.                                                          *)

\* A listing stays truthful while rows keep their ids and texts.
LEMMA StaysTruthful ==
    ASSUME RowsKept, NEW rows \in Seq(Listed), Truthful(rows), nextId \in Nat, nextId' \in Nat
    PROVE  Truthful(rows)'
<1>1. \A k \in 1..Len(rows) : rows[k] \in Listed
  OBVIOUS
<1>2. ASSUME NEW k \in 1..Len(rows)
      PROVE  /\ rows[k].id < nextId'
             /\ chunk'[rows[k].id] # NULL => chunk'[rows[k].id].text = rows[k].text
  <2>1. rows[k].id \in Id /\ rows[k].id < nextId
    BY <1>1 DEF Truthful, Listed
  <2>2. rows[k].id \in Nat
    BY <2>1 DEF Id
  <2> QED
    BY <2>1, <2>2 DEF Truthful, RowsKept
<1> QED
  BY <1>2 DEF Truthful

\* A fresh listing tells the truth, and the empty one nothing.
LEMMA FreshTruthful ==
    ASSUME TypeOK, IdsFresh, NEW ids \in SUBSET Rows, NEW rows \in Listing(ids) \cup {<<>>}
    PROVE  Truthful(rows) /\ rows \in Seq(Listed)
<1>1. CASE rows = <<>>
  BY <1>1 DEF Truthful
<1>2. CASE rows \in Listing(ids)
  <2>1. /\ rows \in Seq(Listed)
        /\ \A k \in 1..Len(rows) : rows[k].id \in ids /\ rows[k].text = chunk[rows[k].id].text
    BY <1>2, ListingRows
  <2>2. nextId \in Nat
    BY Bounds DEF TypeOK
  <2>3. \A i \in ids : i < nextId
    BY <2>2 DEF Rows, Id, IdsFresh
  <2> QED
    BY <2>1, <2>3 DEF Truthful
<1> QED
  BY <1>1, <1>2

\* The first state.
LEMMA IndexInit == Init => IndexInv
<1> SUFFICES ASSUME Init PROVE IndexInv
  OBVIOUS
<1>1. TypeOK
  <2>1. proc \in [Proc -> ProcRow]
    BY IdleTypes DEF Init
  <2>2. rev \in [File -> 0..MaxRev] /\ nextId \in 1..MaxId + 1
    BY Bounds DEF Init
  <2> QED
    BY <2>1, <2>2 DEF Init, TypeOK
<1>2. IdsFresh /\ VectorOfText /\ SparseKnowsText
  BY DEF Init, IdsFresh, VectorOfText, SparseKnowsText, Rows
<1>3. ASSUME NEW p \in Proc
      PROVE  /\ JobState(proc[p]) /\ HasFile(proc[p])
             /\ Truthful(proc[p].job.missing) /\ Truthful(proc[p].corpus)
  <2>1. proc[p] = IdleProc
    BY DEF Init
  <2>2. JobState(IdleProc) /\ HasFile(IdleProc)
    BY IdleTypes DEF JobState, HasFile, Taken, Before, After
  <2>3. IdleProc.job.missing = <<>> /\ IdleProc.corpus = <<>> /\ Truthful(<<>>)
    BY IdleTypes DEF Truthful
  <2> QED
    BY <2>1, <2>2, <2>3
<1> QED
  BY <1>1, <1>2, <1>3 DEF IndexInv

\* A step of a process keeps the invariant.
LEMMA StepKeeps ==
    ASSUME IndexInv, NEW p \in Proc, Start(p) \/ Crash(p) \/ Step(p)
    PROVE  IndexInv'
<1>1. TypeOK /\ Chunks /\ JobState(proc[p]) /\ HasFile(proc[p])
      /\ Truthful(proc[p].job.missing) /\ Truthful(proc[p].corpus)
  BY DEF IndexInv, TypeOK, Chunks
<1>2. /\ RowStep(p) /\ proc' \in [Proc -> ProcRow]
      /\ \A q \in Proc : q # p => proc'[q] = proc[q]
  BY <1>1, Rowed
<1>3. Chunks' /\ RowsKept /\ UNCHANGED rev /\ indexed' \in [File -> BOOLEAN]
  BY <1>1, TableStep
<1>4. nextId \in Nat /\ nextId' \in Nat
  BY <1>1, <1>3, Bounds DEF Chunks
<1>5. ASSUME NEW q \in Proc
      PROVE  /\ JobState(proc'[q]) /\ HasFile(proc'[q])
             /\ Truthful(proc[q].job.missing)' /\ Truthful(proc[q].corpus)'
  <2>0. proc[q].job.missing \in Seq(Listed) /\ proc[q].corpus \in Seq(Listed)
    <3>1. proc[q] \in ProcRow /\ proc[q].job \in JobRow
      BY <1>1, ProcTypes
    <3> QED
      BY <3>1 DEF ProcRow, JobRow
  <2>1. Truthful(proc[q].job.missing) /\ Truthful(proc[q].corpus)
    BY DEF IndexInv
  <2>2. JobState(proc'[q]) /\ HasFile(proc'[q])
    BY <1>2 DEF RowStep, IndexInv
  <2>3. PICK m \in Seq(Listed) : m = proc'[q].job.missing /\ Truthful(m)
    <3>1. proc'[q].job.missing \in {proc[q].job.missing, <<>>} \cup Listing(MissingEmbedding)
      BY <1>2 DEF RowStep
    <3>2. MissingEmbedding \in SUBSET Rows
      BY DEF MissingEmbedding
    <3>3. Truthful(proc'[q].job.missing) /\ proc'[q].job.missing \in Seq(Listed)
      BY <1>1, <2>0, <2>1, <3>1, <3>2, FreshTruthful DEF Chunks
    <3> QED
      BY <3>3
  <2>4. PICK c \in Seq(Listed) : c = proc'[q].corpus /\ Truthful(c)
    <3>1. proc'[q].corpus \in {proc[q].corpus, <<>>} \cup Listing(MissingSparse)
      BY <1>2 DEF RowStep
    <3>2. MissingSparse \in SUBSET Rows
      BY DEF MissingSparse
    <3>3. Truthful(proc'[q].corpus) /\ proc'[q].corpus \in Seq(Listed)
      BY <1>1, <2>0, <2>1, <3>1, <3>2, FreshTruthful DEF Chunks
    <3> QED
      BY <3>3
  <2>5. Truthful(m)' /\ Truthful(c)'
    BY <1>3, <1>4, <2>3, <2>4, StaysTruthful
  <2> QED
    BY <2>2, <2>3, <2>4, <2>5 DEF Truthful
<1>6. TypeOK'
  BY <1>1, <1>2, <1>3 DEF TypeOK, Chunks
<1> QED
  BY <1>3, <1>5, <1>6 DEF IndexInv, Chunks, Truthful

\* So does a normalization by another process.
LEMMA NormalizeKeeps ==
    ASSUME IndexInv, NEW f \in File, Normalize(f)
    PROVE  IndexInv'
<1>1. UNCHANGED <<chunk, nextId, proc>>
  BY DEF Normalize
<1>2. rev' \in [File -> 0..MaxRev] /\ indexed' \in [File -> BOOLEAN]
  BY Bounds DEF Normalize, IndexInv, TypeOK
<1> QED
  BY <1>1, <1>2 DEF IndexInv, TypeOK, IdsFresh, VectorOfText, SparseKnowsText, Rows, Truthful

\* The index stage keeps its invariant, for any number of processes.
THEOREM IndexInvariant == Spec => []IndexInv
<1>1. Init => IndexInv
  BY IndexInit
<1>2. IndexInv /\ [Next]_vars => IndexInv'
  <2> SUFFICES ASSUME IndexInv, [Next]_vars PROVE IndexInv'
    OBVIOUS
  <2>1. CASE UNCHANGED vars
    BY <2>1 DEF vars, IndexInv, TypeOK, IdsFresh, VectorOfText, SparseKnowsText, Rows, Truthful
  <2>2. CASE Next
    BY <2>2, StepKeeps, NormalizeKeeps DEF Next
  <2> QED
    BY <2>1, <2>2
<1> QED
  BY <1>1, <1>2, PTL DEF Spec

\* The rows of the tables and of the processes keep their types.
THEOREM IndexTypes == Spec => []TypeOK
<1>1. IndexInv => TypeOK
  BY DEF IndexInv
<1> QED
  BY <1>1, IndexInvariant, PTL

\* Every stored vector was made of the text its chunk has.
THEOREM VectorsAreOfTheText == Spec => []VectorOfText
<1>1. IndexInv => VectorOfText
  BY DEF IndexInv
<1> QED
  BY <1>1, IndexInvariant, PTL

\* Every sparse vector was weighed by an encoder that knows the chunk's text.
THEOREM EncoderKnowsTheText == Spec => []SparseKnowsText
<1>1. IndexInv => SparseKnowsText
  BY DEF IndexInv
<1> QED
  BY <1>1, IndexInvariant, PTL

\* A job whose upload succeeded has tried to delete both its artifacts before the
\* stage goes on, and one whose upload failed made no kernel.
THEOREM ArtifactsAreTried == Spec => []ArtifactsTried
<1>1. IndexInv => ArtifactsTried
  BY DEF IndexInv, JobState, ArtifactsTried, After
<1> QED
  BY <1>1, IndexInvariant, PTL

-----------------------------------------------------------------------------
(* One process marks files, and no normalization interferes.               *)

\* A chunk with both vectors.
Whole(t) == \E i \in Rows : chunk[i].text = t /\ chunk[i].vec # NULL /\ chunk[i].sparse # NULL

\* A file is complete when its controls, as they are listed, have such chunks.
LEMMA CompleteFile ==
    ASSUME NEW f
    PROVE  /\ Complete(f) <=> \A t \in ListControlsForDocument(f) : Whole(t)
           /\ Complete(f)' <=> \A t \in ListControlsForDocument(f)' : Whole(t)'
<1>1. \A t : t \in ListControlsForDocument(f) <=> \E c \in ControlsOf[f] : t = <<c, rev[f]>>
  BY DEF ListControlsForDocument
<1>2. \A t : t \in ListControlsForDocument(f)' <=> \E c \in ControlsOf[f] : t = <<c, rev'[f]>>
  BY DEF ListControlsForDocument
<1>3. Complete(f) <=> \A c \in ControlsOf[f] : Whole(<<c, rev[f]>>)
  BY DEF Complete, Whole
<1>4. Complete(f)' <=> \A c \in ControlsOf[f] : Whole(<<c, rev[f]>>)'
  BY DEF Complete, Whole
<1>5. (\A c \in ControlsOf[f] : Whole(<<c, rev[f]>>)') <=> \A t \in ListControlsForDocument(f)' : Whole(t)'
  BY <1>2 DEF Whole
<1> QED
  BY <1>1, <1>3, <1>4, <1>5

\* Two files have no control in common.
LEMMA OwnControls ==
    ASSUME NEW f \in File, NEW g \in File, f # g
    PROVE  ListControlsForDocument(f) \cap ListControlsForDocument(g) = {}
BY EmbeddingAssumption DEF ListControlsForDocument

\* A file is of its own version, and being of one version is mutual.
LEMMA Siblings ==
    /\ \A f \in File : f \in Sibs(f)
    /\ \A f \in File : \A g \in Sibs(f) : g \in File /\ f \in Sibs(g)
BY DEF Sibs, ListDocumentsForVersion

\* What is said of a row of a process is said of the same tables.
LEMMA SameTables ==
    ASSUME UNCHANGED tables, NEW r
    PROVE  /\ Files(r)' <=> Files(r)
           /\ Chunked(r)' <=> Chunked(r)
           /\ Dense(r)' <=> Dense(r)
           /\ Weighed(r)' <=> Weighed(r)
           /\ HolesWait' <=> HolesWait
<1>1. UNCHANGED <<rev, indexed, chunk>>
  BY DEF tables
<1>2. \A f : ListControlsForDocument(f)' = ListControlsForDocument(f)
  BY <1>1 DEF ListControlsForDocument
<1>3. \A t : HasChunk(t)' <=> HasChunk(t)
  BY <1>1 DEF HasChunk, Rows
<1>4. MissingEmbedding' = MissingEmbedding /\ MissingSparse' = MissingSparse
  BY <1>1 DEF MissingEmbedding, MissingSparse, Rows
<1>5. HolesWait' <=> HolesWait
  BY <1>1 DEF HolesWait, Complete, Rows, ListDocumentsForVersion
<1>6. /\ \A f : HasChunks(f)' <=> HasChunks(f)
      /\ \A built, f : Left(built, f)' <=> Left(built, f)
      /\ \A f : Sibs(f)' = Sibs(f)
  BY <1>1, <1>2, <1>3 DEF HasChunks, Left, Sibs, ListDocumentsForVersion
<1>7. Chunked(r)' <=> Chunked(r)
  BY <1>2, <1>3, <1>6 DEF Chunked
<1> QED
  BY <1>1, <1>4, <1>5, <1>7 DEF Files, Dense, Weighed

\* The columns of a row that are about files.
SameFiles(r, r1) ==
    /\ r1.files = r.files /\ r1.built = r.built /\ r1.cur = r.cur /\ r1.todo = r.todo
    /\ r1.docs = r.docs /\ r1.fileErrored = r.fileErrored

\* After the rebuilds the files stay as they are.
LEMMA FilesKept ==
    ASSUME NEW r, NEW r1, SameFiles(r, r1), r1.pc \notin {"docs", "delete", "insert"},
           Files(r), Chunked(r)
    PROVE  Files(r1) /\ Chunked(r1)
BY DEF SameFiles, Files, Chunked, Taken

\* With no file built, the holes that wait are left to a later run.
LEMMA NothingBuilt ==
    ASSUME HolesWait, NEW r1, r1.built = {}, r1.pc \notin {"docs", "delete", "insert"},
           \A f \in r1.files : ~indexed[f]
    PROVE  Files(r1) /\ Chunked(r1)
<1>1. ASSUME NEW f \in File PROVE Left(r1.built, f) \/ HasChunks(f)
  <2>1. CASE Complete(f)
    <3>1. \A t \in ListControlsForDocument(f) : Whole(t)
      BY <2>1, CompleteFile
    <3> QED
      BY <3>1 DEF HasChunks, HasChunk, Whole
  <2>2. CASE \E g \in ListDocumentsForVersion(VersionOf[f]) : ~indexed[g]
    BY <2>2 DEF Left, Sibs
  <2> QED
    BY <2>1, <2>2 DEF HolesWait
<1> QED
  BY <1>1 DEF Files, Chunked, Taken

\* The only process, in a step that leaves the tables.
LEMMA AloneKeeps ==
    ASSUME MarkInv, IndexInv', Alone, UNCHANGED tables, NEW p \in Proc,
           NEW r1, r1 = proc'[p], Files(r1), Chunked(r1), Dense(r1), Weighed(r1)
    PROVE  MarkInv'
<1>1. Files(r1)' /\ Chunked(r1)' /\ Dense(r1)' /\ Weighed(r1)' /\ HolesWait'
  BY SameTables DEF MarkInv
<1>2. \A q \in Proc : q = p
  BY DEF Alone
<1>3. Files(proc[p])' /\ Chunked(proc[p])' /\ Dense(proc[p])' /\ Weighed(proc[p])'
  BY <1>1 DEF Files, Chunked, Dense, Weighed
<1> QED
  BY <1>1, <1>2, <1>3 DEF MarkInv

\* Steps of the stage up to the embedding that leave the tables.
LEMMA AloneBuilds ==
    ASSUME MarkInv, IndexInv', Alone, NEW p \in Proc,
           \/ ListDocuments(p) \/ ListControls(p) \/ DocBuilt(p) \/ FileBuilt(p) \/ BuildFails(p)
           \/ FilesDone(p) \/ ChooseEngine(p) \/ Stop(p) \/ Start(p) \/ Crash(p) \/ Finish(p)
    PROVE  MarkInv'
<1> DEFINE r == proc[p]
<1>0. /\ proc \in [Proc -> ProcRow] /\ r \in ProcRow /\ r.job \in JobRow /\ HasFile(r)
      /\ Files(r) /\ Chunked(r) /\ Dense(r) /\ Weighed(r) /\ HolesWait
  BY ProcTypes DEF MarkInv, IndexInv
<1>1. PICK r1 : r1 = proc'[p]
  OBVIOUS
<1>2. UNCHANGED tables
  BY DEF ListDocuments, ListControls, DocBuilt, FileBuilt, BuildFails, FilesDone, ChooseEngine,
         Stop, Start, Crash, Finish
<1> SUFFICES Files(r1) /\ Chunked(r1) /\ Dense(r1) /\ Weighed(r1)
  BY <1>1, <1>2, AloneKeeps
<1>31. CASE ListDocuments(p)
  <2>1. PICK f \in r.files, ok \in BOOLEAN :
           /\ r.pc = "files"
           /\ proc' = [proc EXCEPT ![p].pc = "docs", ![p].files = @ \ {f}, ![p].cur = f,
                  ![p].docs = IF ok THEN ListDocumentsForVersion(VersionOf[f]) ELSE {},
                  ![p].fileErrored = ~ok, ![p].errs = IF ok THEN @ ELSE @ \cup {"build"}]
    BY <1>31 DEF ListDocuments, At
  <2>2. /\ r1.pc = "docs" /\ r1.files = r.files \ {f} /\ r1.cur = f /\ r1.built = r.built
        /\ r1.docs = (IF ok THEN Sibs(f) ELSE {}) /\ r1.fileErrored = ~ok /\ r1.job = r.job
    BY <1>0, <1>1, <2>1 DEF ProcRow, Sibs
  <2>3. Files(r1)
    BY <1>0, <2>1, <2>2 DEF Files, Taken
  <2>4. Chunked(r1)
    BY <1>0, <2>1, <2>2 DEF Chunked, Taken
  <2>5. Dense(r1) /\ Weighed(r1)
    BY <1>0, <2>1, <2>2 DEF Dense, Weighed, Before
  <2> QED
    BY <2>3, <2>4, <2>5
<1>3. CASE ListControls(p)
  <2>1. PICK g \in r.docs, ok \in BOOLEAN :
           /\ r.pc = "docs"
           /\ proc' = [proc EXCEPT ![p].pc = IF ok THEN "delete" ELSE @, ![p].docs = @ \ {g},
                  ![p].todo = IF ok THEN ListControlsForDocument(g) ELSE {},
                  ![p].fileErrored = @ \/ ~ok, ![p].errs = IF ok THEN @ ELSE @ \cup {"build"}]
    BY <1>3 DEF ListControls, At
  <2>2. /\ r1.pc = (IF ok THEN "delete" ELSE "docs") /\ r1.files = r.files /\ r1.cur = r.cur
        /\ r1.built = r.built /\ r1.docs = r.docs \ {g}
        /\ r1.todo = (IF ok THEN ListControlsForDocument(g) ELSE {})
        /\ r1.fileErrored = (r.fileErrored \/ ~ok) /\ r1.job = r.job
    BY <1>0, <1>1, <2>1 DEF ProcRow
  <2>3. Files(r1)
    BY <1>0, <2>1, <2>2 DEF Files, Taken
  <2>4. /\ \A f \in File : Left(r.built, f) \/ HasChunks(f)
        /\ r.docs \subseteq Sibs(r.cur)
        /\ ~r.fileErrored => \A h \in Sibs(r.cur) \ r.docs :
              \A t \in ListControlsForDocument(h) : HasChunk(t)
    BY <1>0, <2>1 DEF Chunked, Taken
  <2>5. Chunked(r1)
    <3>1. CASE ok
      BY <2>1, <2>2, <2>4, <3>1 DEF Chunked, Taken
    <3>2. CASE ~ok
      BY <2>1, <2>2, <2>4, <3>2 DEF Chunked, Taken
    <3> QED
      BY <3>1, <3>2
  <2>6. Dense(r1) /\ Weighed(r1)
    BY <1>0, <2>1, <2>2 DEF Dense, Weighed, Before
  <2> QED
    BY <2>3, <2>5, <2>6
<1>32. CASE DocBuilt(p)
  <2>1. /\ r.pc = "insert" /\ r.todo = {} /\ r1.pc = "docs" /\ SameFiles(r, r1) /\ r1.job = r.job
    BY <1>0, <1>1, <1>32 DEF DocBuilt, At, Goto, ProcRow, SameFiles
  <2>2. Files(r1) /\ Chunked(r1)
    BY <1>0, <2>1 DEF Files, Chunked, SameFiles, Taken
  <2>3. Dense(r1) /\ Weighed(r1)
    BY <1>0, <2>1 DEF Dense, Weighed, Before
  <2> QED
    BY <2>2, <2>3
<1>4. CASE FileBuilt(p)
  <2> DEFINE B == IF r.fileErrored THEN r.built ELSE r.built \cup {r.cur}
  <2>1. /\ r.pc = "docs" /\ r.docs = {} /\ r.cur \in File
        /\ proc' = [proc EXCEPT ![p].pc = "files", ![p].cur = NULL, ![p].fileErrored = FALSE,
                                ![p].built = B]
    BY <1>0, <1>4 DEF FileBuilt, At, HasFile, Taken
  <2>2. r1.pc = "files" /\ r1.files = r.files /\ r1.built = B /\ r1.job = r.job
    BY <1>0, <1>1, <2>1 DEF ProcRow
  <2>3. Files(r1)
    BY <1>0, <2>1, <2>2 DEF Files, Taken
  <2>4. ASSUME NEW f \in File PROVE Left(B, f) \/ HasChunks(f)
    <3>1. Left(r.built, f) \/ HasChunks(f)
      BY <1>0 DEF Chunked
    <3>2. CASE r.fileErrored
      BY <3>1, <3>2
    <3>3. CASE ~r.fileErrored /\ f \in Sibs(r.cur)
      <4>1. \A t \in ListControlsForDocument(f) : HasChunk(t)
        BY <1>0, <2>1, <3>3 DEF Chunked, Taken
      <4> QED
        BY <4>1 DEF HasChunks
    <3>4. CASE ~r.fileErrored /\ f \notin Sibs(r.cur)
      <4>1. r.cur \notin Sibs(f)
        BY <2>1, <3>4, Siblings
      <4> QED
        BY <3>1, <3>4, <4>1 DEF Left
    <3> QED
      BY <3>2, <3>3, <3>4
  <2>5. Chunked(r1)
    BY <2>2, <2>4 DEF Chunked, Taken
  <2>6. Dense(r1) /\ Weighed(r1)
    BY <1>0, <2>1, <2>2 DEF Dense, Weighed, Before
  <2> QED
    BY <2>3, <2>5, <2>6
<1>5. CASE BuildFails(p)
  <2>1. /\ r.pc \in {"delete", "insert"}
        /\ proc' = [proc EXCEPT ![p].pc = "docs", ![p].todo = {}, ![p].fileErrored = TRUE,
                                ![p].errs = @ \cup {"build"}]
    BY <1>5 DEF BuildFails
  <2>2. /\ r1.pc = "docs" /\ r1.files = r.files /\ r1.built = r.built /\ r1.job = r.job
        /\ r1.cur = r.cur /\ r1.docs = r.docs /\ r1.fileErrored
    BY <1>0, <1>1, <2>1 DEF ProcRow
  <2>3. Files(r1) /\ Chunked(r1)
    BY <1>0, <2>1, <2>2 DEF Files, Chunked, Taken
  <2>4. Dense(r1) /\ Weighed(r1)
    BY <1>0, <2>1, <2>2 DEF Dense, Weighed, Before
  <2> QED
    BY <2>3, <2>4
<1>6. CASE FilesDone(p) \/ ChooseEngine(p)
  <2>1. /\ r.pc \in {"files", "engine"} /\ r1.pc \in {"engine", "list"}
        /\ SameFiles(r, r1) /\ r1.job = r.job
    BY <1>0, <1>1, <1>6 DEF FilesDone, ChooseEngine, At, Goto, ProcRow, SameFiles
  <2>2. Files(r1) /\ Chunked(r1)
    BY <1>0, <2>1, FilesKept
  <2>3. Dense(r1) /\ Weighed(r1)
    BY <1>0, <2>1 DEF Dense, Weighed, Before
  <2> QED
    BY <2>2, <2>3
<1>7. CASE Stop(p)
  <2>1. r.pc = "reap" /\ r1.pc = "failed" /\ SameFiles(r, r1) /\ r1.job = r.job
    BY <1>0, <1>1, <1>7 DEF Stop, Goto, ProcRow, SameFiles
  <2>2. Files(r1) /\ Chunked(r1)
    BY <1>0, <2>1, FilesKept
  <2>3. Dense(r1) /\ Weighed(r1)
    BY <1>0, <2>1 DEF Dense, Weighed, Before
  <2> QED
    BY <2>2, <2>3
<1>8. CASE Start(p)
  <2>1. /\ r1.pc = "reap" /\ r1.files = {f \in File : ~indexed[f]} /\ r1.built = {}
        /\ r1.job = NoJob
    BY <1>0, <1>1, <1>8, ZenonT(60) DEF Start, IdleProc
  <2>2. Files(r1) /\ Chunked(r1)
    BY <1>0, <2>1, NothingBuilt
  <2>3. Dense(r1) /\ Weighed(r1)
    BY <2>1 DEF Dense, Weighed, Before, NoJob
  <2> QED
    BY <2>2, <2>3
<1>9. CASE Crash(p) \/ Finish(p)
  <2>1. /\ r1.pc \in {"crashed", "done", "failed"} /\ r1.files = {} /\ r1.built = {}
    BY <1>0, <1>1, <1>9, ZenonT(60) DEF Crash, Finish, IdleProc
  <2>2. Files(r1) /\ Chunked(r1)
    BY <1>0, <2>1, NothingBuilt
  <2>3. Dense(r1) /\ Weighed(r1)
    BY <2>1 DEF Dense, Weighed, Before
  <2> QED
    BY <2>2, <2>3
<1> QED
  BY <1>31, <1>3, <1>32, <1>4, <1>5, <1>6, <1>7, <1>8, <1>9

\* What the waits and the clean-up leave of a row.
LEMMA WaitFields ==
    ASSUME TypeOK, NEW p \in Proc, NEW failed \in BOOLEAN, NEW l, NEW unknown, NEW fails
    PROVE  LET r == proc[p] r1 == proc'[p]
           IN  /\ ToCleanup(p, failed) => /\ r1.pc = "rmkernel" /\ SameFiles(r, r1)
                                          /\ failed => "embed" \in r1.errs
                                          /\ ~failed => r1.errs = r.errs
               /\ NextWait(p, l) => /\ r1.pc = l /\ SameFiles(r, r1)
                                    /\ r1.job.missing = r.job.missing /\ r1.job.seen = r.job.seen
               /\ Sleep(p, unknown, fails) =>
                     /\ r1.pc = r.pc /\ SameFiles(r, r1)
                     /\ r1.job.missing = r.job.missing /\ r1.job.seen = r.job.seen
<1> DEFINE r == proc[p]
           r1 == proc'[p]
<1>0. proc \in [Proc -> ProcRow] /\ r \in ProcRow /\ r.job \in JobRow
  BY ProcTypes
<1>1. ASSUME ToCleanup(p, failed)
      PROVE  /\ r1.pc = "rmkernel" /\ SameFiles(r, r1)
             /\ failed => "embed" \in r1.errs
             /\ ~failed => r1.errs = r.errs
  BY <1>0, <1>1 DEF ToCleanup, ProcRow, SameFiles
<1>2. ASSUME NextWait(p, l)
      PROVE  /\ r1.pc = l /\ SameFiles(r, r1)
             /\ r1.job.missing = r.job.missing /\ r1.job.seen = r.job.seen
  <2>1. r1.pc = l /\ SameFiles(r, r1) /\ r1.job = NewWait(r.job)
    BY <1>0, <1>2 DEF NextWait, ProcRow, SameFiles
  <2> QED
    BY <1>0, <2>1, WaitTypes
<1>3. ASSUME Sleep(p, unknown, fails)
      PROVE  /\ r1.pc = r.pc /\ SameFiles(r, r1)
             /\ r1.job.missing = r.job.missing /\ r1.job.seen = r.job.seen
  BY <1>0, <1>3 DEF Sleep, ProcRow, JobRow, SameFiles
<1> QED
  BY <1>1, <1>2, <1>3

\* Nothing is pending when everything was seen.
LEMMA NonePending ==
    ASSUME NEW rows, NEW ids, \A i \in ids : Pending(rows, 1..Len(rows), i)
    PROVE  ids = {}
BY DEF Pending

\* The Kaggle job leaves the tables; it ends with the vectors or with an error.
LEMMA AloneJob ==
    ASSUME MarkInv, IndexInv', Alone, NEW p \in Proc,
           \/ UploadInput(p) \/ PollDataset(p) \/ PushKernel(p) \/ PollKernel(p) \/ Timeout(p)
           \/ DownloadOutput(p) \/ ParseFails(p) \/ ParseDone(p)
           \/ DeleteKernel(p) \/ DeleteDataset(p)
    PROVE  MarkInv'
<1> DEFINE r == proc[p]
<1>0. /\ proc \in [Proc -> ProcRow] /\ r \in ProcRow /\ r.job \in JobRow /\ TypeOK
      /\ Files(r) /\ Chunked(r) /\ Dense(r) /\ Weighed(r)
  BY ProcTypes DEF MarkInv, IndexInv
<1>1. PICK r1 : r1 = proc'[p]
  OBVIOUS
<1>2. UNCHANGED tables
  BY DEF UploadInput, PollDataset, PushKernel, PollKernel, Timeout, DownloadOutput, ParseFails,
         ParseDone, JobFails, DeleteKernel, DeleteDataset
<1> SUFFICES /\ r1.pc \notin {"docs", "delete", "insert", "reap", "weigh", "mark"} /\ SameFiles(r, r1)
             /\ Dense(r1)
  BY <1>0, <1>1, <1>2, FilesKept, AloneKeeps DEF Weighed
<1>3. CASE UploadInput(p)
  <2>1. PICK created \in BOOLEAN, ok \in BOOLEAN :
           /\ r.pc = "upload"
           /\ IF ok
              THEN proc' = [proc EXCEPT ![p].pc = "ready", ![p].job = [@ EXCEPT
                                        !.uploaded = TRUE, !.dataset = TRUE]]
              ELSE proc' = [proc EXCEPT ![p].pc = "train", ![p].errs = @ \cup {"embed"},
                               ![p].job = [NoJob EXCEPT !.dataset = created]]
    BY <1>3 DEF UploadInput, At
  <2>2. CASE ok
    <3> DEFINE j == [r.job EXCEPT !.uploaded = TRUE, !.dataset = TRUE]
    <3>2. j.missing = r.job.missing /\ j.seen = r.job.seen
      BY <1>0 DEF JobRow
    <3>3. proc' = [proc EXCEPT ![p].pc = "ready", ![p].job = j]
      BY <1>0, <2>1, <2>2, Zenon DEF ProcRow
    <3> HIDE DEF j
    <3>4. r1.pc = "ready" /\ SameFiles(r, r1) /\ r1.job = j
      BY <1>0, <1>1, <3>3 DEF ProcRow, SameFiles
    <3>1. /\ r1.pc = "ready" /\ SameFiles(r, r1)
          /\ r1.job.missing = r.job.missing /\ r1.job.seen = r.job.seen
      BY <3>2, <3>4
    <3> QED
      BY <1>0, <2>1, <3>1 DEF Dense, Before
  <2>3. CASE ~ok
    <3> DEFINE j == [NoJob EXCEPT !.dataset = created]
    <3>2. j.seen = {}
      BY DEF NoJob
    <3>3. proc' = [proc EXCEPT ![p].pc = "train", ![p].errs = @ \cup {"embed"}, ![p].job = j]
      BY <2>1, <2>3
    <3> HIDE DEF j
    <3>4. /\ r1.pc = "train" /\ SameFiles(r, r1) /\ "embed" \in r1.errs /\ r1.job = j
      BY <1>0, <1>1, <3>3 DEF ProcRow, SameFiles
    <3>1. /\ r1.pc = "train" /\ SameFiles(r, r1) /\ "embed" \in r1.errs /\ r1.job.seen = {}
      BY <3>2, <3>4
    <3> QED
      BY <3>1 DEF Dense, Before
  <2> QED
    BY <2>2, <2>3
<1>4. ASSUME ToCleanup(p, TRUE)
      PROVE  r1.pc = "rmkernel" /\ SameFiles(r, r1) /\ Dense(r1)
  <2>1. r1.pc = "rmkernel" /\ SameFiles(r, r1) /\ "embed" \in r1.errs
    BY <1>0, <1>1, <1>4, WaitFields
  <2> QED
    BY <2>1 DEF Dense, Before
<1>5. ASSUME NEW pc \in {"ready", "push", "kernel", "output", "parse"}, r1.pc = pc,
             r.pc \in {"ready", "push", "kernel", "output", "parse"},
             r1.job.missing = r.job.missing, r1.job.seen = r.job.seen
      PROVE  Dense(r1)
  BY <1>0, <1>5 DEF Dense, Before
<1>6. CASE PollDataset(p)
  <2>1. r.pc = "ready"
    BY <1>6 DEF PollDataset, At
  <2>2. CASE NextWait(p, "push")
    <3>1. /\ r1.pc = "push" /\ SameFiles(r, r1)
          /\ r1.job.missing = r.job.missing /\ r1.job.seen = r.job.seen
      BY <1>0, <1>1, <2>2, WaitFields
    <3> QED
      BY <1>5, <2>1, <3>1
  <2>3. CASE Sleep(p, TRUE, 0) \/ Sleep(p, FALSE, 0)
    BY <1>0, <1>1, <1>5, <2>1, <2>3, WaitFields
  <2> QED
    BY <1>4, <1>6, <2>2, <2>3 DEF PollDataset
<1>7. CASE PushKernel(p)
  <2>1. PICK created \in BOOLEAN, ok \in BOOLEAN :
           /\ r.pc = "push"
           /\ proc' = [proc EXCEPT ![p].pc = IF ok THEN "kernel" ELSE "rmkernel",
                                   ![p].job.kernel = created,
                                   ![p].errs = IF ok THEN @ ELSE @ \cup {"embed"}]
    BY <1>7 DEF PushKernel, At
  <2>2. /\ r1.pc = IF ok THEN "kernel" ELSE "rmkernel"
        /\ SameFiles(r, r1) /\ (~ok => "embed" \in r1.errs)
        /\ r1.job.missing = r.job.missing /\ r1.job.seen = r.job.seen
    BY <1>0, <1>1, <2>1 DEF ProcRow, JobRow, SameFiles
  <2> QED
    BY <1>0, <2>1, <2>2 DEF Dense, Before
<1>8. CASE PollKernel(p)
  <2>1. r.pc = "kernel"
    BY <1>8 DEF PollKernel, At
  <2>2. CASE NextWait(p, "output")
    <3>1. /\ r1.pc = "output" /\ SameFiles(r, r1)
          /\ r1.job.missing = r.job.missing /\ r1.job.seen = r.job.seen
      BY <1>0, <1>1, <2>2, WaitFields
    <3> QED
      BY <1>5, <2>1, <3>1
  <2>3. CASE Sleep(p, FALSE, r.job.fails + 1) \/ Sleep(p, FALSE, 0)
    BY <1>0, <1>1, <1>5, <2>1, <2>3, WaitFields
  <2> QED
    BY <1>4, <1>8, <2>2, <2>3 DEF PollKernel
<1>9. CASE Timeout(p) \/ ParseFails(p)
  BY <1>4, <1>9 DEF Timeout, ParseFails, JobFails
<1>10. CASE DownloadOutput(p)
  <2>1. CASE Goto(p, "parse")
    <3>1. r.pc = "output" /\ r1.pc = "parse" /\ SameFiles(r, r1) /\ r1.job = r.job
      BY <1>0, <1>1, <1>10, <2>1 DEF DownloadOutput, At, Goto, ProcRow, SameFiles
    <3> QED
      BY <1>5, <3>1
  <2> QED
    BY <1>4, <1>10, <2>1 DEF DownloadOutput
<1>11. CASE ParseDone(p)
  <2>1. r.pc = "parse" /\ r.job.seen = 1..Len(r.job.missing) /\ ToCleanup(p, FALSE)
    BY <1>11 DEF ParseDone, At
  <2>2. r1.pc = "rmkernel" /\ SameFiles(r, r1)
    BY <1>0, <1>1, <2>1, WaitFields
  <2>3. MissingEmbedding = {}
    BY <1>0, <2>1, NonePending DEF Dense
  <2> QED
    BY <2>2, <2>3 DEF Dense, Before
<1>12. CASE DeleteKernel(p)
  <2>0. PICK ok \in BOOLEAN :
           /\ r.pc = "rmkernel"
           /\ proc' = [proc EXCEPT ![p].pc = "rmdataset", ![p].job.tried = @ \cup {"kernel"},
                                   ![p].job.kernel = @ /\ ~ok]
    BY <1>12 DEF DeleteKernel, At
  <2>1. r.pc = "rmkernel" /\ r1.pc = "rmdataset" /\ SameFiles(r, r1) /\ r1.errs = r.errs
    BY <1>0, <1>1, <2>0 DEF ProcRow, SameFiles
  <2> QED
    BY <1>0, <2>1 DEF Dense, Before
<1>13. CASE DeleteDataset(p)
  <2>0. PICK ok \in BOOLEAN :
           /\ r.pc = "rmdataset"
           /\ proc' = [proc EXCEPT ![p].pc = "train", ![p].job.tried = @ \cup {"dataset"},
                                   ![p].job.dataset = @ /\ ~ok,
                                   ![p].job.missing = <<>>, ![p].job.seen = {}]
    BY <1>13 DEF DeleteDataset, At
  <2>2. /\ r1.pc = "train" /\ r1.errs = r.errs /\ r1.job.seen = {}
    BY <1>0, <1>1, <2>0, ZenonT(60) DEF ProcRow, JobRow
  <2>3. SameFiles(r, r1)
    BY <1>0, <1>1, <2>0 DEF ProcRow, SameFiles
  <2>1. /\ r.pc = "rmdataset" /\ r1.pc = "train" /\ SameFiles(r, r1) /\ r1.errs = r.errs
        /\ r1.job.seen = {}
    BY <2>0, <2>2, <2>3
  <2> QED
    BY <1>0, <2>1 DEF Dense, Before
<1> QED
  BY <1>3, <1>6, <1>7, <1>8, <1>9, <1>10, <1>11, <1>12, <1>13
\* Everything is pending when nothing was seen of a listing.
LEMMA AllPending ==
    ASSUME TypeOK, NEW ids \in SUBSET Rows, NEW rows \in Listing(ids), NEW i \in ids
    PROVE  Pending(rows, {}, i)
BY ListingRows DEF Pending

\* An initial segment is empty or has as many members as its last number.
LEMMA Segments ==
    /\ {} = 1..Cardinality({})
    /\ \A n \in Nat : IsFiniteSet(1..n) /\ Cardinality(1..n) = n
<1>1. Cardinality({}) = 0
  BY FS_EmptySet
<1>2. {} = 1..0
  OBVIOUS
<1>3. \A n \in Nat : IsFiniteSet(1..n) /\ Cardinality(1..n) = n
  BY FS_Interval
<1> QED
  BY <1>1, <1>2, <1>3

\* The other steps of the two global phases that leave the tables.
LEMMA AlonePhases ==
    ASSUME MarkInv, IndexInv', Alone, NEW p \in Proc,
           \/ ListMissing(p) \/ LocalDone(p) \/ EmbedFails(p)
           \/ Train(p) \/ SparseDone(p) \/ SparseFails(p)
    PROVE  MarkInv'
<1> DEFINE r == proc[p]
<1>0. /\ proc \in [Proc -> ProcRow] /\ r \in ProcRow /\ r.job \in JobRow /\ TypeOK
      /\ Files(r) /\ Chunked(r) /\ Dense(r) /\ Weighed(r)
  BY ProcTypes DEF MarkInv, IndexInv
<1>1. PICK r1 : r1 = proc'[p]
  OBVIOUS
<1>2. UNCHANGED tables
  BY DEF ListMissing, LocalDone, EmbedFails, Train, SparseDone, SparseFails, SparseOver
<1>3. MissingEmbedding \in SUBSET Rows /\ MissingSparse \in SUBSET Rows
  BY DEF MissingEmbedding, MissingSparse
<1> SUFFICES /\ r1.pc \notin {"docs", "delete", "insert"} /\ SameFiles(r, r1)
             /\ Dense(r1) /\ Weighed(r1)
  BY <1>0, <1>1, <1>2, FilesKept, AloneKeeps
<1>4. CASE ListMissing(p)
  <2> DEFINE pc == IF MissingEmbedding = {} THEN "train"
                   ELSE IF r.engine = "local" THEN "local" ELSE "upload"
  <2>0. PICK rows \in Listing(MissingEmbedding) :
           /\ proc' = [proc EXCEPT ![p].job.missing = rows, ![p].pc = pc]
           /\ r.pc = "list"
    BY <1>4 DEF ListMissing, At
  <2>1. pc \in {"train", "local", "upload"} /\ (pc = "train" => MissingEmbedding = {})
    OBVIOUS
  <2> HIDE DEF pc
  <2>2. r1.pc = pc /\ r1.job.missing = rows /\ r1.job.seen = r.job.seen
    BY <1>0, <1>1, <2>0 DEF ProcRow, JobRow
  <2>3. SameFiles(r, r1)
    BY <1>0, <1>1, <2>0 DEF ProcRow, SameFiles
  <2>4. r1.job.seen = {}
    BY <1>0, <2>0, <2>2 DEF Dense, Before
  <2>5. \A i \in MissingEmbedding : Pending(rows, {}, i)
    BY <1>0, <1>3, AllPending
  <2>6. Dense(r1)
    BY <2>1, <2>2, <2>4, <2>5, Segments DEF Dense
  <2> QED
    BY <2>1, <2>2, <2>3, <2>6 DEF Weighed
<1>5. CASE LocalDone(p) \/ EmbedFails(p)
  <2>0. PICK failed \in BOOLEAN :
           /\ EmbedOver(p, failed)
           /\ ~failed => r.pc = "local" /\ Cardinality(r.job.seen) = Len(r.job.missing)
    <3>1. CASE LocalDone(p)
      <4>1. /\ EmbedOver(p, FALSE) /\ r.pc = "local"
            /\ Cardinality(r.job.seen) = Len(r.job.missing)
        BY <3>1 DEF LocalDone, At
      <4> WITNESS FALSE \in BOOLEAN
      <4> QED
        BY <4>1
    <3>2. CASE EmbedFails(p)
      <4>1. EmbedOver(p, TRUE)
        BY <3>2 DEF EmbedFails
      <4> WITNESS TRUE \in BOOLEAN
      <4> QED
        BY <4>1
    <3> QED
      BY <1>5, <3>1, <3>2
  <2>1. /\ r1.pc = "train" /\ r1.job.seen = {}
        /\ failed => "embed" \in r1.errs
    BY <1>0, <1>1, <2>0 DEF EmbedOver, ProcRow, JobRow
  <2>2. SameFiles(r, r1)
    BY <1>0, <1>1, <2>0 DEF EmbedOver, ProcRow, SameFiles
  <2>3. failed \/ MissingEmbedding = {}
    <3> SUFFICES ASSUME ~failed PROVE MissingEmbedding = {}
      OBVIOUS
    <3>1. r.pc = "local" /\ r.job.seen = 1..Len(r.job.missing)
      BY <1>0, <2>0 DEF Dense
    <3> QED
      BY <1>0, <3>1, NonePending DEF Dense
  <2> QED
    BY <2>1, <2>2, <2>3 DEF Dense, Weighed, Before
<1>6. CASE Train(p)
  <2>0. PICK rows \in Listing(MissingSparse) :
           /\ proc' = [proc EXCEPT ![p].pc = "weigh", ![p].corpus = rows]
           /\ r.pc = "train"
    BY <1>6 DEF Train, At
  <2>1. /\ r1.pc = "weigh" /\ r1.corpus = rows /\ r1.job = r.job /\ r1.errs = r.errs
        /\ SameFiles(r, r1)
    BY <1>0, <1>1, <2>0 DEF ProcRow, SameFiles
  <2>2. r1.job.seen = {} /\ ("embed" \in r1.errs \/ MissingEmbedding = {})
    BY <1>0, <2>0, <2>1 DEF Dense
  <2>3. \A i \in MissingSparse : Pending(rows, {}, i)
    BY <1>0, <1>3, AllPending
  <2>4. Dense(r1)
    BY <2>1, <2>2, Segments DEF Dense, Before
  <2> QED
    BY <2>1, <2>2, <2>3, <2>4 DEF Weighed
<1>7. CASE SparseDone(p) \/ SparseFails(p)
  <2>0. PICK errs \in {{}, {"sparse"}} :
           /\ proc' = [proc EXCEPT ![p].pc = "mark", ![p].errs = @ \cup errs, ![p].corpus = <<>>,
                                   ![p].job.seen = {}]
           /\ r.pc \in {"train", "weigh"}
           /\ errs = {} => r.pc = "weigh" /\ Cardinality(r.job.seen) = Len(r.corpus)
    BY <1>7 DEF SparseDone, SparseFails, SparseOver, At
  <2>1. r1.pc = "mark" /\ r1.errs = r.errs \cup errs /\ SameFiles(r, r1)
    BY <1>0, <1>1, <2>0 DEF ProcRow, SameFiles
  <2>2. errs = {} => MissingSparse = {}
    <3> SUFFICES ASSUME errs = {} PROVE MissingSparse = {}
      OBVIOUS
    <3>1. r.pc = "weigh" /\ r.job.seen = 1..Len(r.corpus)
      BY <1>0, <2>0 DEF Dense
    <3> QED
      BY <1>0, <3>1, NonePending DEF Weighed
  <2>3. "embed" \in r.errs \/ MissingEmbedding = {}
    BY <1>0, <2>0 DEF Dense
  <2>4. Dense(r1)
    BY <2>1, <2>3 DEF Dense, Before
  <2>5. Weighed(r1)
    BY <2>0, <2>1, <2>2 DEF Weighed
  <2> QED
    BY <2>1, <2>4, <2>5
<1> QED
  BY <1>4, <1>5, <1>6, <1>7
\* The only process, in a step that changes the tables.
LEMMA AloneChanges ==
    ASSUME IndexInv', Alone, NEW p \in Proc, NEW r1, r1 = proc'[p], HolesWait',
           Files(r1)', Chunked(r1)', Dense(r1)', Weighed(r1)'
    PROVE  MarkInv'
<1>1. \A q \in Proc : q = p
  BY DEF Alone
<1>2. Files(proc[p])' /\ Chunked(proc[p])' /\ Dense(proc[p])' /\ Weighed(proc[p])'
  BY DEF Files, Chunked, Dense, Weighed
<1> QED
  BY <1>1, <1>2 DEF MarkInv

\* Of the chunks with the texts in question none is lost, nor any of its vectors.
Kept(T) == \A i \in Rows : chunk[i].text \in T =>
    /\ chunk'[i] # NULL /\ chunk'[i].text = chunk[i].text
    /\ chunk[i].vec # NULL => chunk'[i].vec # NULL
    /\ chunk[i].sparse # NULL => chunk'[i].sparse # NULL

\* So a text keeps its chunk, and a chunk that is whole stays it.
LEMMA KeptWhole ==
    ASSUME NEW T, Kept(T), NEW t \in T
    PROVE  (HasChunk(t) => HasChunk(t)') /\ (Whole(t) => Whole(t)')
<1>1. \A i \in Rows : chunk[i].text = t =>
        /\ i \in Rows' /\ chunk'[i].text = t
        /\ chunk[i].vec # NULL => chunk'[i].vec # NULL
        /\ chunk[i].sparse # NULL => chunk'[i].sparse # NULL
  BY DEF Kept, Rows
<1>2. HasChunk(t) => HasChunk(t)'
  BY <1>1 DEF HasChunk
<1>3. Whole(t) => Whole(t)'
  BY <1>1 DEF Whole
<1> QED
  BY <1>2, <1>3

\* A file stays complete when its chunks are kept, and waits otherwise.
LEMMA KeptComplete ==
    ASSUME HolesWait, UNCHANGED <<rev, indexed>>,
           \A f \in File : Kept(ListControlsForDocument(f)) \/ \E g \in Sibs(f) : ~indexed[g]
    PROVE  HolesWait'
<1> SUFFICES ASSUME NEW f \in File, \A g \in Sibs(f) : indexed[g] PROVE Complete(f)'
  BY DEF HolesWait, Sibs, ListDocumentsForVersion
<1>1. Complete(f) /\ Kept(ListControlsForDocument(f))
  BY DEF HolesWait, Sibs
<1>2. ListControlsForDocument(f)' = ListControlsForDocument(f)
  BY DEF ListControlsForDocument
<1>3. ASSUME NEW t \in ListControlsForDocument(f) PROVE Whole(t)'
  BY <1>1, <1>3, CompleteFile, KeptWhole
<1> QED
  BY <1>2, <1>3, CompleteFile

\* What is said of a row stays said while the chunks of every file are kept.
LEMMA KeptFiles ==
    ASSUME UNCHANGED <<rev, indexed>>, NEW r, Files(r), Chunked(r),
           \A f : Kept(ListControlsForDocument(f))
    PROVE  Files(r)' /\ Chunked(r)'
<1>1. Files(r)'
  BY DEF Files
<1>2. \A f : ListControlsForDocument(f)' = ListControlsForDocument(f) /\ Sibs(f)' = Sibs(f)
  BY DEF ListControlsForDocument, Sibs, ListDocumentsForVersion
<1>3. ASSUME NEW f, NEW t \in ListControlsForDocument(f), HasChunk(t) PROVE HasChunk(t)'
  BY <1>3, KeptWhole
<1>4. \A f : HasChunks(f) => HasChunks(f)'
  BY <1>2, <1>3 DEF HasChunks
<1>5. \A f : Left(r.built, f)' <=> Left(r.built, f)
  BY <1>2 DEF Left
<1> QED
  BY <1>1, <1>2, <1>3, <1>4, <1>5 DEF Chunked

\* Without normalizations every chunk is of the current text of its control.
LEMMA NoOrphan ==
    ASSUME TypeOK, Alone, NEW i \in Rows
    PROVE  Current(chunk[i].text)
<1>1. chunk[i].text \in Control \X (0..0)
  BY DEF TypeOK, Rows, ChunkRow, Text, Alone
<1>2. PICK f \in File : chunk[i].text[1] \in ControlsOf[f]
  BY <1>1 DEF Control
<1>3. FileOf(chunk[i].text[1]) \in File
  BY <1>2 DEF FileOf
<1> QED
  BY <1>1, <1>3 DEF Current, TypeOK, Alone

\* Reaping finds nothing.
LEMMA AloneReaps ==
    ASSUME MarkInv, IndexInv', Alone, NEW p \in Proc, ReapOrphans(p)
    PROVE  MarkInv'
<1> DEFINE r == proc[p]
<1>0. /\ proc \in [Proc -> ProcRow] /\ r \in ProcRow /\ TypeOK
      /\ Files(r) /\ Chunked(r) /\ Dense(r)
  BY ProcTypes DEF MarkInv, IndexInv
<1>1. PICK r1 : r1 = proc'[p]
  OBVIOUS
<1>2. {i \in Rows : ~Current(chunk[i].text)} = {}
  BY <1>0, NoOrphan
<1>3. chunk' = Without({})
  BY <1>2 DEF ReapOrphans
<1>4. chunk' = chunk
  BY <1>0, <1>3 DEF Without, TypeOK
<1>5. UNCHANGED tables
  BY <1>4 DEF ReapOrphans, tables
<1>6. r.pc = "reap" /\ r1.pc = "files" /\ SameFiles(r, r1) /\ r1.job = r.job
  BY <1>0, <1>1 DEF ReapOrphans, At, Goto, ProcRow, SameFiles
<1>7. Files(r1) /\ Chunked(r1)
  BY <1>0, <1>6, FilesKept
<1>8. Dense(r1) /\ Weighed(r1)
  BY <1>0, <1>6 DEF Dense, Weighed, Before
<1> QED
  BY <1>1, <1>5, <1>7, <1>8, AloneKeeps

\* The chunks of a document of the version are dropped; the file is not marked.
LEMMA AloneDeletes ==
    ASSUME MarkInv, IndexInv', Alone, NEW p \in Proc, DeleteChunksForControls(p)
    PROVE  MarkInv'
<1> DEFINE r == proc[p]
<1>0. /\ proc \in [Proc -> ProcRow] /\ r \in ProcRow /\ TypeOK /\ HasFile(r) /\ HolesWait
      /\ Files(r) /\ Chunked(r) /\ Dense(r)
  BY ProcTypes DEF MarkInv, IndexInv
<1>1. PICK r1 : r1 = proc'[p]
  OBVIOUS
<1>2. /\ r.pc = "delete" /\ r.cur \in File
      /\ chunk' = Without({i \in Rows : chunk[i].text \in r.todo})
      /\ UNCHANGED <<rev, indexed>>
  BY <1>0 DEF DeleteChunksForControls, At, HasFile, Taken
<1>21. PICK g \in Sibs(r.cur) : r.todo = ListControlsForDocument(g)
  BY <1>0, <1>2 DEF Chunked
<1>22. g \in File /\ r.cur \in Sibs(g)
  BY <1>2, <1>21, Siblings
<1>3. r1.pc = "insert" /\ SameFiles(r, r1) /\ r1.job = r.job
  BY <1>0, <1>1 DEF DeleteChunksForControls, At, Goto, ProcRow, SameFiles
<1>41. ASSUME NEW t, t \notin r.todo, HasChunk(t) PROVE HasChunk(t)'
  <2>1. PICK i \in Rows : chunk[i].text = t
    BY <1>41 DEF HasChunk
  <2>2. chunk'[i] = chunk[i] /\ i \in Rows'
    BY <1>2, <1>41, <2>1 DEF Without, Rows
  <2> QED
    BY <2>1, <2>2 DEF HasChunk
<1>4. ASSUME NEW f \in File, f # g PROVE Kept(ListControlsForDocument(f))
  <2>1. ListControlsForDocument(f) \cap r.todo = {}
    BY <1>21, <1>22, <1>4, OwnControls
  <2>2. ASSUME NEW i \in Rows, chunk[i].text \in ListControlsForDocument(f)
        PROVE  chunk'[i] = chunk[i] /\ chunk[i] # NULL
    BY <1>2, <2>1, <2>2 DEF Without, Rows
  <2> QED
    BY <2>2 DEF Kept
<1>5. r.cur \notin r.files \cup r.built /\ ~indexed[r.cur]
  BY <1>0, <1>2 DEF Files, Taken
<1>6. HolesWait'
  BY <1>0, <1>2, <1>22, <1>4, <1>5, KeptComplete
<1>7. Files(r1)'
  BY <1>0, <1>2, <1>3 DEF Files, SameFiles, Taken
<1>8. \A f : ListControlsForDocument(f)' = ListControlsForDocument(f) /\ Sibs(f)' = Sibs(f)
  BY <1>2 DEF ListControlsForDocument, Sibs, ListDocumentsForVersion
<1>9. Chunked(r1)'
  <2>1. ASSUME NEW f \in File PROVE (Left(r1.built, f) \/ HasChunks(f))'
    <3>0. r1.built = r.built
      BY <1>3 DEF SameFiles
    <3>1. CASE f = g
      BY <1>2, <1>8, <1>22, <1>5, <3>0, <3>1 DEF Left
    <3>2. CASE f # g /\ Left(r.built, f)
      BY <1>2, <1>8, <3>0, <3>2 DEF Left
    <3>3. CASE f # g /\ HasChunks(f)
      <4>1. ASSUME NEW t \in ListControlsForDocument(f) PROVE HasChunk(t)'
        BY <1>4, <3>3, <4>1, KeptWhole DEF HasChunks
      <4> QED
        BY <1>8, <4>1 DEF HasChunks
    <3> QED
      BY <1>0, <3>1, <3>2, <3>3 DEF Chunked
  <2>2. ASSUME ~r1.fileErrored, NEW h \in Sibs(r1.cur) \ r1.docs,
               NEW t \in ListControlsForDocument(h)
        PROVE  t \in r1.todo \/ HasChunk(t)'
    BY <1>0, <1>2, <1>3, <1>41, <2>2 DEF Chunked, SameFiles, Taken
  <2>3. r1.docs \subseteq Sibs(r1.cur)
    BY <1>0, <1>2, <1>3 DEF Chunked, SameFiles, Taken
  <2> QED
    BY <1>3, <1>8, <2>1, <2>2, <2>3 DEF Chunked, SameFiles, Taken
<1>10. Dense(r1)' /\ Weighed(r1)'
  BY <1>0, <1>2, <1>3 DEF Dense, Weighed, Before
<1> QED
  BY <1>1, <1>6, <1>7, <1>9, <1>10, AloneChanges

\* A control of the document gets its chunk.
LEMMA AloneInserts ==
    ASSUME MarkInv, IndexInv', Alone, NEW p \in Proc, InsertChunk(p)
    PROVE  MarkInv'
<1> DEFINE r == proc[p]
<1>0. /\ proc \in [Proc -> ProcRow] /\ r \in ProcRow /\ TypeOK /\ IdsFresh /\ HolesWait
      /\ Files(r) /\ Chunked(r) /\ Dense(r)
  BY ProcTypes DEF MarkInv, IndexInv
<1>1. PICK r1 : r1 = proc'[p]
  OBVIOUS
<1>2. PICK t \in r.todo : t = CHOOSE u \in r.todo : TRUE
  BY DEF InsertChunk
<1> DEFINE row == [text |-> t, vec |-> NULL, sparse |-> NULL]
<1>3. /\ r.pc = "insert" /\ nextId <= MaxId /\ UNCHANGED <<rev, indexed>>
      /\ chunk' = [chunk EXCEPT ![nextId] = row]
      /\ proc' = [proc EXCEPT ![p].todo = @ \ {t}]
  BY <1>2 DEF InsertChunk, At
<1>4. row # NULL
  <2>1. row \in ChunkRow
    BY <1>0, <1>2 DEF ProcRow, ChunkRow
  <2> QED
    BY <2>1, NullAssumption
<1>5. nextId \in Id /\ chunk[nextId] = NULL
  BY <1>0, <1>3, Bounds DEF TypeOK, Id, IdsFresh
<1>6. chunk \in [Id -> ChunkRow \cup {NULL}]
  BY <1>0 DEF TypeOK
<1>7. /\ \A i \in Rows : chunk'[i] = chunk[i] /\ chunk[i] # NULL
      /\ nextId \in Rows' /\ chunk'[nextId].text = t
  BY <1>3, <1>4, <1>5, <1>6 DEF Rows
<1>8. \A f : Kept(ListControlsForDocument(f))
  BY <1>7 DEF Kept
<1>9. /\ r1.pc = "insert" /\ r1.files = r.files /\ r1.built = r.built /\ r1.cur = r.cur
      /\ r1.docs = r.docs /\ r1.fileErrored = r.fileErrored
      /\ r1.todo = r.todo \ {t} /\ r1.job = r.job
  BY <1>0, <1>1, <1>3 DEF ProcRow
<1>10. HolesWait'
  BY <1>0, <1>3, <1>8, KeptComplete
<1>12. HasChunk(t)'
  BY <1>7 DEF HasChunk
<1>13. Files(r1)'
  BY <1>0, <1>3, <1>9 DEF Files, Taken
<1>14. \A f : ListControlsForDocument(f)' = ListControlsForDocument(f) /\ Sibs(f)' = Sibs(f)
  BY <1>3 DEF ListControlsForDocument, Sibs, ListDocumentsForVersion
<1>16. Chunked(r1)'
  <2>. PICK r0 : r0 = r
    OBVIOUS
  <2>0. Chunked(r0)'
    BY <1>0, <1>3, <1>8, KeptFiles
  <2>1. \A f \in File : (Left(r1.built, f) \/ HasChunks(f))'
    BY <1>9, <2>0 DEF Chunked, Left
  <2>2. ~r1.fileErrored => \A g \in Sibs(r1.cur)' \ r1.docs : \A u \in ListControlsForDocument(g)' :
           u \in r1.todo \/ HasChunk(u)'
    BY <1>3, <1>9, <1>12, <2>0 DEF Chunked, Taken
  <2>3. r1.docs \subseteq Sibs(r1.cur)'
    BY <1>3, <1>9, <2>0 DEF Chunked, Taken
  <2> QED
    BY <1>9, <2>1, <2>2, <2>3 DEF Chunked, Taken
<1>17. Dense(r1)' /\ Weighed(r1)'
  BY <1>0, <1>3, <1>9 DEF Dense, Weighed, Before
<1> QED
  BY <1>1, <1>10, <1>13, <1>16, <1>17, AloneChanges

\* What an upsert does to gold.chunk.
LEMMA UpsertRow ==
    ASSUME TypeOK, NEW p \in Proc, NEW k \in 1..Len(proc[p].job.missing), Upsert(k, p)
    PROVE  /\ UNCHANGED <<rev, indexed>>
           /\ MissingEmbedding' = MissingEmbedding \ {proc[p].job.missing[k].id}
           /\ MissingSparse' = MissingSparse
           /\ \A f : Kept(ListControlsForDocument(f))
<1> DEFINE row == proc[p].job.missing[k]
<1>0. chunk \in [Id -> ChunkRow \cup {NULL}] /\ row \in Listed
  BY ProcTypes DEF TypeOK, JobRow
<1> HIDE DEF row
<1>1. /\ row.id \in Rows /\ UNCHANGED <<rev, indexed>>
      /\ chunk' = [chunk EXCEPT ![row.id].vec = row.text]
  BY DEF Upsert, row
<1>2. row.id \in Id /\ row.text \in Text /\ row.text # NULL
  BY <1>0, NullAssumption DEF Listed
<1>3. chunk[row.id] \in ChunkRow
  BY <1>0, <1>1, <1>2 DEF Rows
<1>4. /\ chunk'[row.id] = [chunk[row.id] EXCEPT !.vec = row.text]
      /\ \A i \in Id : i # row.id => chunk'[i] = chunk[i]
  BY <1>0, <1>1, <1>2
<1>5. /\ chunk'[row.id] \in ChunkRow /\ chunk'[row.id].vec = row.text
      /\ chunk'[row.id].text = chunk[row.id].text /\ chunk'[row.id].sparse = chunk[row.id].sparse
  BY <1>2, <1>3, <1>4 DEF ChunkRow
<1>6. chunk'[row.id] # NULL
  BY <1>5, NullAssumption
<1>7. Rows' = Rows
  BY <1>1, <1>4, <1>6 DEF Rows
<1>8. MissingEmbedding' = MissingEmbedding \ {row.id}
  BY <1>2, <1>4, <1>5, <1>7 DEF MissingEmbedding, Rows
<1>9. MissingSparse' = MissingSparse
  BY <1>2, <1>4, <1>5, <1>7 DEF MissingSparse, Rows
<1>10. \A i \in Rows : /\ chunk'[i] # NULL /\ chunk'[i].text = chunk[i].text
                       /\ chunk[i].vec # NULL => chunk'[i].vec # NULL
                       /\ chunk[i].sparse # NULL => chunk'[i].sparse # NULL
  BY <1>2, <1>4, <1>5, <1>6 DEF Rows
<1>11. \A f : Kept(ListControlsForDocument(f))
  BY <1>10 DEF Kept
<1> QED
  BY <1>1, <1>8, <1>9, <1>11 DEF row

\* What weighing a chunk does to gold.chunk.
LEMMA WeighRow ==
    ASSUME TypeOK, NEW p \in Proc, NEW k \in 1..Len(proc[p].corpus), Weigh(p, k)
    PROVE  /\ UNCHANGED <<rev, indexed>>
           /\ MissingSparse' = MissingSparse \ {proc[p].corpus[k].id}
           /\ MissingEmbedding' = MissingEmbedding
           /\ \A f : Kept(ListControlsForDocument(f))
<1> DEFINE row == proc[p].corpus[k]
           T == Trained(p)
<1>0. chunk \in [Id -> ChunkRow \cup {NULL}] /\ row \in Listed
  BY ProcTypes DEF TypeOK, ProcRow
<1>1. T \in SUBSET Text /\ T # NULL
  <2>1. \A j \in 1..Len(proc[p].corpus) : proc[p].corpus[j] \in Listed
    BY ProcTypes DEF ProcRow
  <2>2. T \in SUBSET Text
    BY <2>1 DEF Trained, Listed
  <2> QED
    BY <2>2, NullAssumption
<1>2. /\ UNCHANGED <<rev, indexed>>
      /\ chunk' = IF row.id \in Rows THEN [chunk EXCEPT ![row.id].sparse = T] ELSE chunk
  BY DEF Weigh
<1> HIDE DEF row, T
<1>3. row.id \in Id
  BY <1>0 DEF Listed
<1>4. CASE row.id \in Rows
  <2>1. chunk[row.id] \in ChunkRow
    BY <1>0, <1>3, <1>4 DEF Rows
  <2>2. /\ chunk'[row.id] = [chunk[row.id] EXCEPT !.sparse = T]
        /\ \A i \in Id : i # row.id => chunk'[i] = chunk[i]
    BY <1>0, <1>2, <1>3, <1>4
  <2>3. /\ chunk'[row.id] \in ChunkRow /\ chunk'[row.id].sparse = T
        /\ chunk'[row.id].text = chunk[row.id].text /\ chunk'[row.id].vec = chunk[row.id].vec
    BY <1>1, <2>1, <2>2 DEF ChunkRow
  <2>4. chunk'[row.id] # NULL
    BY <2>3, NullAssumption
  <2>5. Rows' = Rows
    BY <1>4, <2>2, <2>4 DEF Rows
  <2>6. MissingSparse' = MissingSparse \ {row.id}
    BY <1>1, <1>3, <2>2, <2>3, <2>5 DEF MissingSparse, Rows
  <2>7. MissingEmbedding' = MissingEmbedding
    BY <1>3, <2>2, <2>3, <2>5 DEF MissingEmbedding, Rows
  <2>8. \A i \in Rows : /\ chunk'[i] # NULL /\ chunk'[i].text = chunk[i].text
                        /\ chunk[i].vec # NULL => chunk'[i].vec # NULL
                        /\ chunk[i].sparse # NULL => chunk'[i].sparse # NULL
    BY <1>1, <1>3, <2>2, <2>3, <2>4 DEF Rows
  <2>9. \A f : Kept(ListControlsForDocument(f))
    BY <2>8 DEF Kept
  <2> QED
    BY <1>2, <2>6, <2>7, <2>9 DEF row
<1>5. CASE row.id \notin Rows
  <2>1. chunk' = chunk
    BY <1>2, <1>5
  <2>2. MissingSparse' = MissingSparse /\ MissingEmbedding' = MissingEmbedding
    BY <2>1 DEF MissingSparse, MissingEmbedding, Rows
  <2>3. MissingSparse = MissingSparse \ {row.id}
    BY <1>5 DEF MissingSparse
  <2>4. \A f : Kept(ListControlsForDocument(f))
    BY <2>1 DEF Kept, Rows
  <2> QED
    BY <1>2, <2>2, <2>3, <2>4 DEF row
<1> QED
  BY <1>4, <1>5

\* The chunks are done one after the other.
LEMMA SegmentGrows ==
    ASSUME NEW seen, IsFiniteSet(seen), seen = 1..Cardinality(seen)
    PROVE  LET s == seen \cup {Cardinality(seen) + 1} IN s = 1..Cardinality(s)
<1> DEFINE n == Cardinality(seen)
           s == seen \cup {n + 1}
<1>1. n \in Nat
  BY FS_CardinalityType
<1>2. s = 1..(n + 1)
  BY <1>1
<1>3. Cardinality(1..(n + 1)) = n + 1
  BY <1>1, Segments
<1> QED
  BY <1>2, <1>3
\* A vector is stored, here or as the kernel's output is read.
LEMMA AloneUpserts ==
    ASSUME MarkInv, IndexInv', Alone, NEW p \in Proc,
           EmbedLocal(p) \/ \E k \in Id : ParseVector(p, k)
    PROVE  MarkInv'
<1> DEFINE r == proc[p]
<1>0. /\ proc \in [Proc -> ProcRow] /\ r \in ProcRow /\ r.job \in JobRow /\ TypeOK /\ HolesWait
      /\ IsFiniteSet(r.job.seen) /\ Files(r) /\ Chunked(r) /\ Dense(r)
  BY ProcTypes DEF MarkInv, IndexInv, JobState
<1>1. PICK r1 : r1 = proc'[p]
  OBVIOUS
<1>2. PICK k \in 1..Len(r.job.missing) :
         /\ Upsert(k, p)
         /\ proc' = [proc EXCEPT ![p].job.seen = @ \cup {k}]
         /\ r.pc \in {"local", "parse"}
         /\ r.pc = "local" => k = Cardinality(r.job.seen) + 1
  <2>1. CASE EmbedLocal(p)
    <3> DEFINE n == Cardinality(r.job.seen) + 1
    <3>1. n \in 1..Len(r.job.missing)
      <4>1. Cardinality(r.job.seen) \in Nat
        BY <1>0, FS_CardinalityType
      <4>2. Len(r.job.missing) \in Nat
        BY <1>0 DEF JobRow
      <4>3. n <= Len(r.job.missing)
        BY <2>1 DEF EmbedLocal
      <4> QED
        BY <4>1, <4>2, <4>3
    <3>2. /\ Upsert(n, p) /\ r.pc = "local"
          /\ proc' = [proc EXCEPT ![p].job.seen = @ \cup {n}]
      BY <2>1 DEF EmbedLocal, At
    <3> HIDE DEF n
    <3>3. n = Cardinality(r.job.seen) + 1
      BY DEF n
    <3> QED
      BY <3>1, <3>2, <3>3
  <2>2. CASE \E k \in Id : ParseVector(p, k)
    BY <2>2 DEF ParseVector, At
  <2> QED
    BY <2>1, <2>2
<1>3. /\ UNCHANGED <<rev, indexed>>
      /\ MissingEmbedding' = MissingEmbedding \ {r.job.missing[k].id}
      /\ \A f : Kept(ListControlsForDocument(f))
  BY <1>0, <1>2, UpsertRow
<1>4. /\ r1.pc = r.pc /\ SameFiles(r, r1) /\ r1.job.missing = r.job.missing
      /\ r1.job.seen = r.job.seen \cup {k}
  BY <1>0, <1>1, <1>2 DEF ProcRow, JobRow, SameFiles
<1>5. HolesWait'
  BY <1>0, <1>3, KeptComplete
<1>6. Files(r1)' /\ Chunked(r1)'
  <2>1. Files(r1) /\ Chunked(r1)
    BY <1>0, <1>2, <1>4, FilesKept
  <2> QED
    BY <1>3, <2>1, KeptFiles
<1>7. Dense(r1)'
  <2>1. \A i \in MissingEmbedding : Pending(r.job.missing, r.job.seen, i)
    BY <1>0, <1>2 DEF Dense
  <2>4. \A i \in MissingEmbedding \ {r.job.missing[k].id} : Pending(r.job.missing, r.job.seen \cup {k}, i)
    BY <2>1 DEF Pending
  <2>2. \A i \in MissingEmbedding' : Pending(r1.job.missing, r1.job.seen, i)
    BY <1>3, <1>4, <2>4
  <2>3. r1.pc = "local" => r1.job.seen = 1..Cardinality(r1.job.seen)
    BY <1>0, <1>2, <1>4, SegmentGrows DEF Dense
  <2> QED
    BY <1>2, <1>4, <2>2, <2>3 DEF Dense, Before
<1>8. Weighed(r1)'
  BY <1>2, <1>4 DEF Weighed
<1> QED
  BY <1>1, <1>5, <1>6, <1>7, <1>8, AloneChanges

\* A chunk is weighed.
LEMMA AloneWeighs ==
    ASSUME MarkInv, IndexInv', Alone, NEW p \in Proc,
           NEW k \in 1..Len(proc[p].corpus), Weigh(p, k)
    PROVE  MarkInv'
<1> DEFINE r == proc[p]
<1>0. /\ proc \in [Proc -> ProcRow] /\ r \in ProcRow /\ r.job \in JobRow /\ TypeOK /\ HolesWait
      /\ IsFiniteSet(r.job.seen) /\ Files(r) /\ Chunked(r) /\ Dense(r) /\ Weighed(r)
  BY ProcTypes DEF MarkInv, IndexInv, JobState
<1>1. PICK r1 : r1 = proc'[p]
  OBVIOUS
<1>2. /\ r.pc = "weigh" /\ k = Cardinality(r.job.seen) + 1
      /\ proc' = [proc EXCEPT ![p].job.seen = @ \cup {k}]
  BY DEF Weigh, At
<1>3. /\ UNCHANGED <<rev, indexed>>
      /\ MissingSparse' = MissingSparse \ {r.corpus[k].id}
      /\ MissingEmbedding' = MissingEmbedding
      /\ \A f : Kept(ListControlsForDocument(f))
  BY <1>0, WeighRow
<1>4. /\ r1.pc = "weigh" /\ SameFiles(r, r1) /\ r1.corpus = r.corpus /\ r1.errs = r.errs
      /\ r1.job.seen = r.job.seen \cup {k}
  BY <1>0, <1>1, <1>2 DEF ProcRow, JobRow, SameFiles
<1>5. HolesWait'
  BY <1>0, <1>3, KeptComplete
<1>6. Files(r1)' /\ Chunked(r1)'
  <2>1. Files(r1) /\ Chunked(r1)
    BY <1>0, <1>4, FilesKept
  <2> QED
    BY <1>3, <2>1, KeptFiles
<1>7. Dense(r1)'
  <2>1. r1.job.seen = 1..Cardinality(r1.job.seen)
    BY <1>0, <1>2, <1>4, SegmentGrows DEF Dense
  <2>2. "embed" \in r1.errs \/ MissingEmbedding' = {}
    BY <1>0, <1>2, <1>3, <1>4 DEF Dense
  <2> QED
    BY <1>4, <2>1, <2>2 DEF Dense, Before
<1>8. Weighed(r1)'
  <2>1. \A i \in MissingSparse : Pending(r.corpus, r.job.seen, i)
    BY <1>0, <1>2 DEF Weighed
  <2>3. \A i \in MissingSparse \ {r.corpus[k].id} : Pending(r.corpus, r.job.seen \cup {k}, i)
    BY <2>1 DEF Pending
  <2>2. \A i \in MissingSparse' : Pending(r1.corpus, r1.job.seen, i)
    BY <1>3, <1>4, <2>3
  <2> QED
    BY <1>4, <2>2 DEF Weighed
<1> QED
  BY <1>1, <1>5, <1>6, <1>7, <1>8, AloneChanges

\* A file is marked after both phases: its chunks miss nothing.
LEMMA AloneMarks ==
    ASSUME MarkInv, IndexInv', Alone, NEW p \in Proc, MarkIndexed(p)
    PROVE  MarkInv'
<1> DEFINE r == proc[p]
<1>0. /\ proc \in [Proc -> ProcRow] /\ r \in ProcRow /\ r.job \in JobRow /\ TypeOK /\ HolesWait
      /\ Files(r) /\ Chunked(r) /\ Dense(r) /\ Weighed(r)
  BY ProcTypes DEF MarkInv, IndexInv
<1>1. PICK r1 : r1 = proc'[p]
  OBVIOUS
<1>2. PICK f \in r.built, ok \in BOOLEAN :
         /\ r.pc = "mark" /\ GlobalPhaseOK(p)
         /\ indexed' = [indexed EXCEPT ![f] = @ \/ ok]
         /\ proc' = [proc EXCEPT ![p].built = @ \ {f},
                                 ![p].errs = IF ok THEN @ ELSE @ \cup {"build"}]
         /\ UNCHANGED <<rev, chunk, nextId>>
  BY DEF MarkIndexed, At
<1>3. f \in File /\ indexed \in [File -> BOOLEAN]
  BY <1>0 DEF ProcRow, TypeOK
<1>4. MissingEmbedding = {} /\ MissingSparse = {}
  BY <1>0, <1>2 DEF GlobalPhaseOK, Dense, Weighed
<1>5. ASSUME NEW t, HasChunk(t) PROVE Whole(t)
  BY <1>4, <1>5 DEF HasChunk, Whole, MissingEmbedding, MissingSparse
<1>6. ASSUME NEW g \in File, HasChunks(g) PROVE Complete(g)
  BY <1>5, <1>6, CompleteFile DEF HasChunks
<1>7. \A g \in File : Complete(g)' <=> Complete(g)
  BY <1>2 DEF Complete, Rows
<1>8. \A g \in File : indexed'[g] => indexed[g] \/ g = f
  BY <1>2, <1>3
<1>12. /\ \A g : ListControlsForDocument(g)' = ListControlsForDocument(g) /\ Sibs(g)' = Sibs(g)
       /\ \A t : HasChunk(t)' <=> HasChunk(t)
  BY <1>2 DEF ListControlsForDocument, Sibs, ListDocumentsForVersion, HasChunk, Rows
<1>9. ASSUME NEW h \in File
      PROVE  HasChunks(h) \/ \E g \in Sibs(h) : ~indexed'[g] /\ g \notin r.built
  <2>1. CASE Left(r.built, h)
    <3>1. PICK g \in Sibs(h) : ~indexed[g] /\ g \notin r.built
      BY <2>1 DEF Left
    <3>2. g \in File /\ ~indexed'[g]
      BY <1>2, <1>8, <3>1, Siblings
    <3> QED
      BY <3>1, <3>2
  <2> QED
    BY <1>0, <2>1 DEF Chunked
<1>91. HolesWait'
  <2> SUFFICES ASSUME NEW h \in File PROVE Complete(h)' \/ \E g \in Sibs(h) : ~indexed'[g]
    BY <1>12 DEF HolesWait, Sibs
  <2> QED
    BY <1>6, <1>7, <1>9
<1>10. /\ r1.pc = "mark" /\ r1.files = r.files /\ r1.built = r.built \ {f}
       /\ r.errs \subseteq r1.errs
  BY <1>0, <1>1, <1>2 DEF ProcRow
<1>11. Files(r1)'
  BY <1>0, <1>2, <1>3, <1>8, <1>10 DEF Files, ProcRow, Taken
<1>13. Chunked(r1)'
  <2>1. ASSUME NEW h \in File PROVE (Left(r1.built, h) \/ HasChunks(h))'
    BY <1>9, <1>10, <1>12 DEF Left, HasChunks
  <2> QED
    BY <1>10, <2>1 DEF Chunked, Taken
<1>14. MissingEmbedding' = {} /\ MissingSparse' = {}
  BY <1>2, <1>4 DEF MissingEmbedding, MissingSparse, Rows
<1>15. Dense(r1)' /\ Weighed(r1)'
  BY <1>10, <1>14 DEF Dense, Weighed, Before
<1> QED
  BY <1>1, <1>91, <1>11, <1>13, <1>15, AloneChanges

\* When one process runs the stage at a time and nothing is normalized beside it,
\* a file with a control that has no chunk with both vectors waits for the stage, or
\* a file of its version does, with any statement and any phase failing and the
\* process killed and started again at any point.
THEOREM IncompleteFilesWait == Alone => (Spec => []HolesWait)
<1> SUFFICES ASSUME Alone PROVE Spec => []HolesWait
  OBVIOUS
<1>1. Init => MarkInv
  <2> SUFFICES ASSUME Init PROVE MarkInv
    OBVIOUS
  <2>1. IndexInv
    BY IndexInit
  <2>2. HolesWait
    BY Siblings DEF Init, HolesWait, Sibs
  <2>3. ASSUME NEW p \in Proc PROVE proc[p] = IdleProc
    BY DEF Init
  <2>4. \A f \in File : ~indexed[f]
    BY DEF Init
  <2>5. Files(IdleProc) /\ Chunked(IdleProc)
    BY <2>2, NothingBuilt DEF IdleProc
  <2>6. Dense(IdleProc) /\ Weighed(IdleProc)
    BY DEF Dense, Weighed, Before, IdleProc
  <2> QED
    BY <2>1, <2>2, <2>3, <2>5, <2>6 DEF MarkInv
<1>2. MarkInv /\ [Next]_vars => MarkInv'
  <2> SUFFICES ASSUME MarkInv, [Next]_vars PROVE MarkInv'
    OBVIOUS
  <2>0. IndexInv'
    <3>1. CASE UNCHANGED vars
      BY <3>1 DEF MarkInv, vars, IndexInv, TypeOK, IdsFresh, VectorOfText, SparseKnowsText, Rows, Truthful
    <3>2. CASE Next
      BY <3>2, StepKeeps, NormalizeKeeps DEF Next, MarkInv
    <3> QED
      BY <3>1, <3>2
  <2>1. CASE UNCHANGED vars
    <3>1. UNCHANGED tables
      BY <2>1 DEF vars, tables
    <3>2. ASSUME NEW p \in Proc PROVE MarkInv'
      <4>1. PICK r1 : r1 = proc'[p]
        OBVIOUS
      <4>2. Files(r1) /\ Chunked(r1) /\ Dense(r1) /\ Weighed(r1)
        BY <2>1, <4>1 DEF vars, MarkInv
      <4> QED
        BY <2>0, <3>1, <4>1, <4>2, AloneKeeps
    <3>3. HolesWait'
      BY <3>1, SameTables DEF MarkInv
    <3> QED
      BY <2>0, <3>2, <3>3 DEF MarkInv
  <2>2. ASSUME NEW f \in File, Normalize(f) PROVE FALSE
    BY <2>2 DEF Normalize, MarkInv, IndexInv, TypeOK, Alone
  <2>3. ASSUME NEW p \in Proc, Start(p) \/ Crash(p) \/ Step(p) PROVE MarkInv'
    BY <2>0, <2>3, AloneReaps, AloneBuilds, AloneDeletes, AloneInserts, AloneJob, AlonePhases,
       AloneUpserts, AloneWeighs, AloneMarks DEF Step
  <2> QED
    BY <2>1, <2>2, <2>3 DEF Next
<1>3. MarkInv => HolesWait
  BY DEF MarkInv
<1> QED
  BY <1>1, <1>2, <1>3, PTL DEF Spec
=============================================================================
