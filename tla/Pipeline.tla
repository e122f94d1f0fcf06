------------------------------ MODULE Pipeline ------------------------------
(***************************************************************************)
(* The ingestion pipeline of compliary: cmd/pipeline and its stages        *)
(* manifest, extract, normalize, index and lexindex, over the tables       *)
(* ingest.manifest_file, bronze.raw_extract, silver.document,              *)
(* silver.control and gold.chunk.                                          *)
(*                                                                         *)
(* No stage runs in a transaction: every statement commits by itself, so   *)
(* an error or a crash between two statements leaves what the first ones   *)
(* wrote.  The operator edits data/ at any time and runs the stages in any *)
(* order.  The bytes of a file stand for their sha256.                     *)
(***************************************************************************)
EXTENDS Integers, Sequences, FiniteSets

CONSTANTS File,       \* paths under data/ that match a rule with a parsed role
          Content,    \* what a file may hold
          Held,       \* what may be found at each path: content, or one of the
                      \* two below that are not
          Doc,        \* document keys: version, role and qualifier
          DocOf,      \* [File -> Doc], from config.file_rule
          FormatOf,   \* [File -> file_format]
          RoleOf,     \* [Doc -> doc_role]
          VersionOf,  \* [Doc -> framework version]
          Commands,   \* the stage lists the operator runs
          NULL,       \* no file; no row
          Unreadable, \* a file that cannot be read
          Unhashed    \* the sha256 "" recorded for it

Role == {"main", "amendment", "companion-workbook"}

Stage == {"manifest", "extract", "normalize", "index", "lexindex"}

\* What cmd/pipeline runs without -stage.
DefaultStages == <<"manifest", "extract", "normalize">>

ASSUME FileAssumption ==
    /\ DocOf \in [File -> Doc]
    /\ DOMAIN FormatOf = File
    /\ RoleOf \in [Doc -> Role]
    /\ DOMAIN VersionOf = Doc
    /\ {NULL, Unreadable, Unhashed} \cap Content = {}
    /\ Held \in [File -> SUBSET (Content \cup {NULL, Unreadable})]
    /\ Commands \subseteq {DefaultStages} \cup {<<stage>> : stage \in Stage}
    /\ NULL # Unreadable /\ NULL # Unhashed /\ NULL \notin File \cup Doc

VARIABLES disk,     \* data/: per path its bytes, Unreadable or NULL
          man,      \* ingest.manifest_file
          capture,  \* bronze: per path and sha256, the bytes extracted
          doc,      \* silver.document: its source_file_sha256
          tree,     \* silver.control: the rows of a document
          chunk,    \* gold.chunk and its vectors: the chunks of a document
          run       \* the pipeline process

vars == <<disk, man, capture, doc, tree, chunk, run>>
store == <<man, capture, doc, tree, chunk>>

Sha == Content \cup {Unhashed}

\* extracted, normalized, indexed: the stage timestamps are set.  ambiguous:
\* stage_error says so; its other texts are read by nobody and left out.
ManRow == [sha: Sha, status: {"active", "removed"}, extracted: BOOLEAN,
           normalized: BOOLEAN, indexed: BOOLEAN, ambiguous: BOOLEAN]

\* src: the bytes parsed; full: every control of the parse is inserted.
TreeRow == [src: Content, full: BOOLEAN]

\* live: the controls these chunks were built from still exist; dense, sparse:
\* every chunk has its embedding, its BM25 vector.  Orphans wait to be reaped.
ChunkRow == [live: BOOLEAN, full: BOOLEAN, dense: BOOLEAN, sparse: BOOLEAN]
Orphan == [live |-> FALSE, full |-> FALSE, dense |-> FALSE, sparse |-> FALSE]
Live(d) == chunk[d] # NULL /\ chunk[d].live

ASSUME NullAssumption == NULL \notin ManRow \cup TreeRow \cup ChunkRow

\* A run: its stage and the stages after it (none once a file failed), where it is
\* in the stage, the files still to do, the files the walk found, the current file,
\* the files done, and for the index stage the documents to rebuild and the one
\* being rebuilt.
Idle == [stage |-> "idle"]
RunRow == [stage: Stage, rest: Seq(Stage),
           pc: {"file", "demote", "mark", "delete", "insert", "build", "sparse",
                "stamp", "end"},
           todo: SUBSET File, seen: SUBSET File, cur: File \cup {NULL},
           good: SUBSET File, docs: SUBSET Doc, build: Doc \cup {NULL}]

TypeOK ==
    /\ disk \in [File -> UNION {Held[f] : f \in File}]
    /\ man \in [File -> ManRow \cup {NULL}]
    /\ capture \in [File -> [Sha -> Content \cup {NULL}]]
    /\ doc \in [Doc -> Sha \cup {NULL}]
    /\ tree \in [Doc -> TreeRow \cup {NULL}]
    /\ chunk \in [Doc -> ChunkRow \cup {NULL}]
    /\ run \in RunRow \cup {Idle}

Init ==
    /\ disk \in {dir \in [File -> UNION {Held[f] : f \in File}] :
                    \A f \in File : dir[f] \in Held[f]}
    /\ man = [f \in File |-> NULL]
    /\ capture = [f \in File |-> [s \in Sha |-> NULL]]
    /\ doc = [d \in Doc |-> NULL]
    /\ tree = [d \in Doc |-> NULL]
    /\ chunk = [d \in Doc |-> NULL]
    /\ run = Idle

-----------------------------------------------------------------------------
(* Queries.                                                                *)

Active(f) == man[f] # NULL /\ man[f].status = "active"

ListFilesToExtract   == {f \in File : Active(f) /\ ~man[f].extracted}
ListFilesToNormalize == {f \in File : Active(f) /\ man[f].extracted /\ ~man[f].normalized}
ListFilesToIndex     == {f \in File : Active(f) /\ man[f].normalized /\ ~man[f].indexed}

Version(f) == VersionOf[DocOf[f]]
Documents(version) == {d \in Doc : doc[d] # NULL /\ VersionOf[d] = version}

\* Mutant of Upserted: the new hash is stored and the stages are kept.
MutKeepStages(f, sha) ==
    IF man[f] # NULL
    THEN [man[f] EXCEPT !.status = "active", !.sha = sha]
    ELSE [sha |-> sha, status |-> "active", extracted |-> FALSE,
          normalized |-> FALSE, indexed |-> FALSE, ambiguous |-> FALSE]

\* A new hash resets the stages; the same hash keeps them, and stage_error too.
Upserted(f, sha) ==
    IF man[f] # NULL /\ man[f].sha = sha
    THEN [man[f] EXCEPT !.status = "active"]
    ELSE [sha |-> sha, status |-> "active", extracted |-> FALSE,
          normalized |-> FALSE, indexed |-> FALSE, ambiguous |-> FALSE]

-----------------------------------------------------------------------------
(* cmd/pipeline: one stage, or manifest, extract and normalize in a row.    *)

\* What a stage lists when it starts: the walk of data/, or its eligible rows.
Listed(stage) ==
    CASE stage = "manifest"  -> {f \in File : disk[f] # NULL}
      [] stage = "extract"   -> ListFilesToExtract
      [] stage = "normalize" -> ListFilesToNormalize
      [] stage = "index"     -> ListFilesToIndex
      [] OTHER -> {}

Enter(stages) ==
    [stage |-> Head(stages), rest |-> Tail(stages), pc |-> "file",
     todo |-> Listed(Head(stages)), seen |-> IF Head(stages) = "manifest" THEN Listed("manifest") ELSE {},
     cur |-> NULL, good |-> {}, docs |-> {}, build |-> NULL]

Start(stages) ==
    /\ run = Idle
    /\ run' = Enter(stages)
    /\ UNCHANGED <<disk, store>>

\* The loop of extract or normalize is over, or the stage has come to its end.
StageOver ==
    /\ run # Idle
    /\ \/ run.pc = "end"
       \/ run.stage \in {"extract", "normalize"} /\ run.pc = "file" /\ run.todo = {}

Leave ==
    /\ StageOver
    /\ run' = IF run.rest = <<>> THEN Idle ELSE Enter(run.rest)
    /\ UNCHANGED <<disk, store>>

\* The loop over the files of a stage turns to f.
Turn(stage, f) ==
    run # Idle /\ run.stage = stage /\ run.pc = "file" /\ run.cur = NULL /\ f \in run.todo

\* The stage is at step pc of file f.
At(stage, pc, f) ==
    run # Idle /\ run.stage = stage /\ run.pc = pc /\ run.cur = f

Step(pc, f) == run' = [run EXCEPT !.pc = pc, !.cur = f]
FileDone(f) == run' = [run EXCEPT !.pc = "file", !.cur = NULL, !.todo = @ \ {f}]

\* SetStageError; the loop goes on with the next file, and the pipeline stops
\* after this stage.
FileFailed(f) ==
    /\ man' = [man EXCEPT ![f].ambiguous = FALSE]
    /\ run' = [run EXCEPT !.pc = "file", !.cur = NULL, !.todo = @ \ {f}, !.rest = <<>>]

-----------------------------------------------------------------------------
(* manifest: Scanner.Scan.                                                  *)

ScanFile(f) ==
    /\ Turn("manifest", f)
    /\ IF disk[f] \in Content
       THEN /\ man' = [man EXCEPT ![f] = Upserted(f, disk[f])]
            /\ run' = [run EXCEPT !.todo = @ \ {f}, !.good = @ \cup {f}]
       ELSE /\ man' = [man EXCEPT ![f] = [Upserted(f, Unhashed) EXCEPT !.ambiguous = FALSE]]
            /\ run' = [run EXCEPT !.todo = @ \ {f}, !.rest = <<>>]
    /\ UNCHANGED <<disk, capture, doc, tree, chunk>>

SameDocument(f, g) == DocOf[f] = DocOf[g] /\ FormatOf[f] = FormatOf[g]
Ambiguous(files) == {f \in files : \E g \in files \ {f} : SameDocument(f, g)}

ScanAmbiguity ==
    LET amb == Ambiguous(run.good)
    IN  /\ run # Idle /\ run.stage = "manifest" /\ run.pc = "file" /\ run.todo = {}
        /\ man' = [f \in File |-> IF f \in amb THEN [man[f] EXCEPT !.ambiguous = TRUE]
                                               ELSE man[f]]
        /\ run' = [run EXCEPT !.pc = "demote", !.rest = IF amb = {} THEN @ ELSE <<>>]
        /\ UNCHANGED <<disk, capture, doc, tree, chunk>>

\* Nothing is demoted when the walk found nothing.
ScanDemote ==
    /\ run # Idle /\ run.stage = "manifest" /\ run.pc = "demote"
    /\ man' = [f \in File |-> IF run.seen # {} /\ Active(f) /\ f \notin run.seen
                              THEN [man[f] EXCEPT !.status = "removed"] ELSE man[f]]
    /\ run' = [run EXCEPT !.pc = "end"]
    /\ UNCHANGED <<disk, capture, doc, tree, chunk>>

-----------------------------------------------------------------------------
(* extract: Extractor.Run.  The file is read again, and captured under the *)
(* hash the manifest has for it.                                           *)

\* Mutant of ExtractCapture: a read error is not looked at.
MutCaptureAnything(f) ==
    /\ Turn("extract", f)
    /\ capture' = [capture EXCEPT ![f][man[f].sha] = disk[f]]
    /\ Step("mark", f)
    /\ UNCHANGED <<disk, man, doc, tree, chunk>>

ExtractCapture(f) ==
    /\ Turn("extract", f)
    /\ disk[f] \in Content
    /\ capture' = [capture EXCEPT ![f][man[f].sha] = disk[f]]
    /\ Step("mark", f)
    /\ UNCHANGED <<disk, man, doc, tree, chunk>>

MarkExtracted(f) ==
    /\ At("extract", "mark", f)
    /\ man' = [man EXCEPT ![f].extracted = TRUE, ![f].ambiguous = FALSE]
    /\ FileDone(f)
    /\ UNCHANGED <<disk, capture, doc, tree, chunk>>

ExtractUnreadable(f) ==
    /\ Turn("extract", f)
    /\ disk[f] \notin Content
    /\ FileFailed(f)
    /\ UNCHANGED <<disk, capture, doc, tree, chunk>>

\* The bytes are not what the format promises, or the database refuses.
ExtractFail(f) ==
    /\ (Turn("extract", f) /\ disk[f] \in Content) \/ At("extract", "mark", f)
    /\ FileFailed(f)
    /\ UNCHANGED <<disk, capture, doc, tree, chunk>>

-----------------------------------------------------------------------------
(* normalize: Normalizer.Run and writeTree.                                 *)

\* Amendments wait for the main document of their version; companion
\* workbooks are never parsed.
Deferred(f) ==
    CASE RoleOf[DocOf[f]] = "main" -> FALSE
      [] RoleOf[DocOf[f]] = "amendment" ->
            \A d \in Documents(Version(f)) : RoleOf[d] # "main"
      [] OTHER -> TRUE

NormalizeSkip(f) ==
    /\ Turn("normalize", f)
    /\ Deferred(f)
    /\ FileDone(f)
    /\ UNCHANGED <<disk, store>>

\* The capture parses; UpsertDocument.
NormalizeDocument(f) ==
    /\ Turn("normalize", f)
    /\ ~Deferred(f)
    /\ capture[f][man[f].sha] # NULL
    /\ doc' = [doc EXCEPT ![DocOf[f]] = man[f].sha]
    /\ Step("delete", f)
    /\ UNCHANGED <<disk, man, capture, tree, chunk>>

\* DeleteControlsForDocument orphans the chunks of the document.
NormalizeDelete(f) ==
    /\ At("normalize", "delete", f)
    /\ tree' = [tree EXCEPT ![DocOf[f]] = NULL]
    /\ chunk' = [chunk EXCEPT ![DocOf[f]] =
                   IF @ = NULL THEN NULL ELSE Orphan]
    /\ Step("insert", f)
    /\ UNCHANGED <<disk, man, capture, doc>>

\* Mutant of NormalizeInsert: the row is marked after the first controls.
MutMarkEarly(f, full) ==
    /\ At("normalize", "insert", f)
    /\ tree[DocOf[f]] # NULL => full
    /\ tree' = [tree EXCEPT ![DocOf[f]] = [src |-> capture[f][man[f].sha], full |-> full]]
    /\ Step("mark", f)
    /\ UNCHANGED <<disk, man, capture, doc, chunk>>

\* InsertControl, one statement per control: some of them, then all.
NormalizeInsert(f, full) ==
    /\ At("normalize", "insert", f)
    /\ tree[DocOf[f]] # NULL => full
    /\ tree' = [tree EXCEPT ![DocOf[f]] = [src |-> capture[f][man[f].sha], full |-> full]]
    /\ Step(IF full THEN "mark" ELSE "insert", f)
    /\ UNCHANGED <<disk, man, capture, doc, chunk>>

MarkNormalized(f) ==
    /\ At("normalize", "mark", f)
    /\ man' = [man EXCEPT ![f].normalized = TRUE, ![f].indexed = FALSE,
                           ![f].ambiguous = FALSE]
    /\ FileDone(f)
    /\ UNCHANGED <<disk, capture, doc, tree, chunk>>

\* No capture, a parse error, a duplicate citation, or the database refuses.
NormalizeFail(f) ==
    /\ \/ Turn("normalize", f) /\ ~Deferred(f)
       \/ \E pc \in {"delete", "insert", "mark"} : At("normalize", pc, f)
    /\ FileFailed(f)
    /\ UNCHANGED <<disk, capture, doc, tree, chunk>>

-----------------------------------------------------------------------------
(* index: runIndex.                                                         *)

\* Reap the orphans; the list of files is already taken.
ReapOrphans ==
    /\ run # Idle /\ run.stage = "index" /\ run.pc = "file"
    /\ chunk' = [d \in Doc |-> IF Live(d) THEN chunk[d] ELSE NULL]
    /\ run' = [run EXCEPT !.pc = "build"]
    /\ UNCHANGED <<disk, man, capture, doc, tree>>

Building == run # Idle /\ run.stage = "index" /\ run.pc = "build"

\* Every document of the version is rebuilt, not only the one of the file.
IndexFile(f) ==
    /\ Building /\ run.cur = NULL /\ f \in run.todo
    /\ Documents(Version(f)) # {}
    /\ run' = [run EXCEPT !.cur = f, !.docs = Documents(Version(f)), !.good = @ \cup {f}]
    /\ UNCHANGED <<disk, store>>

\* No document, or the list of documents cannot be read.
IndexFileFail(f) ==
    /\ Building /\ run.cur = NULL /\ f \in run.todo
    /\ man' = [man EXCEPT ![f].ambiguous = FALSE]
    /\ run' = [run EXCEPT !.todo = @ \ {f}]
    /\ UNCHANGED <<disk, capture, doc, tree, chunk>>

\* BuildChunks: DeleteChunksForControls, then InsertChunk one by one.  A
\* document without controls is passed over.
BuildSkip(d) ==
    /\ Building /\ run.build = NULL /\ d \in run.docs
    /\ tree[d] = NULL
    /\ run' = [run EXCEPT !.docs = @ \ {d}]
    /\ UNCHANGED <<disk, store>>

BuildDelete(d) ==
    /\ Building /\ run.build = NULL /\ d \in run.docs
    /\ tree[d] # NULL
    /\ chunk' = [chunk EXCEPT ![d] = NULL]
    /\ run' = [run EXCEPT !.build = d]
    /\ UNCHANGED <<disk, man, capture, doc, tree>>

BuildInsert(d, full) ==
    /\ Building /\ run.build = d
    /\ chunk[d] # NULL => full
    /\ chunk' = [chunk EXCEPT ![d] =
                   [live |-> TRUE, full |-> full, dense |-> FALSE, sparse |-> FALSE]]
    /\ run' = IF full THEN [run EXCEPT !.docs = @ \ {d}, !.build = NULL] ELSE run
    /\ UNCHANGED <<disk, man, capture, doc, tree>>

\* Mutant of BuildFail: the file of a failed document still counts as built.
MutBuildFailCounts(d) ==
    /\ Building /\ d \in run.docs /\ run.build \in {NULL, d}
    /\ run' = [run EXCEPT !.docs = @ \ {d}, !.build = NULL]
    /\ UNCHANGED <<disk, store>>

\* Reading the controls, deleting or inserting fails: the file is not marked.
BuildFail(d) ==
    /\ Building /\ d \in run.docs /\ run.build \in {NULL, d}
    /\ man' = [man EXCEPT ![run.cur].ambiguous = FALSE]
    /\ run' = [run EXCEPT !.docs = @ \ {d}, !.build = NULL, !.good = @ \ {run.cur}]
    /\ UNCHANGED <<disk, capture, doc, tree, chunk>>

IndexFileDone ==
    /\ Building /\ run.cur # NULL /\ run.docs = {}
    /\ run' = [run EXCEPT !.todo = @ \ {run.cur}, !.cur = NULL]
    /\ UNCHANGED <<disk, store>>

\* Mutant of Embed: files are marked although the embed phase stopped.
MutEmbedIgnoresError(some) ==
    /\ Building /\ run.cur = NULL /\ run.todo = {}
    /\ chunk' = [d \in Doc |-> IF d \in some /\ Live(d)
                               THEN [chunk[d] EXCEPT !.dense = TRUE] ELSE chunk[d]]
    /\ run' = [run EXCEPT !.pc = "sparse"]
    /\ UNCHANGED <<disk, man, capture, doc, tree>>

\* EmbedMissing embeds every chunk without a vector, or stops on the way: then
\* the documents in some have theirs and no file is marked.
Embed(some) ==
    /\ Building /\ run.cur = NULL /\ run.todo = {}
    /\ chunk' = [d \in Doc |-> IF d \in some /\ Live(d)
                               THEN [chunk[d] EXCEPT !.dense = TRUE] ELSE chunk[d]]
    /\ run' = [run EXCEPT !.pc = "sparse", !.good = IF some = Doc THEN @ ELSE {}]
    /\ UNCHANGED <<disk, man, capture, doc, tree>>

\* lexical.IndexCorpus, in runIndex and in runLexIndex.
IndexCorpus(some) ==
    /\ run # Idle
    /\ <<run.stage, run.pc>> \in {<<"index", "sparse">>, <<"lexindex", "file">>}
    /\ chunk' = [d \in Doc |-> IF d \in some /\ Live(d)
                               THEN [chunk[d] EXCEPT !.sparse = TRUE] ELSE chunk[d]]
    /\ run' = [run EXCEPT !.pc = IF run.stage = "index" THEN "stamp" ELSE "end",
                          !.good = IF some = Doc THEN @ ELSE {}]
    /\ UNCHANGED <<disk, man, capture, doc, tree>>

MarkIndexed(f) ==
    /\ run # Idle /\ run.pc = "stamp" /\ f \in run.good
    /\ man' = [man EXCEPT ![f].indexed = TRUE, ![f].ambiguous = FALSE]
    /\ run' = [run EXCEPT !.good = @ \ {f}]
    /\ UNCHANGED <<disk, capture, doc, tree, chunk>>

MarkIndexedFail(f) ==
    /\ run # Idle /\ run.pc = "stamp" /\ f \in run.good
    /\ run' = [run EXCEPT !.good = @ \ {f}]
    /\ UNCHANGED <<disk, store>>

IndexDone ==
    /\ run # Idle /\ run.pc = "stamp" /\ run.good = {}
    /\ run' = [run EXCEPT !.pc = "end"]
    /\ UNCHANGED <<disk, store>>

-----------------------------------------------------------------------------
\* The operator drops, replaces or removes a file; or it becomes unreadable.
Edit(f, bytes) ==
    /\ disk[f] # bytes
    /\ disk' = [disk EXCEPT ![f] = bytes]
    /\ UNCHANGED <<store, run>>

\* The process is killed, or a stage returns on a database error.
Crash == run # Idle /\ run' = Idle /\ UNCHANGED <<disk, store>>

\* What the process does when nothing goes wrong.
Good ==
    \/ Leave
    \/ ScanAmbiguity \/ ScanDemote
    \/ \E f \in File :
          \/ ScanFile(f)
          \/ ExtractCapture(f) \/ ExtractUnreadable(f) \/ MarkExtracted(f)
          \/ NormalizeSkip(f) \/ NormalizeDocument(f) \/ NormalizeDelete(f)
          \/ \E full \in BOOLEAN : NormalizeInsert(f, full)
          \/ MarkNormalized(f)
          \/ IndexFile(f) \/ MarkIndexed(f)
    \/ ReapOrphans \/ IndexFileDone \/ IndexDone
    \/ \E d \in Doc :
          \/ BuildSkip(d) \/ BuildDelete(d)
          \/ \E full \in BOOLEAN : BuildInsert(d, full)
    \/ Embed(Doc) \/ IndexCorpus(Doc)

Fault ==
    \/ \E f \in File : \/ ExtractFail(f) \/ NormalizeFail(f)
                       \/ IndexFileFail(f) \/ MarkIndexedFail(f)
    \/ \E d \in Doc : BuildFail(d)
    \/ \E some \in SUBSET Doc : some # Doc /\ (Embed(some) \/ IndexCorpus(some))
    \/ Crash

Edits == \E f \in File : \E bytes \in Held[f] : Edit(f, bytes)

Runs == \E stages \in Commands : Start(stages)

Next == Good \/ Fault \/ Edits \/ Runs

Spec == Init /\ [][Next]_vars

\* The operator keeps running the default stages and the index stage, and a
\* process that is not killed goes on.
Fairness ==
    /\ WF_vars(Good)
    /\ SF_vars(Start(DefaultStages))
    /\ SF_vars(Start(<<"index">>))
FairSpec == Spec /\ Fairness
-----------------------------------------------------------------------------
(* Correctness.                                                            *)

Complete(d) ==
    /\ tree[d] # NULL /\ tree[d].full
    /\ chunk[d] = [live |-> TRUE, full |-> TRUE, dense |-> TRUE, sparse |-> TRUE]

\* Stage timestamps come in order, and an extracted row always finds a capture:
\* no sequence of edits, rescans, failures and crashes lets a stage list a row
\* that the stage before has not completed for this hash.
StageOrder ==
    \A f \in File : man[f] # NULL =>
        /\ man[f].indexed => man[f].normalized
        /\ man[f].normalized => man[f].extracted
        /\ man[f].extracted => capture[f][man[f].sha] # NULL

\* A row that counts as normalized has its document and its whole control tree
\* in silver, parsed from the bytes captured for its hash: delete-and-rebuild
\* without a transaction never leaves a normalized row with a torn tree.
NormalizedServed ==
    \A f \in File : (Active(f) /\ man[f].normalized) =>
        /\ doc[DocOf[f]] = man[f].sha
        /\ tree[DocOf[f]] = [src |-> capture[f][man[f].sha], full |-> TRUE]

\* If the chunks or vectors of an indexed file are missing, another row of its
\* version still waits for the index stage: a half-done rebuild of a version, which
\* takes down the chunks of all its files, is never hidden behind timestamps that
\* are all set.
HolesShow ==
    \A f \in File : (Active(f) /\ man[f].indexed /\ ~Complete(DocOf[f])) =>
        \E g \in File : Version(g) = Version(f) /\ Active(g) /\ ~man[g].indexed

\* The corpus holds what data/ holds, and was parsed from these bytes.
Settled ==
    \A f \in File : (disk[f] \in Content /\ ~Deferred(f)) =>
        /\ Active(f) /\ man[f].sha = disk[f] /\ man[f].indexed
        /\ Complete(DocOf[f]) /\ tree[DocOf[f]].src = disk[f]

\* Extract found the file as the scan had hashed it.  Nothing compares the two
\* readings, so an edit between them makes this false for good (CaptureOfHash).
Unedited(f) == man[f] # NULL /\ man[f].extracted => capture[f][man[f].sha] = man[f].sha

\* Once edits and failures stop, running the stages again and again indexes every
\* file that can be parsed, with the bytes data/ has, whatever was half done: no
\* file is stuck, unless an edit came between its hash and its capture.
Recovers ==
    (/\ <>[][Good \/ Runs]_vars
     /\ <>[](\A f \in File : disk[f] # Unreadable /\ Unedited(f))
     /\ <>[](Ambiguous({f \in File : disk[f] # NULL}) = {}))
    => <>[]Settled

\* "keyed by (manifest_rel_path, sha256)": what is captured under a hash are the
\* bytes with that hash.
CaptureOfHash ==
    \A f \in File : \A s \in Content : capture[f][s] \in {NULL, s}

\* "Completeness = every active row ... reaching indexed_at": with no two paths to
\* one document in the manifest, silver has the bytes of every such row.
CompleteMeansServed ==
    Ambiguous({f \in File : Active(f)}) = {} =>
        \A f \in File : (Active(f) /\ man[f].indexed) => doc[DocOf[f]] = man[f].sha
=============================================================================
