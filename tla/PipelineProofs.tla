--------------------------- MODULE PipelineProofs ---------------------------
(* Proofs about Pipeline, for every corpus and every set of commands. *)
EXTENDS Pipeline, TLAPS

USE FileAssumption, NullAssumption

\* What the files a stage works on have in common while the stage runs: nobody
\* else changes their rows, so they are as the stage listed them.
WorkingOn(r) ==
    /\ r.cur # NULL => r.cur \in r.todo
    /\ r.pc = "stamp" => r.stage = "index"
    /\ r.stage = "manifest" => \A f \in r.good : man[f] # NULL
    /\ r.stage = "extract" => \A f \in r.todo : man[f] # NULL /\ ~man[f].extracted
    /\ r.stage = "normalize" =>
          \A f \in r.todo : man[f] # NULL /\ man[f].extracted /\ ~man[f].normalized
    /\ r.stage = "index" =>
          \A f \in r.todo \cup r.good : man[f] # NULL /\ man[f].normalized
    /\ (r.stage = "extract" /\ r.pc = "mark") =>
          r.cur # NULL /\ capture[r.cur][man[r.cur].sha] # NULL

Worklists == run # Idle => WorkingOn(run)

PipeInv == TypeOK /\ StageOrder /\ Worklists

\* The rows keep their hash and their stages; what else changes is of no stage.
SameStages ==
    \A f \in File :
        /\ man'[f] # NULL <=> man[f] # NULL
        /\ man[f] # NULL => /\ man'[f].sha = man[f].sha
                            /\ man'[f].extracted = man[f].extracted
                            /\ man'[f].normalized = man[f].normalized
                            /\ man'[f].indexed = man[f].indexed

\* No row is newly normalized, and none that is has another hash than before.
NoneNew ==
    \A f \in File : (man'[f] # NULL /\ man'[f].normalized) =>
        man[f] # NULL /\ man[f].normalized /\ man'[f].sha = man[f].sha

\* A process that runs has the fields of a run.
LEMMA Running ==
    ASSUME TypeOK, run # Idle
    PROVE  run \in RunRow
BY DEF TypeOK

\* After a failure no stage follows.
LEMMA NoStages == <<>> \in Seq(Stage)
OBVIOUS

\* Nothing is running and nothing is in the tables.
LEMMA PipeInit == Init => PipeInv
<1> SUFFICES ASSUME Init PROVE PipeInv
  OBVIOUS
<1>1. TypeOK
  BY DEF Init, TypeOK, Sha
<1>2. StageOrder /\ Worklists
  BY DEF Init, StageOrder, Worklists
<1> QED
  BY <1>1, <1>2 DEF PipeInv

-----------------------------------------------------------------------------
\* A stage starts with the rows its query returns.
LEMMA EnterKeeps ==
    ASSUME PipeInv, NEW stages \in Seq(Stage), stages # <<>>, run' = Enter(stages),
           UNCHANGED <<disk, store>>
    PROVE  PipeInv'
<1> DEFINE stage == Head(stages)
<1>1. stage \in Stage /\ Tail(stages) \in Seq(Stage)
  OBVIOUS
<1>2. Listed(stage) \in SUBSET File
  BY <1>1 DEF Listed, Stage, ListFilesToExtract, ListFilesToNormalize, ListFilesToIndex
<1>3. run' \in RunRow
  BY <1>1, <1>2 DEF Enter, RunRow, Listed
<1>4. TypeOK'
  BY <1>3 DEF PipeInv, TypeOK, store
<1>5. StageOrder'
  BY DEF PipeInv, StageOrder, store
<1>6. WorkingOn(run)'
  <2>1. /\ run'.stage = stage /\ run'.pc = "file" /\ run'.cur = NULL /\ run'.good = {}
        /\ run'.todo = Listed(stage)
    BY DEF Enter
  <2>2. stage = "extract" => \A f \in Listed(stage) : man[f] # NULL /\ ~man[f].extracted
    BY DEF Listed, ListFilesToExtract, Active
  <2>3. stage = "normalize" =>
          \A f \in Listed(stage) : man[f] # NULL /\ man[f].extracted /\ ~man[f].normalized
    BY DEF Listed, ListFilesToNormalize, Active
  <2>4. stage = "index" => \A f \in Listed(stage) : man[f] # NULL /\ man[f].normalized
    BY DEF Listed, ListFilesToIndex, Active
  <2> QED
    BY <2>1, <2>2, <2>3, <2>4 DEF WorkingOn, store
<1> QED
  BY <1>4, <1>5, <1>6 DEF PipeInv, Worklists

\* manifest: a row keeps its stages only with its hash, and the scan touches no
\* row another stage is working on.
LEMMA ScanFileKeeps ==
    ASSUME PipeInv, NEW f \in File, ScanFile(f)
    PROVE  PipeInv' /\ NoneNew /\ run'.stage = "manifest"
<1>1. /\ run \in RunRow /\ run.stage = "manifest" /\ run.pc = "file" /\ run.cur = NULL
      /\ UNCHANGED <<disk, capture, doc, tree, chunk>>
  BY Running DEF PipeInv, ScanFile, Turn
<1>2. PICK row \in ManRow :
         /\ man' = [man EXCEPT ![f] = row]
         /\ \/ man[f] # NULL /\ row.sha = man[f].sha /\ row.extracted = man[f].extracted
               /\ row.normalized = man[f].normalized /\ row.indexed = man[f].indexed
            \/ ~row.extracted /\ ~row.normalized /\ ~row.indexed
  <2>1. \A sha \in Sha :
           /\ Upserted(f, sha) \in ManRow
           /\ \/ /\ man[f] # NULL /\ Upserted(f, sha).sha = man[f].sha
                 /\ Upserted(f, sha).extracted = man[f].extracted
                 /\ Upserted(f, sha).normalized = man[f].normalized
                 /\ Upserted(f, sha).indexed = man[f].indexed
              \/ /\ ~Upserted(f, sha).extracted /\ ~Upserted(f, sha).normalized
                 /\ ~Upserted(f, sha).indexed
    <3> TAKE sha \in Sha
    <3>1. CASE man[f] # NULL /\ man[f].sha = sha
      <4>1. man[f] \in ManRow
        BY <3>1 DEF PipeInv, TypeOK
      <4>2. Upserted(f, sha) = [man[f] EXCEPT !.status = "active"]
        BY <3>1 DEF Upserted
      <4> QED
        BY <3>1, <4>1, <4>2 DEF ManRow
    <3>2. CASE ~(man[f] # NULL /\ man[f].sha = sha)
      BY <3>2 DEF Upserted, ManRow
    <3> QED
      BY <3>1, <3>2
  <2>2. CASE disk[f] \in Content
    BY <2>1, <2>2 DEF ScanFile, Sha
  <2>3. CASE disk[f] \notin Content
    <3> DEFINE up == Upserted(f, Unhashed)
               row == [up EXCEPT !.ambiguous = FALSE]
    <3>0. up \in ManRow
      BY <2>1 DEF Sha
    <3>1. row \in ManRow /\ row.sha = up.sha /\ row.extracted = up.extracted
          /\ row.normalized = up.normalized /\ row.indexed = up.indexed
      <4> HIDE DEF up
      <4> QED
        BY <3>0 DEF ManRow
    <3>2. man' = [man EXCEPT ![f] = row]
      BY <2>3 DEF ScanFile
    <3> QED
      BY <2>1, <3>1, <3>2 DEF Sha
  <2> QED
    BY <2>2, <2>3
<1>3. /\ run' \in RunRow
      /\ run'.stage = "manifest" /\ run'.pc = "file" /\ run'.cur = NULL
      /\ run'.good \subseteq run.good \cup {f}
  <2>1. CASE disk[f] \in Content
    <3>1. run' = [run EXCEPT !.todo = @ \ {f}, !.good = @ \cup {f}]
      BY <2>1 DEF ScanFile
    <3> QED
      BY <1>1, <3>1 DEF RunRow
  <2>2. CASE disk[f] \notin Content
    <3>1. run' = [run EXCEPT !.todo = @ \ {f}, !.rest = <<>>]
      BY <2>2 DEF ScanFile
    <3> QED
      BY <1>1, <3>1, NoStages DEF RunRow
  <2> QED
    BY <2>1, <2>2
<1>5. TypeOK'
  BY <1>1, <1>2, <1>3 DEF PipeInv, TypeOK
<1>6. StageOrder'
  BY <1>1, <1>2 DEF PipeInv, TypeOK, StageOrder
<1>7. WorkingOn(run)'
  <2>1. \A g \in run.good \cup {f} : man'[g] # NULL
    BY <1>1, <1>2 DEF PipeInv, TypeOK, Worklists, WorkingOn, Idle, RunRow
  <2> QED
    BY <1>3, <2>1 DEF WorkingOn
<1>8. NoneNew
  BY <1>2 DEF NoneNew, PipeInv, TypeOK
<1> QED
  BY <1>3, <1>8, <1>5, <1>6, <1>7 DEF PipeInv, Worklists

SameRow(new, old) ==
    /\ new \in ManRow /\ new.sha = old.sha /\ new.extracted = old.extracted
    /\ new.normalized = old.normalized /\ new.indexed = old.indexed

\* Neither the error nor the status of a row is a stage.
LEMMA RowEdits ==
    ASSUME NEW row \in ManRow
    PROVE  /\ \A b \in BOOLEAN : SameRow([row EXCEPT !.ambiguous = b], row)
           /\ SameRow([row EXCEPT !.status = "removed"], row)
BY DEF SameRow, ManRow

\* Rows that keep their stages keep the order of them.
LEMMA SameOrder ==
    ASSUME PipeInv, SameStages, UNCHANGED capture
    PROVE  StageOrder'
BY DEF PipeInv, StageOrder, SameStages

\* Recording or clearing an error touches no stage.
LEMMA SetError ==
    ASSUME PipeInv, NEW f \in File, man[f] # NULL, NEW b \in BOOLEAN,
           man' = [man EXCEPT ![f].ambiguous = b]
    PROVE  man' \in [File -> ManRow \cup {NULL}] /\ SameStages
<1>1. man \in [File -> ManRow \cup {NULL}] /\ man[f] \in ManRow
  BY DEF PipeInv, TypeOK
<1> DEFINE row == [man[f] EXCEPT !.ambiguous = b]
<1>2. SameRow(row, man[f])
  BY <1>1, RowEdits
<1>3. man' = [man EXCEPT ![f] = row]
  OBVIOUS
<1> HIDE DEF row
<1> QED
  BY <1>1, <1>2, <1>3 DEF SameStages, SameRow

\* manifest: the ambiguous files were all scanned, so they have rows.
LEMMA ScanAmbiguityKeeps ==
    ASSUME PipeInv, ScanAmbiguity
    PROVE  PipeInv' /\ SameStages /\ run'.stage = "manifest"
<1>1. /\ run \in RunRow /\ run.stage = "manifest" /\ run.pc = "file"
      /\ UNCHANGED <<disk, capture, doc, tree, chunk>>
  BY Running DEF PipeInv, ScanAmbiguity
<1>2. WorkingOn(run)
  BY <1>1 DEF PipeInv, Worklists, ScanAmbiguity
<1> DEFINE amb == Ambiguous(run.good)
<1>3. \A f \in amb : man[f] # NULL
  BY <1>1, <1>2 DEF Ambiguous, WorkingOn
<1>4. man' = [f \in File |-> IF f \in amb THEN [man[f] EXCEPT !.ambiguous = TRUE] ELSE man[f]]
  BY DEF ScanAmbiguity
<1>5. \A f \in amb \cap File : SameRow([man[f] EXCEPT !.ambiguous = TRUE], man[f])
  <2> TAKE f \in amb \cap File
  <2>1. man[f] \in ManRow
    BY <1>3 DEF PipeInv, TypeOK
  <2> QED
    BY <2>1, RowEdits
<1>6. man' \in [File -> ManRow \cup {NULL}] /\ SameStages
  <2> HIDE DEF amb
  <2> QED
    BY <1>3, <1>4, <1>5 DEF PipeInv, TypeOK, SameStages, SameRow
<1>7. /\ run' \in RunRow
      /\ run'.stage = "manifest" /\ run'.pc = "demote" /\ run'.cur = run.cur
      /\ run'.todo = run.todo /\ run'.good = run.good
  <2>1. PICK rest \in Seq(Stage) : run' = [run EXCEPT !.pc = "demote", !.rest = rest]
    <3>1. CASE amb = {}
      <4>1. run' = [run EXCEPT !.pc = "demote", !.rest = run.rest]
        BY <3>1 DEF ScanAmbiguity
      <4> QED
        BY <1>1, <4>1 DEF RunRow
    <3>2. CASE amb # {}
      BY <3>2, NoStages DEF ScanAmbiguity
    <3> QED
      BY <3>1, <3>2
  <2> QED
    BY <1>1, <2>1 DEF RunRow
<1>8. TypeOK'
  BY <1>1, <1>6, <1>7 DEF PipeInv, TypeOK
<1>9. StageOrder'
  BY <1>1, <1>6, SameOrder
<1>10. WorkingOn(run)'
  BY <1>1, <1>2, <1>6, <1>7 DEF WorkingOn, SameStages, RunRow
<1> QED
  BY <1>6, <1>7, <1>8, <1>9, <1>10 DEF PipeInv, Worklists

\* manifest: demoted rows keep their stages, and may come back with them.
LEMMA ScanDemoteKeeps ==
    ASSUME PipeInv, ScanDemote
    PROVE  PipeInv' /\ SameStages /\ run'.stage = "manifest"
<1>1. /\ run \in RunRow /\ run.stage = "manifest" /\ run.pc = "demote"
      /\ run' = [run EXCEPT !.pc = "end"]
      /\ UNCHANGED <<disk, capture, doc, tree, chunk>>
  BY Running DEF PipeInv, ScanDemote
<1>2. WorkingOn(run)
  BY <1>1 DEF PipeInv, Worklists, ScanDemote
<1>3. PICK S \in SUBSET {f \in File : man[f] # NULL} :
         man' = [f \in File |-> IF f \in S THEN [man[f] EXCEPT !.status = "removed"] ELSE man[f]]
  <2> DEFINE S == {f \in File : run.seen # {} /\ Active(f) /\ f \notin run.seen}
  <2>1. S \in SUBSET {f \in File : man[f] # NULL}
    BY DEF Active
  <2>2. man' = [f \in File |-> IF f \in S THEN [man[f] EXCEPT !.status = "removed"] ELSE man[f]]
    BY DEF ScanDemote
  <2> QED
    BY <2>1, <2>2
<1>4. \A f \in S : SameRow([man[f] EXCEPT !.status = "removed"], man[f])
  <2> TAKE f \in S
  <2>1. man[f] \in ManRow
    BY <1>3 DEF PipeInv, TypeOK
  <2> QED
    BY <2>1, RowEdits
<1>5. man' \in [File -> ManRow \cup {NULL}] /\ SameStages
  BY <1>3, <1>4 DEF PipeInv, TypeOK, SameStages, SameRow
<1>6. /\ run' \in RunRow
      /\ run'.stage = "manifest" /\ run'.pc = "end" /\ run'.cur = run.cur
      /\ run'.todo = run.todo /\ run'.good = run.good
  BY <1>1 DEF RunRow
<1>7. TypeOK'
  BY <1>1, <1>5, <1>6 DEF PipeInv, TypeOK
<1>8. StageOrder'
  BY <1>1, <1>5, SameOrder
<1>9. WorkingOn(run)'
  BY <1>1, <1>2, <1>5, <1>6 DEF WorkingOn, SameStages, RunRow
<1> QED
  BY <1>5, <1>6, <1>7, <1>8, <1>9 DEF PipeInv, Worklists

-----------------------------------------------------------------------------
\* extract and normalize: a file that failed leaves the list, its row keeps its
\* stages.
LEMMA FailedKeeps ==
    ASSUME PipeInv, run # Idle, run.stage \in {"extract", "normalize"}, NEW f \in run.todo,
           FileFailed(f), UNCHANGED <<disk, capture, doc, tree, chunk>>
    PROVE  PipeInv' /\ SameStages /\ run'.pc = "file"
<1>1. run \in RunRow /\ f \in File
  BY Running DEF PipeInv, RunRow
<1>2. WorkingOn(run)
  BY DEF PipeInv, Worklists
<1>3. man[f] # NULL
  BY <1>2 DEF WorkingOn
<1>4. man' \in [File -> ManRow \cup {NULL}] /\ SameStages
  BY <1>1, <1>3, SetError DEF FileFailed
<1>5. /\ run' \in RunRow
      /\ run'.stage = run.stage /\ run'.pc = "file" /\ run'.cur = NULL
      /\ run'.todo = run.todo \ {f} /\ run'.good = run.good
  BY <1>1, NoStages DEF FileFailed, RunRow
<1>6. TypeOK'
  BY <1>4, <1>5 DEF PipeInv, TypeOK
<1>7. StageOrder'
  BY <1>4, SameOrder
<1>8. WorkingOn(run)'
  BY <1>1, <1>2, <1>4, <1>5 DEF WorkingOn, SameStages, RunRow
<1> QED
  BY <1>4, <1>5, <1>6, <1>7, <1>8 DEF PipeInv, Worklists

\* The file a loop turns to, or is at, is one of its list.
LEMMA InList ==
    ASSUME PipeInv, NEW f \in File, NEW stage, NEW pc, Turn(stage, f) \/ At(stage, pc, f)
    PROVE  run \in RunRow /\ WorkingOn(run) /\ run.stage = stage /\ f \in run.todo
BY Running DEF PipeInv, Worklists, WorkingOn, Turn, At

\* extract: the capture is there before the row is marked.
LEMMA ExtractKeeps ==
    ASSUME PipeInv, NEW f \in File,
           ExtractCapture(f) \/ MarkExtracted(f) \/ ExtractUnreadable(f) \/ ExtractFail(f)
    PROVE  PipeInv'
<1>1. CASE ExtractCapture(f)
  <2>1. /\ run \in RunRow /\ WorkingOn(run) /\ run.stage = "extract" /\ f \in run.todo
        /\ disk[f] \in Content /\ UNCHANGED <<disk, man, doc, tree, chunk>>
        /\ run' = [run EXCEPT !.pc = "mark", !.cur = f]
        /\ capture' = [capture EXCEPT ![f][man[f].sha] = disk[f]]
    BY <1>1, InList DEF ExtractCapture, Step
  <2>2. man[f] \in ManRow /\ man[f].sha \in Sha
    BY <2>1 DEF WorkingOn, PipeInv, TypeOK, ManRow
  <2>3. /\ capture' \in [File -> [Sha -> Content \cup {NULL}]]
        /\ \A g \in File, h \in Sha : capture[g][h] # NULL => capture'[g][h] # NULL
        /\ capture'[f][man[f].sha] # NULL
    BY <2>1, <2>2 DEF PipeInv, TypeOK
  <2>4. /\ run' \in RunRow
        /\ run'.stage = "extract" /\ run'.pc = "mark" /\ run'.cur = f /\ run'.todo = run.todo
    BY <2>1 DEF RunRow
  <2>5. TypeOK'
    BY <2>1, <2>3, <2>4 DEF PipeInv, TypeOK
  <2>6. StageOrder'
    <3> SUFFICES ASSUME NEW g \in File, man[g] # NULL, man[g].extracted
                 PROVE  capture'[g][man[g].sha] # NULL
      BY <2>1 DEF PipeInv, StageOrder
    <3>1. man[g].sha \in Sha /\ capture[g][man[g].sha] # NULL
      BY DEF PipeInv, StageOrder, TypeOK, ManRow
    <3> QED
      BY <2>3, <3>1
  <2>7. WorkingOn(run)'
    BY <2>1, <2>3, <2>4 DEF WorkingOn
  <2> QED
    BY <2>5, <2>6, <2>7 DEF PipeInv, Worklists
<1>2. CASE MarkExtracted(f)
  <2>1. /\ run \in RunRow /\ WorkingOn(run) /\ run.stage = "extract" /\ f \in run.todo
        /\ run.pc = "mark" /\ run.cur = f
    BY <1>2, InList DEF MarkExtracted, At
  <2>2. /\ UNCHANGED <<disk, capture, doc, tree, chunk>>
        /\ man' = [man EXCEPT ![f].extracted = TRUE, ![f].ambiguous = FALSE]
        /\ run' = [run EXCEPT !.pc = "file", !.cur = NULL, !.todo = @ \ {f}]
    BY <1>2 DEF MarkExtracted, FileDone
  <2>3. man[f] \in ManRow /\ capture[f][man[f].sha] # NULL /\ ~man[f].extracted
    BY <2>1 DEF WorkingOn, PipeInv, TypeOK
  <2>4. PICK row \in ManRow :
           /\ man' = [man EXCEPT ![f] = row]
           /\ row.sha = man[f].sha /\ row.extracted
           /\ row.normalized = man[f].normalized /\ row.indexed = man[f].indexed
    <3> DEFINE row == [man[f] EXCEPT !.extracted = TRUE, !.ambiguous = FALSE]
    <3>1. man' = [man EXCEPT ![f] = row]
      BY <2>2, <2>3 DEF PipeInv, TypeOK
    <3>2. /\ row \in ManRow /\ row.sha = man[f].sha /\ row.extracted
          /\ row.normalized = man[f].normalized /\ row.indexed = man[f].indexed
      BY <2>3 DEF ManRow
    <3> HIDE DEF row
    <3> QED
      BY <3>1, <3>2
  <2>5. /\ run' \in RunRow
        /\ run'.stage = "extract" /\ run'.pc = "file" /\ run'.cur = NULL
        /\ run'.todo = run.todo \ {f}
    BY <2>1, <2>2 DEF RunRow
  <2>6. TypeOK'
    <3>1. man' \in [File -> ManRow \cup {NULL}]
      BY <2>4 DEF PipeInv, TypeOK
    <3> QED
      BY <2>2, <2>5, <3>1 DEF PipeInv, TypeOK
  <2>7. StageOrder'
    BY <2>2, <2>3, <2>4 DEF PipeInv, TypeOK, StageOrder
  <2>8. WorkingOn(run)'
    BY <2>1, <2>4, <2>5 DEF WorkingOn, PipeInv, TypeOK, RunRow
  <2> QED
    BY <2>6, <2>7, <2>8 DEF PipeInv, Worklists
<1>3. CASE ExtractUnreadable(f)
  BY <1>3, FailedKeeps DEF ExtractUnreadable, Turn
<1>4. CASE ExtractFail(f)
  <2>1. run # Idle /\ run.stage = "extract" /\ f \in run.todo
    BY <1>4, InList DEF ExtractFail, Turn, At
  <2> QED
    BY <1>4, <2>1, FailedKeeps DEF ExtractFail
<1> QED
  BY <1>1, <1>2, <1>3, <1>4

\* normalize: a step of the current file that leaves manifest and bronze alone.
LEMMA NormalizeStepKeeps ==
    ASSUME PipeInv, run \in RunRow, WorkingOn(run), run.stage = "normalize",
           NEW f \in run.todo, NEW pc \in {"delete", "insert", "mark"}, Step(pc, f),
           UNCHANGED <<disk, man, capture>>,
           doc' \in [Doc -> Sha \cup {NULL}],
           tree' \in [Doc -> TreeRow \cup {NULL}],
           chunk' \in [Doc -> ChunkRow \cup {NULL}]
    PROVE  PipeInv'
<1>1. /\ run' \in RunRow
      /\ run'.stage = "normalize" /\ run'.pc = pc /\ run'.cur = f /\ run'.todo = run.todo
  BY DEF Step, RunRow
<1>2. TypeOK'
  BY <1>1 DEF PipeInv, TypeOK
<1>3. StageOrder'
  BY DEF PipeInv, StageOrder
<1>4. WorkingOn(run)'
  BY <1>1 DEF WorkingOn
<1> QED
  BY <1>2, <1>3, <1>4 DEF PipeInv, Worklists

\* normalize: it works on extracted rows only, so the bytes it parses are there.
LEMMA NormalizeKeeps ==
    ASSUME PipeInv, NEW f \in File,
           \/ NormalizeSkip(f) \/ NormalizeDocument(f) \/ NormalizeDelete(f)
           \/ \E full \in BOOLEAN : NormalizeInsert(f, full)
           \/ MarkNormalized(f) \/ NormalizeFail(f)
    PROVE  PipeInv'
<1>1. run \in RunRow /\ WorkingOn(run) /\ run.stage = "normalize" /\ f \in run.todo
  BY InList DEF NormalizeSkip, NormalizeDocument, NormalizeDelete, NormalizeInsert,
                MarkNormalized, NormalizeFail
<1>2. man[f] # NULL /\ man[f] \in ManRow /\ man[f].extracted /\ ~man[f].normalized
  BY <1>1 DEF WorkingOn, PipeInv, TypeOK
<1>3. man[f].sha \in Sha /\ capture[f][man[f].sha] \in Content /\ DocOf[f] \in Doc
  <2>1. man[f].sha \in Sha
    BY <1>2 DEF ManRow
  <2> QED
    BY <1>2, <2>1 DEF PipeInv, TypeOK, StageOrder
<1>4. CASE NormalizeSkip(f)
  <2>1. /\ run' \in RunRow
        /\ run'.stage = "normalize" /\ run'.pc = "file" /\ run'.cur = NULL
        /\ run'.todo = run.todo \ {f}
    BY <1>1, <1>4 DEF NormalizeSkip, FileDone, RunRow
  <2>2. TypeOK' /\ StageOrder'
    BY <1>4, <2>1 DEF NormalizeSkip, store, PipeInv, TypeOK, StageOrder
  <2>3. WorkingOn(run)'
    BY <1>1, <1>4, <2>1 DEF NormalizeSkip, store, WorkingOn
  <2> QED
    BY <2>2, <2>3 DEF PipeInv, Worklists
<1>5. CASE NormalizeDocument(f)
  <2>1. doc' \in [Doc -> Sha \cup {NULL}]
    BY <1>3, <1>5 DEF NormalizeDocument, PipeInv, TypeOK
  <2> QED
    BY <1>1, <1>5, <2>1, NormalizeStepKeeps DEF NormalizeDocument, PipeInv, TypeOK
<1>6. CASE NormalizeDelete(f)
  <2>1. tree' \in [Doc -> TreeRow \cup {NULL}] /\ chunk' \in [Doc -> ChunkRow \cup {NULL}]
    BY <1>6 DEF NormalizeDelete, PipeInv, TypeOK, Orphan, ChunkRow
  <2> QED
    BY <1>1, <1>6, <2>1, NormalizeStepKeeps DEF NormalizeDelete, PipeInv, TypeOK
<1>7. ASSUME NEW full \in BOOLEAN, NormalizeInsert(f, full) PROVE PipeInv'
  <2>1. tree' \in [Doc -> TreeRow \cup {NULL}]
    BY <1>3, <1>7 DEF NormalizeInsert, PipeInv, TypeOK, TreeRow
  <2>2. \E pc \in {"insert", "mark"} : Step(pc, f)
    BY <1>7 DEF NormalizeInsert
  <2> QED
    BY <1>1, <1>7, <2>1, <2>2, NormalizeStepKeeps DEF NormalizeInsert, PipeInv, TypeOK
<1>8. CASE MarkNormalized(f)
  <2>1. PICK row \in ManRow :
           /\ man' = [man EXCEPT ![f] = row]
           /\ row.sha = man[f].sha /\ row.extracted = man[f].extracted
           /\ row.normalized /\ ~row.indexed
    <3> DEFINE row == [man[f] EXCEPT !.normalized = TRUE, !.indexed = FALSE,
                                     !.ambiguous = FALSE]
    <3>1. man' = [man EXCEPT ![f] = row]
      BY <1>2, <1>8 DEF MarkNormalized, PipeInv, TypeOK
    <3>2. /\ row \in ManRow /\ row.sha = man[f].sha /\ row.extracted = man[f].extracted
          /\ row.normalized /\ ~row.indexed
      BY <1>2 DEF ManRow
    <3> HIDE DEF row
    <3> QED
      BY <3>1, <3>2
  <2>2. /\ run' \in RunRow
        /\ run'.stage = "normalize" /\ run'.pc = "file" /\ run'.cur = NULL
        /\ run'.todo = run.todo \ {f}
    BY <1>1, <1>8 DEF MarkNormalized, FileDone, RunRow
  <2>3. TypeOK'
    <3>1. man' \in [File -> ManRow \cup {NULL}]
      BY <2>1 DEF PipeInv, TypeOK
    <3> QED
      BY <1>8, <2>2, <3>1 DEF MarkNormalized, PipeInv, TypeOK
  <2>4. StageOrder'
    BY <1>2, <1>8, <2>1 DEF MarkNormalized, PipeInv, TypeOK, StageOrder
  <2>5. WorkingOn(run)'
    BY <1>1, <2>1, <2>2 DEF WorkingOn, PipeInv, TypeOK, RunRow
  <2> QED
    BY <2>3, <2>4, <2>5 DEF PipeInv, Worklists
<1>9. CASE NormalizeFail(f)
  <2>1. run # Idle
    BY <1>9 DEF NormalizeFail, Turn, At
  <2> QED
    BY <1>1, <1>9, <2>1, FailedKeeps DEF NormalizeFail
<1> QED
  BY <1>4, <1>5, <1>6, <1>7, <1>8, <1>9

-----------------------------------------------------------------------------
\* index: the list shrinks and the files done come from it.
LEMMA IndexStepKeeps ==
    ASSUME PipeInv, run # Idle, run.stage = "index",
           run' \in RunRow, run'.stage = "index",
           run'.todo \subseteq run.todo, run'.good \subseteq run.good \cup run.todo,
           run'.cur # NULL => run'.cur \in run'.todo,
           man' \in [File -> ManRow \cup {NULL}], SameStages,
           chunk' \in [Doc -> ChunkRow \cup {NULL}],
           UNCHANGED <<disk, capture, doc, tree>>
    PROVE  PipeInv'
<1>1. TypeOK'
  BY DEF PipeInv, TypeOK
<1>2. StageOrder'
  BY SameOrder
<1>3. run \in RunRow /\ WorkingOn(run)
  BY Running DEF PipeInv, Worklists
<1>4. \A f \in run.todo \cup run.good : f \in File /\ man[f] # NULL /\ man[f].normalized
  BY <1>3 DEF WorkingOn, RunRow
<1>5. \A f \in run.todo \cup run.good : man'[f] # NULL /\ man'[f].normalized
  BY <1>4 DEF SameStages
<1>6. WorkingOn(run)'
  BY <1>5 DEF WorkingOn
<1> QED
  BY <1>1, <1>2, <1>6 DEF PipeInv, Worklists

\* index: rows that are not written keep their stages.
LEMMA SameMan ==
    ASSUME PipeInv, UNCHANGED man
    PROVE  man' \in [File -> ManRow \cup {NULL}] /\ SameStages
BY DEF PipeInv, TypeOK, SameStages

\* index: chunks are deleted, inserted and given vectors; rows are listed, built
\* or passed over.
LEMMA IndexKeeps ==
    ASSUME PipeInv,
           \/ ReapOrphans \/ IndexFileDone \/ IndexDone
           \/ \E f \in File : IndexFile(f) \/ MarkIndexedFail(f)
           \/ \E d \in Doc : \/ BuildSkip(d) \/ BuildDelete(d)
                             \/ \E full \in BOOLEAN : BuildInsert(d, full)
           \/ \E some \in SUBSET Doc : Embed(some) \/ IndexCorpus(some)
    PROVE  PipeInv' /\ run'.stage # "normalize"
<1>1. /\ run # Idle /\ run \in RunRow /\ WorkingOn(run)
      /\ UNCHANGED <<disk, man, capture, doc, tree>>
  BY Running DEF PipeInv, Worklists, ReapOrphans, IndexFileDone, IndexDone, IndexFile,
     MarkIndexedFail, BuildSkip, BuildDelete, BuildInsert, Embed, IndexCorpus, Building, store
<1>2. chunk' \in [Doc -> ChunkRow \cup {NULL}]
  <2>0. chunk \in [Doc -> ChunkRow \cup {NULL}]
    BY DEF PipeInv, TypeOK
  <2>1. CASE ReapOrphans
    BY <2>0, <2>1 DEF ReapOrphans
  <2>2. ASSUME NEW d \in Doc, BuildDelete(d) PROVE chunk' \in [Doc -> ChunkRow \cup {NULL}]
    BY <2>0, <2>2 DEF BuildDelete
  <2>3. ASSUME NEW d \in Doc, NEW full \in BOOLEAN, BuildInsert(d, full)
        PROVE  chunk' \in [Doc -> ChunkRow \cup {NULL}]
    <3>1. [live |-> TRUE, full |-> full, dense |-> FALSE, sparse |-> FALSE] \in ChunkRow
      BY DEF ChunkRow
    <3> QED
      BY <2>0, <2>3, <3>1 DEF BuildInsert
  <2>4. ASSUME NEW some \in SUBSET Doc, Embed(some) \/ IndexCorpus(some)
        PROVE  chunk' \in [Doc -> ChunkRow \cup {NULL}]
    <3>1. \A row \in ChunkRow : /\ [row EXCEPT !.dense = TRUE] \in ChunkRow
                                /\ [row EXCEPT !.sparse = TRUE] \in ChunkRow
      BY DEF ChunkRow
    <3>2. \A d \in Doc : Live(d) => chunk[d] \in ChunkRow
      BY <2>0 DEF Live
    <3>3. CASE Embed(some)
      BY <2>0, <3>1, <3>2, <3>3 DEF Embed
    <3>4. CASE IndexCorpus(some)
      BY <2>0, <3>1, <3>2, <3>4 DEF IndexCorpus
    <3> QED
      BY <2>4, <3>3, <3>4
  <2>5. CASE \/ IndexFileDone \/ IndexDone
             \/ \E f \in File : IndexFile(f) \/ MarkIndexedFail(f)
             \/ \E d \in Doc : BuildSkip(d)
    BY <2>0, <2>5 DEF IndexFileDone, IndexDone, IndexFile, MarkIndexedFail, BuildSkip, store
  <2> QED
    BY <2>1, <2>2, <2>3, <2>4, <2>5
<1>3. CASE run.stage = "index"
  <2> DEFINE Listing ==
         /\ run' \in RunRow /\ run'.stage = "index"
         /\ run'.todo \subseteq run.todo /\ run'.good \subseteq run.good \cup run.todo
         /\ run'.cur # NULL => run'.cur \in run'.todo
  <2>1. ASSUME ReapOrphans PROVE Listing
    BY <1>1, <1>3, <2>1 DEF ReapOrphans, RunRow, WorkingOn
  <2>2. ASSUME IndexFileDone PROVE Listing
    BY <1>1, <1>3, <2>2 DEF IndexFileDone, RunRow, WorkingOn
  <2>3. ASSUME IndexDone PROVE Listing
    BY <1>1, <1>3, <2>3 DEF IndexDone, RunRow, WorkingOn
  <2>4. ASSUME NEW f \in File, IndexFile(f) PROVE Listing
    <3>1. Documents(Version(f)) \in SUBSET Doc
      BY DEF Documents
    <3> QED
      <4>1. run' = [run EXCEPT !.cur = f, !.docs = Documents(Version(f)), !.good = @ \cup {f}]
        BY <2>4 DEF IndexFile
      <4>2. f \in run.todo
        BY <2>4 DEF IndexFile
      <4>3. run \in RunRow
        BY <1>1
      <4> HIDE DEF Documents, Version
      <4>4. run' \in RunRow
        BY <3>1, <4>1, <4>2, <4>3 DEF RunRow
      <4>5. /\ run'.stage = run.stage /\ run'.todo = run.todo
            /\ run'.good = run.good \cup {f} /\ run'.cur = f
        BY <4>1, <4>3 DEF RunRow
      <4> QED
        BY <1>3, <4>2, <4>4, <4>5
  <2>5. ASSUME NEW f \in File, MarkIndexedFail(f) PROVE Listing
    BY <1>1, <1>3, <2>5 DEF MarkIndexedFail, RunRow, WorkingOn
  <2>6. ASSUME NEW d \in Doc, BuildSkip(d) \/ BuildDelete(d) PROVE Listing
    BY <1>1, <1>3, <2>6 DEF BuildSkip, BuildDelete, RunRow, WorkingOn
  <2>7. ASSUME NEW d \in Doc, NEW full \in BOOLEAN, BuildInsert(d, full) PROVE Listing
    BY <1>1, <1>3, <2>7 DEF BuildInsert, RunRow, WorkingOn
  <2>8. ASSUME NEW some \in SUBSET Doc, Embed(some) PROVE Listing
    <3>1. PICK good \in SUBSET run.good : run' = [run EXCEPT !.pc = "sparse", !.good = good]
      BY <2>8 DEF Embed
    <3> QED
      BY <1>1, <1>3, <3>1 DEF RunRow, WorkingOn
  <2>9. ASSUME NEW some \in SUBSET Doc, IndexCorpus(some) PROVE Listing
    <3>1. PICK good \in SUBSET run.good : run' = [run EXCEPT !.pc = "stamp", !.good = good]
      BY <1>3, <2>9 DEF IndexCorpus
    <3> QED
      BY <1>1, <1>3, <3>1 DEF RunRow, WorkingOn
  <2>10. Listing
    BY <2>1, <2>2, <2>3, <2>4, <2>5, <2>6, <2>7, <2>8, <2>9
  <2> QED
    BY <1>1, <1>2, <1>3, <2>10, SameMan, IndexStepKeeps
<1>4. CASE run.stage # "index"
  \* lexindex touches no row and no list.
  <2>1. PICK some \in SUBSET Doc : IndexCorpus(some)
    BY <1>1, <1>4 DEF ReapOrphans, IndexFileDone, IndexDone, IndexFile, MarkIndexedFail,
       BuildSkip, BuildDelete, BuildInsert, Embed, Building, WorkingOn
  <2>2. run.stage = "lexindex"
    BY <1>4, <2>1 DEF IndexCorpus
  <2>3. PICK good \in SUBSET run.good : run' = [run EXCEPT !.pc = "end", !.good = good]
    BY <2>1, <2>2 DEF IndexCorpus
  <2>4. /\ run' \in RunRow /\ run'.stage = "lexindex" /\ run'.pc = "end"
        /\ run'.cur = run.cur /\ run'.todo = run.todo
    BY <1>1, <2>2, <2>3 DEF RunRow
  <2>5. TypeOK' /\ StageOrder'
    BY <1>1, <1>2, <2>4 DEF PipeInv, TypeOK, StageOrder
  <2>6. WorkingOn(run)'
    BY <1>1, <2>4 DEF WorkingOn
  <2> QED
    BY <2>4, <2>5, <2>6 DEF PipeInv, Worklists
<1> QED
  BY <1>3, <1>4

\* index: a file that cannot be built leaves the files done; its row keeps its
\* stages, so the next run lists it again.
LEMMA BuildFailKeeps ==
    ASSUME PipeInv, (\E f \in File : IndexFileFail(f)) \/ (\E d \in Doc : BuildFail(d))
    PROVE  PipeInv' /\ SameStages /\ run'.stage = "index"
<1>1. run # Idle /\ run \in RunRow /\ WorkingOn(run) /\ run.stage = "index"
  BY Running DEF PipeInv, Worklists, IndexFileFail, BuildFail, Building
<1>2. ASSUME NEW f \in File, IndexFileFail(f)
      PROVE  PipeInv' /\ SameStages /\ run'.stage = "index"
  <2>1. man[f] # NULL
    BY <1>1, <1>2 DEF IndexFileFail, WorkingOn
  <2>2. man' \in [File -> ManRow \cup {NULL}] /\ SameStages
    BY <1>2, <2>1, SetError DEF IndexFileFail
  <2>3. /\ run' \in RunRow /\ run'.stage = "index" /\ run'.cur = NULL
        /\ run'.todo = run.todo \ {f} /\ run'.good = run.good
    BY <1>1, <1>2 DEF IndexFileFail, RunRow
  <2> QED
    BY <1>1, <1>2, <2>2, <2>3, IndexStepKeeps DEF IndexFileFail, PipeInv, TypeOK
<1>3. ASSUME NEW d \in Doc, BuildFail(d)
      PROVE  PipeInv' /\ SameStages /\ run'.stage = "index"
  <2>1. man' \in [File -> ManRow \cup {NULL}] /\ SameStages
    <3>1. CASE run.cur = NULL
      <4>1. man' = man
        <5>1. man' = [man EXCEPT ![NULL] = [@ EXCEPT !.ambiguous = FALSE]]
          BY <1>3, <3>1 DEF BuildFail
        <5>2. NULL \notin File /\ man \in [File -> ManRow \cup {NULL}]
          BY DEF PipeInv, TypeOK
        <5> QED
          BY <5>1, <5>2
      <4> QED
        BY <4>1, SameMan
    <3>2. CASE run.cur # NULL
      <4>1. run.cur \in File /\ man[run.cur] # NULL
        BY <1>1, <3>2 DEF WorkingOn, RunRow
      <4> QED
        BY <1>3, <4>1, SetError DEF BuildFail
    <3> QED
      BY <3>1, <3>2
  <2>2. /\ run' \in RunRow /\ run'.stage = "index" /\ run'.cur = run.cur
        /\ run'.todo = run.todo /\ run'.good \subseteq run.good
    BY <1>1, <1>3 DEF BuildFail, RunRow
  <2> QED
    BY <1>1, <1>3, <2>1, <2>2, IndexStepKeeps DEF BuildFail, WorkingOn, PipeInv, TypeOK
<1> QED
  BY <1>2, <1>3

\* index: only rows that were listed as normalized are marked.
LEMMA MarkIndexedKeeps ==
    ASSUME PipeInv, NEW f \in File, MarkIndexed(f)
    PROVE  PipeInv' /\ NoneNew /\ run'.stage = "index"
<1>1. /\ run \in RunRow /\ WorkingOn(run) /\ run.stage = "index" /\ f \in run.good
      /\ run' = [run EXCEPT !.good = @ \ {f}]
      /\ UNCHANGED <<disk, capture, doc, tree, chunk>>
  BY Running DEF PipeInv, Worklists, WorkingOn, MarkIndexed
<1>2. man[f] # NULL /\ man[f] \in ManRow /\ man[f].normalized
  BY <1>1 DEF WorkingOn, PipeInv, TypeOK
<1>3. PICK row \in ManRow :
         /\ man' = [man EXCEPT ![f] = row]
         /\ row.sha = man[f].sha /\ row.extracted = man[f].extracted
         /\ row.normalized = man[f].normalized
  <2> DEFINE row == [man[f] EXCEPT !.indexed = TRUE, !.ambiguous = FALSE]
  <2>1. man' = [man EXCEPT ![f] = row]
    BY <1>2 DEF MarkIndexed, PipeInv, TypeOK
  <2>2. /\ row \in ManRow /\ row.sha = man[f].sha /\ row.extracted = man[f].extracted
        /\ row.normalized = man[f].normalized
    BY <1>2 DEF ManRow
  <2> HIDE DEF row
  <2> QED
    BY <2>1, <2>2
<1>4. /\ run' \in RunRow /\ run'.stage = "index" /\ run'.cur = run.cur
      /\ run'.todo = run.todo /\ run'.good = run.good \ {f} /\ run'.pc = run.pc
  BY <1>1 DEF RunRow
<1>5. man' \in [File -> ManRow \cup {NULL}]
  BY <1>3 DEF PipeInv, TypeOK
<1>6. TypeOK'
  BY <1>1, <1>4, <1>5 DEF PipeInv, TypeOK
<1>7. StageOrder'
  BY <1>1, <1>2, <1>3 DEF PipeInv, TypeOK, StageOrder
<1>8. WorkingOn(run)'
  BY <1>1, <1>3, <1>4 DEF WorkingOn, PipeInv, TypeOK, RunRow
<1>9. NoneNew
  BY <1>2, <1>3 DEF NoneNew, PipeInv, TypeOK
<1> QED
  BY <1>4, <1>9, <1>6, <1>7, <1>8 DEF PipeInv, Worklists

-----------------------------------------------------------------------------
\* Whatever the pipeline, a failure or the operator does keeps the invariant.
LEMMA PipeNext == PipeInv /\ [Next]_vars => PipeInv'
<1> SUFFICES ASSUME PipeInv, [Next]_vars PROVE PipeInv'
  OBVIOUS
<1>1. ASSUME NEW stages \in Commands, Start(stages) PROVE PipeInv'
  <2>1. stages \in Seq(Stage) /\ stages # <<>>
    <3>1. CASE stages = DefaultStages
      BY <3>1 DEF DefaultStages, Stage
    <3>2. ASSUME NEW stage \in Stage, stages = <<stage>>
          PROVE  stages \in Seq(Stage) /\ stages # <<>>
      BY <3>2
    <3> QED
      BY <3>1, <3>2
  <2> QED
    BY <1>1, <2>1, EnterKeeps DEF Start
<1>2. CASE Leave
  <2>1. run \in RunRow
    BY <1>2, Running DEF Leave, StageOver, PipeInv
  <2>2. CASE run.rest = <<>>
    BY <1>2, <2>2 DEF Leave, PipeInv, TypeOK, StageOrder, Worklists, store
  <2>3. CASE run.rest # <<>>
    BY <1>2, <2>1, <2>3, EnterKeeps DEF Leave, RunRow
  <2> QED
    BY <2>2, <2>3
<1>3. CASE Edits
  <2>1. PICK f \in File : \E bytes \in Held[f] : Edit(f, bytes)
    BY <1>3 DEF Edits
  <2>2. disk' \in [File -> UNION {Held[g] : g \in File}]
    BY <2>1 DEF Edit, PipeInv, TypeOK
  <2> QED
    BY <2>1, <2>2 DEF Edit, store, PipeInv, TypeOK, StageOrder, Worklists, WorkingOn
<1>4. CASE Crash
  BY <1>4 DEF Crash, store, PipeInv, TypeOK, StageOrder, Worklists
<1>5. CASE UNCHANGED vars
  BY <1>5 DEF vars, PipeInv, TypeOK, StageOrder, Worklists, WorkingOn
<1> QED
  BY <1>1, <1>2, <1>3, <1>4, <1>5, ScanFileKeeps, ScanAmbiguityKeeps, ScanDemoteKeeps,
     ExtractKeeps, NormalizeKeeps, IndexKeeps, BuildFailKeeps, MarkIndexedKeeps
  DEF Next, Good, Fault, Runs

\* The invariant the theorems rest on.
LEMMA PipeInductive == Spec => []PipeInv
BY PipeInit, PipeNext, PTL DEF Spec

\* The tables and the process keep their types, whatever fails or crashes.
THEOREM PipelineTyped == Spec => []TypeOK
<1>1. PipeInv => TypeOK
  BY DEF PipeInv
<1> QED
  BY <1>1, PipeInductive, PTL

\* For every corpus, every order of stages and every history of edits, failures
\* and crashes: the stage timestamps come in order, and an extracted row has a
\* capture for its hash.
THEOREM StagesInOrder == Spec => []StageOrder
<1>1. PipeInv => StageOrder
  BY DEF PipeInv
<1> QED
  BY <1>1, PipeInductive, PTL

-----------------------------------------------------------------------------
(* What a normalized row says of silver, when no two paths share a document. *)

OnePath == \A f, g \in File : DocOf[f] = DocOf[g] => f = g

Serves(f) ==
    /\ doc[DocOf[f]] = man[f].sha
    /\ tree[DocOf[f]] = [src |-> capture[f][man[f].sha], full |-> TRUE]

Rebuilding == run # Idle /\ run.stage = "normalize" /\ run.pc \in {"delete", "insert", "mark"}

\* A normalized row is served; so is, before it is marked, the file normalize has
\* finished inserting; and from its first statement on the document has its hash.
ServedInv ==
    /\ \A f \in File : (man[f] # NULL /\ man[f].normalized) => Serves(f)
    /\ Rebuilding => run.cur \in File /\ doc[DocOf[run.cur]] = man[run.cur].sha
    /\ Rebuilding /\ run.pc = "mark" => Serves(run.cur)

\* Where no row is newly normalized and silver and bronze are left alone.
LEMMA ServedSame ==
    ASSUME ServedInv, NoneNew, UNCHANGED <<capture, doc, tree>>, ~Rebuilding'
    PROVE  ServedInv'
BY DEF ServedInv, NoneNew, Serves

\* Rows that keep their stages are not newly normalized.
LEMMA SameNone ==
    ASSUME SameStages
    PROVE  NoneNew
BY DEF SameStages, NoneNew

\* extract overwrites captures of rows that are not extracted, hence not
\* normalized.
LEMMA ServedExtract ==
    ASSUME PipeInv, ServedInv, NEW f \in File,
           ExtractCapture(f) \/ MarkExtracted(f) \/ ExtractUnreadable(f) \/ ExtractFail(f)
    PROVE  ServedInv'
<1>1. run # Idle /\ run \in RunRow /\ WorkingOn(run) /\ run.stage = "extract" /\ f \in run.todo
  BY InList DEF ExtractCapture, MarkExtracted, ExtractUnreadable, ExtractFail, Turn, At
<1>2. man[f] # NULL /\ man[f] \in ManRow /\ ~man[f].extracted /\ ~man[f].normalized
  BY <1>1 DEF WorkingOn, PipeInv, TypeOK, StageOrder
<1>3. CASE ExtractCapture(f)
  <2>1. ~Rebuilding'
    BY <1>1, <1>3 DEF ExtractCapture, Step, RunRow, Rebuilding
  <2>2. \A g \in File : g # f => capture'[g] = capture[g]
    BY <1>3 DEF ExtractCapture, PipeInv, TypeOK
  <2>3. ASSUME NEW g \in File, man[g] # NULL, man[g].normalized PROVE Serves(g)'
    BY <1>2, <1>3, <2>2, <2>3 DEF ExtractCapture, ServedInv, Serves
  <2> QED
    BY <1>3, <2>1, <2>3 DEF ExtractCapture, ServedInv
<1>4. CASE MarkExtracted(f)
  <2>1. ~Rebuilding'
    BY <1>1, <1>4 DEF MarkExtracted, FileDone, RunRow, Rebuilding
  <2>2. man' = [man EXCEPT ![f] = [man[f] EXCEPT !.extracted = TRUE, !.ambiguous = FALSE]]
    BY <1>2, <1>4 DEF MarkExtracted, PipeInv, TypeOK
  <2>3. ~[man[f] EXCEPT !.extracted = TRUE, !.ambiguous = FALSE].normalized
    BY <1>2 DEF ManRow
  <2>4. NoneNew
    BY <2>2, <2>3 DEF NoneNew, PipeInv, TypeOK
  <2> QED
    BY <1>4, <2>1, <2>4, ServedSame DEF MarkExtracted
<1>5. CASE ExtractUnreadable(f) \/ ExtractFail(f)
  <2>1. SameStages /\ run'.pc = "file"
    BY <1>1, <1>5, FailedKeeps DEF ExtractUnreadable, ExtractFail
  <2> QED
    BY <1>5, <2>1, SameNone, ServedSame DEF Rebuilding, ExtractUnreadable, ExtractFail
<1> QED
  BY <1>3, <1>4, <1>5

\* normalize takes apart the silver rows of a document whose only path is not
\* normalized, and marks the path when they are whole again.
LEMMA ServedNormalize ==
    ASSUME OnePath, PipeInv, ServedInv, NEW f \in File,
           \/ NormalizeSkip(f) \/ NormalizeDocument(f) \/ NormalizeDelete(f)
           \/ \E full \in BOOLEAN : NormalizeInsert(f, full)
           \/ MarkNormalized(f) \/ NormalizeFail(f)
    PROVE  ServedInv'
<1>1. /\ run # Idle /\ run \in RunRow /\ WorkingOn(run) /\ run.stage = "normalize"
      /\ f \in run.todo
  BY InList DEF NormalizeSkip, NormalizeDocument, NormalizeDelete, NormalizeInsert,
                MarkNormalized, NormalizeFail, Turn, At
<1>2. man[f] # NULL /\ man[f] \in ManRow /\ ~man[f].normalized
  BY <1>1 DEF WorkingOn, PipeInv, TypeOK
<1>3. \A g \in File : g # f => DocOf[g] # DocOf[f]
  BY DEF OnePath
<1>4. doc \in [Doc -> Sha \cup {NULL}] /\ tree \in [Doc -> TreeRow \cup {NULL}] /\ DocOf[f] \in Doc
  BY DEF PipeInv, TypeOK
<1>5. CASE NormalizeSkip(f) \/ NormalizeFail(f)
  <2>1. CASE NormalizeSkip(f)
    BY <1>1, <2>1, ServedSame DEF NormalizeSkip, FileDone, RunRow, Rebuilding, NoneNew, store
  <2>2. CASE NormalizeFail(f)
    <3>1. SameStages /\ run'.pc = "file"
      BY <1>1, <2>2, FailedKeeps DEF NormalizeFail
    <3> QED
      BY <2>2, <3>1, SameNone, ServedSame DEF Rebuilding, NormalizeFail
  <2> QED
    BY <1>5, <2>1, <2>2
<1>6. CASE NormalizeDocument(f)
  <2>1. doc' = [doc EXCEPT ![DocOf[f]] = man[f].sha] /\ UNCHANGED <<man, capture, tree>>
    BY <1>6 DEF NormalizeDocument
  <2>2. run'.cur = f /\ run'.pc = "delete"
    BY <1>1, <1>6 DEF NormalizeDocument, Step, RunRow
  <2>3. ASSUME NEW g \in File, man[g] # NULL, man[g].normalized PROVE Serves(g)'
    BY <1>2, <1>3, <1>4, <2>1, <2>3 DEF ServedInv, Serves
  <2>4. doc'[DocOf[f]] = man'[f].sha
    BY <1>4, <2>1
  <2> QED
    BY <2>1, <2>2, <2>3, <2>4 DEF ServedInv
<1>7. CASE NormalizeDelete(f)
  <2>1. tree' = [tree EXCEPT ![DocOf[f]] = NULL] /\ UNCHANGED <<man, capture, doc>>
    BY <1>7 DEF NormalizeDelete
  <2>2. run'.cur = f /\ run'.pc = "insert"
    BY <1>1, <1>7 DEF NormalizeDelete, Step, RunRow
  <2>3. ASSUME NEW g \in File, man[g] # NULL, man[g].normalized PROVE Serves(g)'
    BY <1>2, <1>3, <1>4, <2>1, <2>3 DEF ServedInv, Serves
  <2>4. doc[DocOf[f]] = man[f].sha
    BY <1>7 DEF NormalizeDelete, At, ServedInv, Rebuilding
  <2> QED
    BY <2>1, <2>2, <2>3, <2>4 DEF ServedInv
<1>8. ASSUME NEW full \in BOOLEAN, NormalizeInsert(f, full) PROVE ServedInv'
  <2>1. /\ tree' = [tree EXCEPT ![DocOf[f]] = [src |-> capture[f][man[f].sha], full |-> full]]
        /\ UNCHANGED <<man, capture, doc>>
    BY <1>8 DEF NormalizeInsert
  <2>2. run'.cur = f /\ (run'.pc = "mark" => full = TRUE)
    BY <1>1, <1>8 DEF NormalizeInsert, Step, RunRow
  <2>3. ASSUME NEW g \in File, man[g] # NULL, man[g].normalized PROVE Serves(g)'
    BY <1>2, <1>3, <1>4, <2>1, <2>3 DEF ServedInv, Serves
  <2>4. doc[DocOf[f]] = man[f].sha
    BY <1>8 DEF NormalizeInsert, At, ServedInv, Rebuilding
  <2>5. full = TRUE => Serves(f)'
    BY <1>4, <2>1, <2>4 DEF Serves
  <2> QED
    BY <2>1, <2>2, <2>3, <2>4, <2>5 DEF ServedInv
<1>9. CASE MarkNormalized(f)
  <2>1. ~Rebuilding'
    BY <1>1, <1>9 DEF MarkNormalized, FileDone, RunRow, Rebuilding
  <2>2. Serves(f)
    BY <1>9 DEF MarkNormalized, At, ServedInv, Rebuilding
  <2> DEFINE row == [man[f] EXCEPT !.normalized = TRUE, !.indexed = FALSE, !.ambiguous = FALSE]
  <2>3. man' = [man EXCEPT ![f] = row] /\ UNCHANGED <<capture, doc, tree>>
    BY <1>2, <1>9 DEF MarkNormalized, PipeInv, TypeOK
  <2>4. row.sha = man[f].sha
    BY <1>2 DEF ManRow
  <2> HIDE DEF row
  <2>5. ASSUME NEW g \in File, man'[g] # NULL, man'[g].normalized PROVE Serves(g)'
    <3>1. CASE g = f
      BY <2>2, <2>3, <2>4, <3>1 DEF Serves, PipeInv, TypeOK
    <3>2. CASE g # f
      BY <2>3, <2>5, <3>2 DEF ServedInv, Serves, PipeInv, TypeOK
    <3> QED
      BY <3>1, <3>2
  <2> QED
    BY <2>1, <2>5 DEF ServedInv
<1> QED
  BY <1>5, <1>6, <1>7, <1>8, <1>9

\* Whatever the pipeline, a failure or the operator does.
LEMMA ServedNext == OnePath /\ PipeInv /\ ServedInv /\ [Next]_vars => ServedInv'
<1> SUFFICES ASSUME OnePath, PipeInv, ServedInv, [Next]_vars PROVE ServedInv'
  OBVIOUS
<1>1. CASE Leave \/ Runs \/ Crash
  <2>1. ~Rebuilding' /\ UNCHANGED <<man, capture, doc, tree>>
    BY <1>1 DEF Leave, Runs, Start, Crash, Enter, Idle, Rebuilding, store
  <2> QED
    BY <2>1, ServedSame DEF NoneNew
<1>2. CASE Edits \/ UNCHANGED vars
  BY <1>2 DEF Edits, Edit, store, vars, ServedInv, Serves, Rebuilding
<1>3. ASSUME NEW f \in File, ScanFile(f) PROVE ServedInv'
  BY <1>3, ScanFileKeeps, ServedSame DEF Rebuilding, ScanFile
<1>4. CASE ScanAmbiguity \/ ScanDemote
  BY <1>4, ScanAmbiguityKeeps, ScanDemoteKeeps, SameNone, ServedSame
  DEF Rebuilding, ScanAmbiguity, ScanDemote
<1>5. CASE \/ ReapOrphans \/ IndexFileDone \/ IndexDone
           \/ \E f \in File : IndexFile(f) \/ MarkIndexedFail(f)
           \/ \E d \in Doc : \/ BuildSkip(d) \/ BuildDelete(d)
                             \/ \E full \in BOOLEAN : BuildInsert(d, full)
           \/ \E some \in SUBSET Doc : Embed(some) \/ IndexCorpus(some)
  <2>1. UNCHANGED <<man, capture, doc, tree>>
    BY <1>5 DEF ReapOrphans, IndexFileDone, IndexDone, IndexFile, MarkIndexedFail, BuildSkip,
       BuildDelete, BuildInsert, Embed, IndexCorpus, store
  <2>2. ~Rebuilding'
    BY <1>5, IndexKeeps DEF Rebuilding
  <2> QED
    BY <2>1, <2>2, ServedSame DEF NoneNew
<1>6. CASE (\E f \in File : IndexFileFail(f)) \/ (\E d \in Doc : BuildFail(d))
  <2>1. SameStages /\ ~Rebuilding' /\ UNCHANGED <<capture, doc, tree>>
    BY <1>6, BuildFailKeeps DEF Rebuilding, IndexFileFail, BuildFail
  <2> QED
    BY <2>1, SameNone, ServedSame
<1>7. ASSUME NEW f \in File, MarkIndexed(f) PROVE ServedInv'
  BY <1>7, MarkIndexedKeeps, ServedSame DEF Rebuilding, MarkIndexed
<1> QED
  BY <1>1, <1>2, <1>3, <1>4, <1>5, <1>6, <1>7, ServedExtract, ServedNormalize
  DEF Next, Good, Fault

\* For every corpus with one path per document: a normalized row has its whole
\* control tree in silver, of the bytes captured for its hash, although normalize
\* deletes and inserts without a transaction.
THEOREM TreesServed == OnePath => (Spec => []NormalizedServed)
<1> SUFFICES ASSUME OnePath PROVE Spec => []NormalizedServed
  OBVIOUS
<1>1. Init => ServedInv
  BY DEF Init, ServedInv, Rebuilding
<1>2. PipeInv /\ ServedInv /\ [Next]_vars => ServedInv'
  BY ServedNext
<1>3. ServedInv => NormalizedServed
  BY DEF ServedInv, Serves, NormalizedServed, Active
<1> QED
  BY <1>1, <1>2, <1>3, PipeInductive, PTL DEF Spec

-----------------------------------------------------------------------------
(* What an indexed row says of gold, when no file ever leaves data/.       *)

NoRemovals == \A f \in File : NULL \notin Held[f]

Whole(d) == tree[d] # NULL /\ tree[d].full
Built(d) == Live(d) /\ chunk[d].full

\* An indexed row whose chunks are not all there is not alone.  Nor is a normalized
\* row whose tree is torn: another path of the document took it apart and is not done.
TableFacts ==
    /\ \A f \in File : man[f] # NULL => man[f].status = "active"
    /\ \A d \in Doc : tree[d] # NULL => doc[d] # NULL
    /\ \A f \in File : (man[f] # NULL /\ man[f].normalized /\ ~Whole(DocOf[f])) =>
          \E g \in File : DocOf[g] = DocOf[f] /\ man[g] # NULL /\ ~man[g].normalized
    /\ \A f \in File : (man[f] # NULL /\ man[f].indexed /\ ~Complete(DocOf[f])) =>
          \E g \in File : Version(g) = Version(f) /\ man[g] # NULL /\ ~man[g].indexed

ManifestFacts(r) == r.stage = "manifest" => r.seen = File

NormalizeFacts(r) ==
    (r.stage = "normalize" /\ r.pc \in {"delete", "insert", "mark"}) =>
        /\ r.cur \in File /\ doc[DocOf[r.cur]] # NULL
        /\ r.pc = "mark" => Whole(DocOf[r.cur])

\* g waits for the next run: this one has given up on it, or is about to.
LeftOut(r, g) ==
    /\ man[g] # NULL /\ ~man[g].indexed
    /\ g \notin r.good /\ (g \in r.todo => g = r.cur)

\* The index stage: the documents of a file that is done have their chunks, are about
\* to be rebuilt, or were taken apart for a file of the version that is left out.
IndexFacts(r) == r.stage = "index" =>
    /\ r.pc = "file" => r.good = {} /\ r.cur = NULL
    /\ r.cur = NULL => r.docs = {}
    /\ r.cur # NULL => r.docs \subseteq Documents(Version(r.cur))
    /\ r.build # NULL => r.build \in r.docs
    /\ r.pc \in {"sparse", "stamp"} => r.cur = NULL /\ r.todo = {}
    /\ \A f \in r.todo \cup r.good : ~man[f].indexed
    /\ \A f \in r.good : \A d \in Documents(Version(f)) : tree[d] # NULL =>
          \/ Built(d) \/ d \in r.docs
          \/ \E g \in File : Version(g) = Version(f) /\ LeftOut(r, g)
    /\ (r.pc \in {"sparse", "stamp"} /\ r.good # {}) => \A d \in Doc : Live(d) => chunk[d].dense
    /\ (r.pc = "stamp" /\ r.good # {}) => \A d \in Doc : Live(d) => chunk[d].sparse

HolesInv ==
    /\ TableFacts
    /\ run # Idle => ManifestFacts(run) /\ NormalizeFacts(run) /\ IndexFacts(run)

\* The rows keep what the facts below read of them.
SameNeeds ==
    \A f \in File :
        /\ man'[f] # NULL <=> man[f] # NULL
        /\ man[f] # NULL => /\ man'[f].status = man[f].status
                            /\ man'[f].normalized = man[f].normalized
                            /\ man'[f].indexed = man[f].indexed

\* Where neither rows nor silver nor gold change.
LEMMA TablesSame ==
    ASSUME TableFacts, SameNeeds, UNCHANGED <<doc, tree, chunk>>
    PROVE  TableFacts'
BY DEF TableFacts, SameNeeds, Whole, Complete

\* Recording or clearing an error, and marking an extraction, are not read here.
LEMMA NeedsKept ==
    ASSUME TypeOK, NEW f \in File, man[f] # NULL, NEW row,
           man' = [man EXCEPT ![f] = row],
           \/ \E b \in BOOLEAN : row = [man[f] EXCEPT !.ambiguous = b]
           \/ row = [man[f] EXCEPT !.extracted = TRUE, !.ambiguous = FALSE]
    PROVE  SameNeeds
<1>1. man[f] \in ManRow
  BY DEF TypeOK
<1>2. /\ row \in ManRow /\ row.status = man[f].status
      /\ row.normalized = man[f].normalized /\ row.indexed = man[f].indexed
  BY <1>1 DEF ManRow
<1> QED
  BY <1>1, <1>2 DEF TypeOK, SameNeeds

\* The error of a row is cleared.
LEMMA ErrorCleared ==
    ASSUME TypeOK, NEW f \in File, man[f] # NULL, man' = [man EXCEPT ![f].ambiguous = FALSE]
    PROVE  SameNeeds
<1>1. man' = [man EXCEPT ![f] = [man[f] EXCEPT !.ambiguous = FALSE]]
  BY DEF TypeOK
<1> QED
  BY <1>1, NeedsKept

\* Every file is found by a walk.
LEMMA AllFound ==
    ASSUME NoRemovals, TypeOK
    PROVE  Listed("manifest") = File
<1>1. \A f \in File : disk[f] # NULL
  BY DEF TypeOK, NoRemovals
<1> QED
  BY <1>1 DEF Listed

\* A stage starts with nothing done.
LEMMA HolesEnter ==
    ASSUME NoRemovals, PipeInv, HolesInv, NEW stages \in Seq(Stage), stages # <<>>,
           run' = Enter(stages), UNCHANGED <<disk, store>>
    PROVE  HolesInv'
<1> DEFINE stage == Head(stages)
<1>1. /\ run'.stage = stage /\ run'.pc = "file" /\ run'.cur = NULL /\ run'.good = {}
      /\ run'.docs = {} /\ run'.build = NULL /\ run'.todo = Listed(stage)
      /\ stage = "manifest" => run'.seen = File
  BY AllFound DEF Enter, PipeInv
<1>2. TableFacts'
  BY TablesSame DEF HolesInv, SameNeeds, store
<1>3. ManifestFacts(run') /\ NormalizeFacts(run)'
  BY <1>1 DEF ManifestFacts, NormalizeFacts
<1>4. stage = "index" => \A f \in Listed(stage) : ~man'[f].indexed
  BY DEF Listed, ListFilesToIndex, store
<1>5. IndexFacts(run)'
  BY <1>1, <1>4 DEF IndexFacts
<1> QED
  BY <1>2, <1>3, <1>5 DEF HolesInv, ManifestFacts

\* manifest: a row that is scanned anew waits for every stage.
LEMMA HolesScanFile ==
    ASSUME PipeInv, HolesInv, NEW f \in File, ScanFile(f)
    PROVE  HolesInv'
<1>1. /\ run # Idle /\ run \in RunRow /\ run.stage = "manifest"
      /\ UNCHANGED <<disk, capture, doc, tree, chunk>>
  BY Running DEF PipeInv, ScanFile, Turn
<1>2. \A sha \in Sha :
         /\ Upserted(f, sha) \in ManRow /\ Upserted(f, sha).status = "active"
         /\ \/ /\ man[f] # NULL
               /\ Upserted(f, sha).normalized = man[f].normalized
               /\ Upserted(f, sha).indexed = man[f].indexed
            \/ ~Upserted(f, sha).normalized /\ ~Upserted(f, sha).indexed
  <2> TAKE sha \in Sha
  <2>1. CASE man[f] # NULL /\ man[f].sha = sha
    <3>1. man[f] \in ManRow
      BY <2>1 DEF PipeInv, TypeOK
    <3>2. Upserted(f, sha) = [man[f] EXCEPT !.status = "active"]
      BY <2>1 DEF Upserted
    <3> QED
      BY <2>1, <3>1, <3>2 DEF ManRow
  <2>2. CASE ~(man[f] # NULL /\ man[f].sha = sha)
    BY <2>2 DEF Upserted, ManRow
  <2> QED
    BY <2>1, <2>2
<1>3. PICK row \in ManRow :
         /\ man' = [man EXCEPT ![f] = row] /\ row.status = "active"
         /\ \/ /\ man[f] # NULL
               /\ row.normalized = man[f].normalized /\ row.indexed = man[f].indexed
            \/ ~row.normalized /\ ~row.indexed
  <2>1. CASE disk[f] \in Content
    BY <1>2, <2>1 DEF ScanFile, Sha
  <2>2. CASE disk[f] \notin Content
    <3> DEFINE up == Upserted(f, Unhashed)
               row == [up EXCEPT !.ambiguous = FALSE]
    <3>1. up \in ManRow
      BY <1>2 DEF Sha
    <3>2. /\ row \in ManRow /\ row.status = up.status
          /\ row.normalized = up.normalized /\ row.indexed = up.indexed
      <4> HIDE DEF up
      <4> QED
        BY <3>1 DEF ManRow
    <3>3. man' = [man EXCEPT ![f] = row]
      BY <2>2 DEF ScanFile
    <3> QED
      BY <1>2, <3>2, <3>3 DEF Sha
  <2> QED
    BY <2>1, <2>2
<1>4. /\ \A g \in File : g # f => man'[g] = man[g]
      /\ man'[f] = row /\ row # NULL
  BY <1>3 DEF PipeInv, TypeOK
<1>5. \A g \in File :
         /\ man[g] # NULL /\ ~man[g].normalized => man'[g] # NULL /\ ~man'[g].normalized
         /\ man[g] # NULL /\ ~man[g].indexed => man'[g] # NULL /\ ~man'[g].indexed
         /\ man'[g] # NULL /\ man'[g].normalized => man[g] # NULL /\ man[g].normalized
         /\ man'[g] # NULL /\ man'[g].indexed => man[g] # NULL /\ man[g].indexed
         /\ man'[g] # NULL => man'[g].status = "active"
  <2>1. CASE row.normalized = man[f].normalized /\ row.indexed = man[f].indexed /\ man[f] # NULL
    BY <1>3, <1>4, <2>1 DEF HolesInv, TableFacts
  <2>2. CASE ~row.normalized /\ ~row.indexed
    BY <1>3, <1>4, <2>2 DEF HolesInv, TableFacts
  <2> QED
    BY <1>3, <2>1, <2>2
<1>6. TableFacts'
  <2>1. TableFacts
    BY DEF HolesInv
  <2> QED
    BY <1>1, <1>5, <2>1 DEF TableFacts, Whole, Complete
<1>7. run' \in RunRow /\ run'.stage = "manifest" /\ run'.seen = run.seen
  <2>1. CASE disk[f] \in Content
    <3>1. run' = [run EXCEPT !.todo = @ \ {f}, !.good = @ \cup {f}]
      BY <2>1 DEF ScanFile
    <3> QED
      BY <1>1, <3>1 DEF RunRow
  <2>2. CASE disk[f] \notin Content
    <3>1. run' = [run EXCEPT !.todo = @ \ {f}, !.rest = <<>>]
      BY <2>2 DEF ScanFile
    <3> QED
      BY <1>1, <3>1, NoStages DEF RunRow
  <2> QED
    BY <2>1, <2>2
<1>8. ManifestFacts(run)
  BY <1>1 DEF HolesInv
<1> QED
  BY <1>1, <1>6, <1>7, <1>8 DEF HolesInv, ManifestFacts, NormalizeFacts, IndexFacts

\* manifest: reported or demoted rows; with every file found none is demoted.
LEMMA HolesScanEnd ==
    ASSUME PipeInv, HolesInv, ScanAmbiguity \/ ScanDemote
    PROVE  HolesInv'
<1>1. /\ run # Idle /\ run \in RunRow /\ run.stage = "manifest"
      /\ UNCHANGED <<disk, capture, doc, tree, chunk>>
  BY Running DEF PipeInv, ScanAmbiguity, ScanDemote
<1>2. run.seen = File /\ TableFacts
  BY <1>1 DEF HolesInv, ManifestFacts
<1>3. SameNeeds
  <2>1. CASE ScanAmbiguity
    <3> DEFINE amb == Ambiguous(run.good)
    <3>1. \A f \in amb : man[f] # NULL /\ f \in File
      BY <1>1 DEF Ambiguous, PipeInv, Worklists, WorkingOn, RunRow
    <3>2. man' = [f \in File |-> IF f \in amb THEN [man[f] EXCEPT !.ambiguous = TRUE] ELSE man[f]]
      BY <2>1 DEF ScanAmbiguity
    <3>3. \A f \in amb : LET row == [man[f] EXCEPT !.ambiguous = TRUE] IN
             /\ row \in ManRow /\ row.status = man[f].status
             /\ row.normalized = man[f].normalized /\ row.indexed = man[f].indexed
      <4> TAKE f \in amb
      <4>1. man[f] \in ManRow
        BY <3>1 DEF PipeInv, TypeOK
      <4> QED
        BY <4>1 DEF ManRow
    <3> HIDE DEF amb
    <3> QED
      BY <3>1, <3>2, <3>3 DEF SameNeeds
  <2>2. CASE ScanDemote
    <3>1. \A f \in File : man'[f] = man[f]
      BY <1>2, <2>2 DEF ScanDemote
    <3> QED
      BY <3>1 DEF SameNeeds
  <2> QED
    BY <2>1, <2>2
<1>4. run' \in RunRow /\ run'.stage = "manifest" /\ run'.seen = run.seen
  <2>1. CASE ScanAmbiguity
    <3>1. PICK rest \in Seq(Stage) : run' = [run EXCEPT !.pc = "demote", !.rest = rest]
      <4>1. CASE Ambiguous(run.good) = {}
        <5>1. run' = [run EXCEPT !.pc = "demote", !.rest = run.rest]
          BY <2>1, <4>1 DEF ScanAmbiguity
        <5> QED
          BY <1>1, <5>1 DEF RunRow
      <4>2. CASE Ambiguous(run.good) # {}
        BY <2>1, <4>2, NoStages DEF ScanAmbiguity
      <4> QED
        BY <4>1, <4>2
    <3> QED
      BY <1>1, <3>1 DEF RunRow
  <2>2. CASE ScanDemote
    BY <1>1, <2>2 DEF ScanDemote, RunRow
  <2> QED
    BY <2>1, <2>2
<1>5. TableFacts'
  BY <1>1, <1>2, <1>3, TablesSame
<1> QED
  BY <1>1, <1>2, <1>4, <1>5 DEF HolesInv, ManifestFacts, NormalizeFacts, IndexFacts

\* A file that failed leaves the tables as they are.
LEMMA HolesFailed ==
    ASSUME PipeInv, HolesInv, run # Idle, run.stage \in {"extract", "normalize"},
           NEW f \in run.todo, FileFailed(f), UNCHANGED <<doc, tree, chunk>>
    PROVE  HolesInv'
<1>1. run \in RunRow /\ f \in File /\ WorkingOn(run)
  BY Running DEF PipeInv, RunRow, Worklists
<1>2. man[f] # NULL
  BY <1>1 DEF WorkingOn
<1>3. SameNeeds
  BY <1>1, <1>2, ErrorCleared DEF FileFailed, PipeInv
<1>4. run' \in RunRow /\ run'.stage = run.stage /\ run'.pc = "file"
  BY <1>1, NoStages DEF FileFailed, RunRow
<1>5. TableFacts'
  BY <1>3, TablesSame DEF HolesInv
<1> QED
  BY <1>4, <1>5 DEF HolesInv, ManifestFacts, NormalizeFacts, IndexFacts

\* extract touches neither silver nor gold.
LEMMA HolesExtract ==
    ASSUME PipeInv, HolesInv, NEW f \in File,
           ExtractCapture(f) \/ MarkExtracted(f) \/ ExtractUnreadable(f) \/ ExtractFail(f)
    PROVE  HolesInv'
<1>1. /\ run # Idle /\ run \in RunRow /\ WorkingOn(run) /\ run.stage = "extract"
      /\ f \in run.todo
  BY InList DEF ExtractCapture, MarkExtracted, ExtractUnreadable, ExtractFail, Turn, At
<1>2. man[f] # NULL
  BY <1>1 DEF WorkingOn
<1>3. CASE ExtractCapture(f)
  <2>1. run' \in RunRow /\ run'.stage = "extract"
    BY <1>1, <1>3 DEF ExtractCapture, Step, RunRow
  <2>2. TableFacts'
    BY <1>3, TablesSame DEF ExtractCapture, HolesInv, SameNeeds
  <2> QED
    BY <2>1, <2>2 DEF HolesInv, ManifestFacts, NormalizeFacts, IndexFacts
<1>4. CASE MarkExtracted(f)
  <2>1. run' \in RunRow /\ run'.stage = "extract"
    BY <1>1, <1>4 DEF MarkExtracted, FileDone, RunRow
  <2>2. man' = [man EXCEPT ![f] = [man[f] EXCEPT !.extracted = TRUE, !.ambiguous = FALSE]]
    BY <1>2, <1>4 DEF MarkExtracted, PipeInv, TypeOK
  <2>3. SameNeeds
    BY <1>2, <2>2, NeedsKept DEF PipeInv
  <2>4. TableFacts'
    BY <1>4, <2>3, TablesSame DEF MarkExtracted, HolesInv
  <2> QED
    BY <2>1, <2>4 DEF HolesInv, ManifestFacts, NormalizeFacts, IndexFacts
<1>5. CASE ExtractUnreadable(f) \/ ExtractFail(f)
  BY <1>1, <1>5, HolesFailed DEF ExtractUnreadable, ExtractFail
<1> QED
  BY <1>3, <1>4, <1>5

\* normalize: while a document is taken apart, its file waits for both stages.
LEMMA HolesNormalize ==
    ASSUME PipeInv, HolesInv, NEW f \in File,
           \/ NormalizeSkip(f) \/ NormalizeDocument(f) \/ NormalizeDelete(f)
           \/ \E full \in BOOLEAN : NormalizeInsert(f, full)
           \/ MarkNormalized(f) \/ NormalizeFail(f)
    PROVE  HolesInv'
<1>1. /\ run # Idle /\ run \in RunRow /\ WorkingOn(run) /\ run.stage = "normalize"
      /\ f \in run.todo
  BY InList DEF NormalizeSkip, NormalizeDocument, NormalizeDelete, NormalizeInsert,
                MarkNormalized, NormalizeFail, Turn, At
<1>2. man[f] # NULL /\ man[f] \in ManRow /\ ~man[f].normalized /\ ~man[f].indexed
  BY <1>1 DEF WorkingOn, PipeInv, TypeOK, StageOrder
<1>3. /\ doc \in [Doc -> Sha \cup {NULL}] /\ tree \in [Doc -> TreeRow \cup {NULL}]
      /\ chunk \in [Doc -> ChunkRow \cup {NULL}] /\ DocOf[f] \in Doc
  BY DEF PipeInv, TypeOK
<1>4. TableFacts /\ NormalizeFacts(run)
  BY <1>1 DEF HolesInv
<1>5. CASE NormalizeSkip(f)
  <2>1. run' \in RunRow /\ run'.stage = "normalize" /\ run'.pc = "file"
    BY <1>1, <1>5 DEF NormalizeSkip, FileDone, RunRow
  <2>2. TableFacts'
    BY <1>4, <1>5, TablesSame DEF NormalizeSkip, store, SameNeeds
  <2> QED
    BY <2>1, <2>2 DEF HolesInv, ManifestFacts, NormalizeFacts, IndexFacts
<1>6. CASE NormalizeFail(f)
  BY <1>1, <1>6, HolesFailed DEF NormalizeFail
<1>7. CASE NormalizeDocument(f)
  <2>1. run' \in RunRow /\ run'.stage = "normalize" /\ run'.pc = "delete" /\ run'.cur = f
    BY <1>1, <1>7 DEF NormalizeDocument, Step, RunRow
  <2>2. /\ doc' = [doc EXCEPT ![DocOf[f]] = man[f].sha] /\ man[f].sha # NULL
        /\ UNCHANGED <<man, tree, chunk>>
    <3>1. man[f].sha \in Sha
      BY <1>2 DEF ManRow
    <3> QED
      BY <1>7, <3>1 DEF NormalizeDocument, Sha
  <2>3. TableFacts'
    BY <1>3, <1>4, <2>2 DEF TableFacts, Whole, Complete
  <2> QED
    BY <1>3, <2>1, <2>2, <2>3 DEF HolesInv, ManifestFacts, NormalizeFacts, IndexFacts
<1>8. ASSUME NEW d \in Doc, d = DocOf[f], doc[d] # NULL, UNCHANGED <<man, doc>>,
             \A e \in Doc : e # d => tree'[e] = tree[e] /\ chunk'[e] = chunk[e]
      PROVE  TableFacts'
  <2>1. \A g \in File : DocOf[g] # d => (Whole(DocOf[g]) => Whole(DocOf[g])')
    BY <1>8 DEF Whole
  <2>2. \A g \in File : DocOf[g] # d => (Complete(DocOf[g]) => Complete(DocOf[g])')
    BY <1>8 DEF Complete
  <2>3. \A g \in File : DocOf[g] = d => Version(g) = Version(f)
    BY <1>8 DEF Version
  <2>4. \A e \in Doc : tree'[e] # NULL => doc'[e] # NULL
    BY <1>4, <1>8 DEF TableFacts
  <2> QED
    BY <1>2, <1>4, <1>8, <2>1, <2>2, <2>3, <2>4 DEF TableFacts
<1>9. CASE NormalizeDelete(f)
  <2>1. run' \in RunRow /\ run'.stage = "normalize" /\ run'.pc = "insert" /\ run'.cur = f
    BY <1>1, <1>9 DEF NormalizeDelete, Step, RunRow
  <2>2. doc[DocOf[f]] # NULL
    BY <1>1, <1>4, <1>9 DEF NormalizeDelete, At, NormalizeFacts
  <2>3. /\ UNCHANGED <<man, doc>>
        /\ \A e \in Doc : e # DocOf[f] => tree'[e] = tree[e] /\ chunk'[e] = chunk[e]
    BY <1>3, <1>9 DEF NormalizeDelete
  <2>4. TableFacts'
    BY <1>3, <1>8, <2>2, <2>3
  <2> QED
    BY <2>1, <2>2, <2>3, <2>4 DEF HolesInv, ManifestFacts, NormalizeFacts, IndexFacts
<1>10. ASSUME NEW full \in BOOLEAN, NormalizeInsert(f, full) PROVE HolesInv'
  <2>1. /\ run' \in RunRow /\ run'.stage = "normalize" /\ run'.cur = f
        /\ run'.pc = "mark" => full = TRUE
    <3>1. PICK pc \in {"mark", "insert"} :
             run' = [run EXCEPT !.pc = pc, !.cur = f] /\ (pc = "mark" => full = TRUE)
      BY <1>10 DEF NormalizeInsert, Step
    <3> QED
      BY <1>1, <3>1 DEF RunRow
  <2>2. doc[DocOf[f]] # NULL
    BY <1>1, <1>4, <1>10 DEF NormalizeInsert, At, NormalizeFacts
  <2>3. /\ UNCHANGED <<man, doc, chunk>>
        /\ tree' = [tree EXCEPT ![DocOf[f]] = [src |-> capture[f][man[f].sha], full |-> full]]
    BY <1>10 DEF NormalizeInsert
  <2>4. TableFacts'
    BY <1>3, <1>8, <2>2, <2>3
  <2>5. full = TRUE => Whole(DocOf[f])'
    <3>1. capture[f][man[f].sha] \in Content
      <4>1. man[f].sha \in Sha
        BY <1>2 DEF ManRow
      <4>2. man[f].extracted
        BY <1>1 DEF WorkingOn
      <4> QED
        BY <1>2, <4>1, <4>2 DEF PipeInv, TypeOK, StageOrder
    <3>2. [src |-> capture[f][man[f].sha], full |-> full] \in TreeRow
      BY <3>1 DEF TreeRow
    <3> QED
      BY <1>3, <2>3, <3>2 DEF Whole
  <2> QED
    BY <2>1, <2>2, <2>3, <2>4, <2>5 DEF HolesInv, ManifestFacts, NormalizeFacts, IndexFacts
<1>11. CASE MarkNormalized(f)
  <2>1. run' \in RunRow /\ run'.stage = "normalize" /\ run'.pc = "file"
    BY <1>1, <1>11 DEF MarkNormalized, FileDone, RunRow
  <2>2. Whole(DocOf[f])
    BY <1>1, <1>4, <1>11 DEF MarkNormalized, At, NormalizeFacts
  <2> DEFINE row == [man[f] EXCEPT !.normalized = TRUE, !.indexed = FALSE, !.ambiguous = FALSE]
  <2>3. man' = [man EXCEPT ![f] = row] /\ UNCHANGED <<capture, doc, tree, chunk>>
    BY <1>2, <1>11 DEF MarkNormalized, PipeInv, TypeOK
  <2>4. /\ row \in ManRow /\ row.status = man[f].status /\ row.normalized /\ ~row.indexed
    BY <1>2 DEF ManRow
  <2> HIDE DEF row
  <2>5. /\ man'[f] = row /\ row # NULL
        /\ \A g \in File : g # f => man'[g] = man[g]
    BY <2>3, <2>4 DEF PipeInv, TypeOK
  <2>6. \A g \in File : (man'[g] # NULL /\ man'[g].normalized /\ ~Whole(DocOf[g])) =>
           \E h \in File : DocOf[h] = DocOf[g] /\ man'[h] # NULL /\ ~man'[h].normalized
    <3> SUFFICES ASSUME NEW g \in File, man'[g] # NULL, man'[g].normalized, ~Whole(DocOf[g])
                 PROVE  \E h \in File : DocOf[h] = DocOf[g] /\ man'[h] # NULL /\ ~man'[h].normalized
      OBVIOUS
    <3>1. g # f /\ DocOf[g] # DocOf[f]
      BY <2>2
    <3>2. PICK h \in File : DocOf[h] = DocOf[g] /\ man[h] # NULL /\ ~man[h].normalized
      BY <1>4, <2>5, <3>1 DEF TableFacts
    <3> QED
      BY <2>5, <3>1, <3>2
  <2>7. \A g \in File : (man'[g] # NULL /\ man'[g].indexed /\ ~Complete(DocOf[g])) =>
           \E h \in File : Version(h) = Version(g) /\ man'[h] # NULL /\ ~man'[h].indexed
    <3> SUFFICES ASSUME NEW g \in File, man'[g] # NULL, man'[g].indexed, ~Complete(DocOf[g])
                 PROVE  \E h \in File : Version(h) = Version(g) /\ man'[h] # NULL /\ ~man'[h].indexed
      OBVIOUS
    <3>1. g # f
      BY <2>4, <2>5
    <3>2. PICK h \in File : Version(h) = Version(g) /\ man[h] # NULL /\ ~man[h].indexed
      BY <1>4, <2>5, <3>1 DEF TableFacts
    <3> QED
      BY <2>4, <2>5, <3>2
  <2>8. \A g \in File : man'[g] # NULL => man'[g].status = "active"
    BY <1>2, <1>4, <2>4, <2>5 DEF TableFacts
  <2>9. TableFacts'
    BY <1>4, <2>3, <2>6, <2>7, <2>8 DEF TableFacts, Whole, Complete
  <2> QED
    BY <2>1, <2>9 DEF HolesInv, ManifestFacts, NormalizeFacts, IndexFacts
<1> QED
  BY <1>5, <1>6, <1>7, <1>9, <1>10, <1>11

-----------------------------------------------------------------------------
\* A document that has its chunks keeps them over a step that leaves gold alone.
LEMMA BuiltSame ==
    ASSUME UNCHANGED chunk, NEW d \in Doc
    PROVE  Built(d)' <=> Built(d)
BY DEF Built, Live

\* index: where gold is left alone and no file done is added.
LEMMA HolesListing ==
    ASSUME HolesInv, run # Idle, run.stage = "index", run.pc # "file", run' # Idle,
           run'.stage = "index", run'.pc # "file", SameNeeds, UNCHANGED <<doc, tree, chunk>>,
           run'.good \subseteq run.good, run'.todo \subseteq run.todo,
           run'.good \subseteq File, run'.todo \subseteq File,
           run.good \cup run.todo \subseteq {f \in File : man[f] # NULL},
           run'.cur = NULL => run'.docs = {},
           run'.cur # NULL => run'.cur = run.cur, run'.docs \subseteq run.docs,
           run'.build # NULL => run'.build \in run'.docs,
           run'.pc \in {"sparse", "stamp"} => run'.pc = run.pc /\ run'.cur = NULL /\ run'.todo = {},
           \A d \in run.docs \ run'.docs : tree[d] = NULL,
           run.cur # NULL /\ run'.cur = NULL => run.cur \notin run'.todo
    PROVE  HolesInv'
<1>1. IndexFacts(run) /\ TableFacts
  BY DEF HolesInv
<1>2. TableFacts'
  BY <1>1, TablesSame
<1>3. \A f \in File : Documents(Version(f))' = Documents(Version(f))
  BY DEF Documents, Version
<1>4. \A g \in File : LeftOut(run, g) => LeftOut(run, g)'
  BY DEF LeftOut, SameNeeds
<1>5. \A f \in run'.good : \A d \in Documents(Version(f))' : tree'[d] # NULL =>
         \/ Built(d)' \/ d \in run'.docs
         \/ \E g \in File : Version(g) = Version(f) /\ LeftOut(run, g)'
  BY <1>1, <1>3, <1>4, BuiltSame DEF IndexFacts, Documents
<1>6. \A f \in run'.todo \cup run'.good : ~man'[f].indexed
  BY <1>1 DEF IndexFacts, SameNeeds
<1>7. run'.cur # NULL => run'.docs \subseteq Documents(Version(run.cur))'
  <2>1. run.cur # NULL => run.docs \subseteq Documents(Version(run.cur))
    BY <1>1 DEF IndexFacts
  <2> QED
    BY <2>1 DEF Documents, Version
<1>8. /\ (run'.pc \in {"sparse", "stamp"} /\ run'.good # {}) =>
            \A d \in Doc : Live(d)' => chunk'[d].dense
      /\ (run'.pc = "stamp" /\ run'.good # {}) => \A d \in Doc : Live(d)' => chunk'[d].sparse
  <2>1. /\ (run.pc \in {"sparse", "stamp"} /\ run.good # {}) => \A d \in Doc : Live(d) => chunk[d].dense
        /\ (run.pc = "stamp" /\ run.good # {}) => \A d \in Doc : Live(d) => chunk[d].sparse
    BY <1>1 DEF IndexFacts
  <2> QED
    BY <2>1 DEF Live
<1>9. IndexFacts(run)'
  BY <1>5, <1>6, <1>7, <1>8 DEF IndexFacts
<1> QED
  BY <1>2, <1>9 DEF HolesInv, ManifestFacts, NormalizeFacts

\* index: a file is listed, passed over or given up; its documents are about to be
\* rebuilt.
LEMMA HolesIndexFile ==
    ASSUME PipeInv, HolesInv, NEW f \in File, IndexFile(f)
    PROVE  HolesInv'
<1>1. /\ run # Idle /\ run \in RunRow /\ WorkingOn(run) /\ run.stage = "index"
      /\ run.pc = "build" /\ run.cur = NULL /\ f \in run.todo
      /\ UNCHANGED <<disk, man, capture, doc, tree, chunk>>
  BY Running DEF PipeInv, Worklists, IndexFile, Building, store
<1>2. IndexFacts(run) /\ TableFacts
  BY <1>1 DEF HolesInv
<1>3. /\ run' \in RunRow /\ run'.stage = "index" /\ run'.pc = "build" /\ run'.cur = f
      /\ run'.docs = Documents(Version(f)) /\ run'.good = run.good \cup {f}
      /\ run'.todo = run.todo /\ run'.build = run.build
  <2>1. Documents(Version(f)) \in SUBSET Doc
    BY DEF Documents
  <2> QED
    BY <1>1, <2>1 DEF IndexFile, RunRow
<1>4. run.docs = {} /\ run.build = NULL
  BY <1>1, <1>2 DEF IndexFacts
<1>5. TableFacts'
  BY <1>1, <1>2, TablesSame DEF SameNeeds
<1>6. \A g \in File : LeftOut(run, g) => LeftOut(run, g)' /\ g # f
  BY <1>1, <1>3 DEF LeftOut
<1>7. \A g \in run'.good : \A d \in Documents(Version(g)) : tree[d] # NULL =>
         \/ Built(d) \/ d \in run'.docs
         \/ \E h \in File : Version(h) = Version(g) /\ LeftOut(run, h)'
  <2>1. \A d \in Documents(Version(f)) : d \in run'.docs
    BY <1>3
  <2>2. \A g \in run.good : \A d \in Documents(Version(g)) : tree[d] # NULL =>
           \/ Built(d) \/ \E h \in File : Version(h) = Version(g) /\ LeftOut(run, h)
    BY <1>1, <1>2, <1>4 DEF IndexFacts
  <2> QED
    BY <1>3, <1>6, <2>1, <2>2
<1>8. IndexFacts(run)'
  <2>1. \A g \in run'.good : \A d \in Documents(Version(g))' : tree'[d] # NULL =>
           \/ Built(d)' \/ d \in run'.docs
           \/ \E h \in File : Version(h) = Version(g) /\ LeftOut(run, h)'
    BY <1>1, <1>7, BuiltSame DEF Documents
  <2>2. \A g \in run'.todo \cup run'.good : ~man'[g].indexed
    BY <1>1, <1>2, <1>3 DEF IndexFacts
  <2>3. run'.docs \subseteq Documents(Version(f))'
    BY <1>1, <1>3 DEF Documents
  <2> QED
    BY <1>1, <1>3, <1>4, <2>1, <2>2, <2>3 DEF IndexFacts
<1> QED
  BY <1>3, <1>5, <1>8 DEF HolesInv, ManifestFacts, NormalizeFacts

\* index: the other steps that leave gold alone.
LEMMA HolesPass ==
    ASSUME PipeInv, HolesInv,
           \/ IndexFileDone
           \/ \E f \in File : IndexFileFail(f) \/ MarkIndexedFail(f)
           \/ \E d \in Doc : BuildSkip(d)
    PROVE  HolesInv'
<1>1. /\ run # Idle /\ run \in RunRow /\ WorkingOn(run) /\ UNCHANGED <<doc, tree, chunk>>
      /\ run.stage = "index" /\ run.pc \in {"build", "stamp"}
  BY Running DEF PipeInv, Worklists, WorkingOn, IndexFileDone, IndexFileFail, MarkIndexedFail,
     BuildSkip, Building, store
<1>2. IndexFacts(run)
  BY <1>1 DEF HolesInv
<1>3. \A f \in run.good \cup run.todo : f \in File /\ man[f] # NULL
  BY <1>1 DEF WorkingOn, RunRow
<1>4. run.good \subseteq File /\ run.todo \subseteq File /\ run.docs \subseteq Doc
  BY <1>1 DEF RunRow
<1>5. CASE IndexFileDone
  <2>1. /\ run.pc = "build" /\ run.cur # NULL /\ run.docs = {}
        /\ run' = [run EXCEPT !.todo = @ \ {run.cur}, !.cur = NULL] /\ UNCHANGED man
    BY <1>5 DEF IndexFileDone, Building, store
  <2>2. /\ run' \in RunRow /\ run' # Idle /\ run'.stage = "index" /\ run'.pc = "build"
        /\ run'.cur = NULL /\ run'.docs = {} /\ run'.good = run.good
        /\ run'.todo = run.todo \ {run.cur} /\ run'.build = run.build
    BY <1>1, <2>1 DEF RunRow, Idle
  <2>3. run.build = NULL
    BY <1>1, <1>2, <2>1 DEF IndexFacts
  <2>4. SameNeeds
    BY <2>1 DEF SameNeeds
  <2> QED
    BY <1>1, <1>3, <1>4, <2>1, <2>2, <2>3, <2>4, HolesListing
<1>6. ASSUME NEW d \in Doc, BuildSkip(d) PROVE HolesInv'
  <2>1. /\ run.pc = "build" /\ run.build = NULL /\ d \in run.docs /\ tree[d] = NULL
        /\ run' = [run EXCEPT !.docs = @ \ {d}] /\ UNCHANGED man
    BY <1>6 DEF BuildSkip, Building, store
  <2>2. /\ run' \in RunRow /\ run' # Idle /\ run'.stage = "index" /\ run'.pc = "build"
        /\ run'.cur = run.cur /\ run'.docs = run.docs \ {d} /\ run'.good = run.good
        /\ run'.todo = run.todo /\ run'.build = NULL
    BY <1>1, <2>1 DEF RunRow, Idle
  <2>3. run.cur # NULL
    BY <1>1, <1>2, <2>1 DEF IndexFacts
  <2>4. SameNeeds
    BY <2>1 DEF SameNeeds
  <2> QED
    BY <1>1, <1>3, <1>4, <2>1, <2>2, <2>3, <2>4, HolesListing
<1>7. ASSUME NEW f \in File, IndexFileFail(f) PROVE HolesInv'
  <2>1. /\ run.pc = "build" /\ run.cur = NULL /\ f \in run.todo
        /\ run' = [run EXCEPT !.todo = @ \ {f}] /\ man' = [man EXCEPT ![f].ambiguous = FALSE]
    BY <1>7 DEF IndexFileFail, Building
  <2>2. /\ run' \in RunRow /\ run' # Idle /\ run'.stage = "index" /\ run'.pc = "build"
        /\ run'.cur = NULL /\ run'.docs = run.docs /\ run'.good = run.good
        /\ run'.todo = run.todo \ {f} /\ run'.build = run.build
    <3>1. run \in RunRow /\ run.todo \ {f} \subseteq File
      BY <1>1, <1>4
    <3>2. /\ run' \in RunRow /\ run'.stage = run.stage /\ run'.pc = run.pc
          /\ run'.cur = run.cur /\ run'.docs = run.docs /\ run'.good = run.good
          /\ run'.todo = run.todo \ {f} /\ run'.build = run.build
      BY <2>1, <3>1 DEF RunRow
    <3>3. run'.stage = "index"
      BY <1>1, <3>2
    <3> QED
      BY <2>1, <3>2, <3>3 DEF Idle
  <2>3. run.docs = {} /\ run.build = NULL
    BY <1>1, <1>2, <2>1 DEF IndexFacts
  <2>4. SameNeeds
    BY <1>3, <2>1, ErrorCleared DEF PipeInv
  <2> QED
    BY <1>1, <1>3, <1>4, <2>1, <2>2, <2>3, <2>4, HolesListing
<1>8. ASSUME NEW f \in File, MarkIndexedFail(f) PROVE HolesInv'
  <2>1. /\ run.pc = "stamp" /\ run' = [run EXCEPT !.good = @ \ {f}] /\ UNCHANGED man
    BY <1>8 DEF MarkIndexedFail, store
  <2>2. /\ run' \in RunRow /\ run' # Idle /\ run'.stage = "index" /\ run'.pc = "stamp"
        /\ run'.cur = run.cur /\ run'.docs = run.docs /\ run'.good = run.good \ {f}
        /\ run'.todo = run.todo /\ run'.build = run.build
    BY <1>1, <2>1 DEF RunRow, Idle
  <2>3. run.cur = NULL /\ run.todo = {} /\ run.docs = {} /\ run.build = NULL
    BY <1>1, <1>2, <2>1 DEF IndexFacts
  <2>4. SameNeeds
    BY <2>1 DEF SameNeeds
  <2> QED
    BY <1>1, <1>3, <1>4, <2>1, <2>2, <2>3, <2>4, HolesListing
<1> QED
  BY <1>5, <1>6, <1>7, <1>8

\* index: the loop over the files done is over.
LEMMA HolesIndexDone ==
    ASSUME PipeInv, HolesInv, IndexDone
    PROVE  HolesInv'
<1>1. /\ run \in RunRow /\ run.good = {} /\ run.stage = "index" /\ run # Idle
      /\ run' = [run EXCEPT !.pc = "end"] /\ UNCHANGED store
  BY Running DEF PipeInv, IndexDone, Worklists, WorkingOn
<1>2. /\ run'.stage = "index" /\ run'.pc = "end" /\ run'.good = {} /\ run'.cur = run.cur
      /\ run'.docs = run.docs /\ run'.build = run.build /\ run'.todo = run.todo
  BY <1>1 DEF RunRow
<1>3. TableFacts'
  BY <1>1, TablesSame DEF HolesInv, store, SameNeeds
<1>4. IndexFacts(run)'
  BY <1>1, <1>2 DEF HolesInv, IndexFacts, Documents, store
<1> QED
  BY <1>2, <1>3, <1>4 DEF HolesInv, ManifestFacts, NormalizeFacts

\* index: the chunks of a document are rebuilt while its file waits.
LEMMA HolesRebuild ==
    ASSUME PipeInv, HolesInv, NEW d \in Doc,
           BuildDelete(d) \/ (\E full \in BOOLEAN : BuildInsert(d, full)) \/ BuildFail(d)
    PROVE  HolesInv'
<1>1. /\ run # Idle /\ run \in RunRow /\ WorkingOn(run) /\ run.stage = "index"
      /\ run.pc = "build" /\ UNCHANGED <<doc, tree>>
  BY Running DEF PipeInv, Worklists, BuildDelete, BuildInsert, BuildFail, Building
<1>2. IndexFacts(run) /\ TableFacts /\ chunk \in [Doc -> ChunkRow \cup {NULL}]
  BY <1>1 DEF HolesInv, PipeInv, TypeOK
<1>3. d \in run.docs
  <2>1. run.build # NULL => run.build \in run.docs
    BY <1>1, <1>2 DEF IndexFacts
  <2> QED
    BY <2>1 DEF BuildDelete, BuildInsert, BuildFail
<1>4. /\ run.cur \in File /\ run.cur \in run.todo /\ man[run.cur] # NULL /\ ~man[run.cur].indexed
      /\ run.docs \subseteq Documents(Version(run.cur)) /\ VersionOf[d] = Version(run.cur)
  <2>1. run.cur # NULL
    BY <1>1, <1>2, <1>3 DEF IndexFacts
  <2>2. run.cur \in run.todo /\ run.todo \subseteq File /\ man[run.cur] # NULL
    BY <1>1, <2>1 DEF WorkingOn, RunRow
  <2>3. ~man[run.cur].indexed /\ run.docs \subseteq Documents(Version(run.cur))
    BY <1>1, <1>2, <2>1, <2>2 DEF IndexFacts
  <2> QED
    BY <1>3, <2>2, <2>3 DEF Documents
<1>5. /\ \A e \in Doc : e # d => chunk'[e] = chunk[e]
      /\ SameNeeds
      /\ run' \in RunRow /\ run' # Idle /\ run'.stage = "index" /\ run'.pc = "build"
      /\ run'.cur = run.cur /\ run'.todo = run.todo
      /\ run'.build # NULL => run'.build \in run'.docs
      /\ \/ run'.docs = run.docs /\ run'.good = run.good
         \/ run'.docs = run.docs \ {d} /\ run'.good = run.good /\ Built(d)'
         \/ run'.docs = run.docs \ {d} /\ run'.good = run.good \ {run.cur}
  <2>1. CASE BuildDelete(d)
    <3>1. run' = [run EXCEPT !.build = d] /\ chunk' = [chunk EXCEPT ![d] = NULL] /\ UNCHANGED man
      BY <2>1 DEF BuildDelete
    <3>2. /\ run' \in RunRow /\ run' # Idle /\ run'.stage = "index" /\ run'.pc = "build"
          /\ run'.cur = run.cur /\ run'.todo = run.todo /\ run'.build = d
          /\ run'.docs = run.docs /\ run'.good = run.good
      BY <1>1, <3>1 DEF RunRow, Idle
    <3> QED
      BY <1>2, <1>3, <3>1, <3>2 DEF SameNeeds
  <2>2. ASSUME NEW full \in BOOLEAN, BuildInsert(d, full)
        PROVE  /\ \A e \in Doc : e # d => chunk'[e] = chunk[e]
               /\ SameNeeds
               /\ run' \in RunRow /\ run' # Idle /\ run'.stage = "index" /\ run'.pc = "build"
               /\ run'.cur = run.cur /\ run'.todo = run.todo /\ run'.good = run.good
               /\ run'.build # NULL => run'.build \in run'.docs
               /\ run'.docs = run.docs \/ (run'.docs = run.docs \ {d} /\ Built(d)')
    <3> DEFINE row == [live |-> TRUE, full |-> full, dense |-> FALSE, sparse |-> FALSE]
    <3>1. /\ chunk' = [chunk EXCEPT ![d] = row] /\ UNCHANGED man /\ run.build = d
          /\ run' = IF full THEN [run EXCEPT !.docs = @ \ {d}, !.build = NULL] ELSE run
      BY <2>2 DEF BuildInsert
    <3>2. row \in ChunkRow /\ row.live /\ row.full = full
      BY DEF ChunkRow
    <3> HIDE DEF row
    <3>3. chunk'[d] = row /\ row # NULL /\ \A e \in Doc : e # d => chunk'[e] = chunk[e]
      BY <1>2, <3>1, <3>2
    <3>4. CASE full = FALSE
      BY <1>1, <1>3, <3>1, <3>3, <3>4 DEF SameNeeds
    <3>5. CASE full = TRUE
      <4>1. /\ run' \in RunRow /\ run' # Idle /\ run'.stage = "index" /\ run'.pc = "build"
            /\ run'.cur = run.cur /\ run'.todo = run.todo /\ run'.build = NULL
            /\ run'.docs = run.docs \ {d} /\ run'.good = run.good
        BY <1>1, <3>1, <3>5 DEF RunRow, Idle
      <4> QED
        BY <3>1, <3>2, <3>3, <3>5, <4>1 DEF SameNeeds, Built, Live
    <3> QED
      BY <3>4, <3>5
  <2>3. CASE BuildFail(d)
    <3>1. /\ run' = [run EXCEPT !.docs = @ \ {d}, !.build = NULL, !.good = @ \ {run.cur}]
          /\ man' = [man EXCEPT ![run.cur].ambiguous = FALSE] /\ UNCHANGED chunk
      BY <2>3 DEF BuildFail
    <3>2. /\ run' \in RunRow /\ run' # Idle /\ run'.stage = "index" /\ run'.pc = "build"
          /\ run'.cur = run.cur /\ run'.todo = run.todo /\ run'.build = NULL
          /\ run'.docs = run.docs \ {d} /\ run'.good = run.good \ {run.cur}
      BY <1>1, <3>1 DEF RunRow, Idle
    <3>3. SameNeeds
      BY <1>4, <3>1, ErrorCleared DEF PipeInv
    <3> QED
      BY <3>1, <3>2, <3>3
  <2> QED
    BY <2>1, <2>2, <2>3
<1>6. TableFacts'
  <2>1. \A f \in File : DocOf[f] # d => (Complete(DocOf[f]) => Complete(DocOf[f])')
    BY <1>1, <1>5 DEF Complete
  <2>2. \A f \in File : DocOf[f] = d => Version(f) = Version(run.cur)
    BY <1>4 DEF Version
  <2>3. man'[run.cur] # NULL /\ ~man'[run.cur].indexed
    BY <1>4, <1>5 DEF SameNeeds
  <2>4. \A f \in File : (man'[f] # NULL /\ man'[f].indexed /\ ~Complete(DocOf[f])') =>
           \E g \in File : Version(g) = Version(f) /\ man'[g] # NULL /\ ~man'[g].indexed
    <3> SUFFICES ASSUME NEW f \in File, man'[f] # NULL, man'[f].indexed, ~Complete(DocOf[f])'
                 PROVE  \E g \in File : Version(g) = Version(f) /\ man'[g] # NULL /\ ~man'[g].indexed
      OBVIOUS
    <3>1. CASE DocOf[f] = d
      BY <1>4, <2>2, <2>3, <3>1
    <3>2. CASE DocOf[f] # d
      <4>1. man[f] # NULL /\ man[f].indexed /\ ~Complete(DocOf[f])
        BY <1>5, <2>1, <3>2 DEF SameNeeds
      <4>2. PICK g \in File : Version(g) = Version(f) /\ man[g] # NULL /\ ~man[g].indexed
        BY <1>2, <4>1 DEF TableFacts
      <4> QED
        BY <1>5, <4>2 DEF SameNeeds
    <3> QED
      BY <3>1, <3>2
  <2>5. \A f \in File : (man'[f] # NULL /\ man'[f].normalized /\ ~Whole(DocOf[f])') =>
           \E g \in File : DocOf[g] = DocOf[f] /\ man'[g] # NULL /\ ~man'[g].normalized
    BY <1>1, <1>2, <1>5 DEF TableFacts, SameNeeds, Whole
  <2>6. \A f \in File : man'[f] # NULL => man'[f].status = "active"
    BY <1>2, <1>5 DEF TableFacts, SameNeeds
  <2>7. \A e \in Doc : tree'[e] # NULL => doc'[e] # NULL
    BY <1>1, <1>2 DEF TableFacts
  <2> QED
    BY <2>4, <2>5, <2>6, <2>7 DEF TableFacts
<1>7. \A f \in run'.good : \A e \in Documents(Version(f)) : tree[e] # NULL =>
         \/ Built(e)' \/ e \in run'.docs
         \/ \E g \in File : Version(g) = Version(f) /\ LeftOut(run, g)'
  <2> SUFFICES ASSUME NEW f \in run'.good, NEW e \in Documents(Version(f)), tree[e] # NULL
               PROVE  \/ Built(e)' \/ e \in run'.docs
                      \/ \E g \in File : Version(g) = Version(f) /\ LeftOut(run, g)'
    OBVIOUS
  <2>1. f \in run.good /\ e \in Doc /\ VersionOf[e] = Version(f)
    BY <1>5 DEF Documents
  <2>2. CASE \E g \in File : Version(g) = Version(f) /\ LeftOut(run, g)
    BY <1>5, <2>2 DEF LeftOut, SameNeeds
  <2>3. CASE e # d
    <3>1. Built(e) => Built(e)'
      BY <1>5, <2>1, <2>3 DEF Built, Live
    <3>2. e \in run.docs => e \in run'.docs
      BY <1>5, <2>3
    <3> QED
      BY <1>1, <1>2, <2>1, <2>2, <3>1, <3>2 DEF IndexFacts
  <2>4. CASE e = d
    <3>1. Version(run.cur) = Version(f)
      BY <1>4, <2>1, <2>4
    <3>2. CASE run'.good = run.good \ {run.cur}
      <4>1. PICK g \in File : g = run.cur
        BY <1>4
      <4>2. LeftOut(run, g)'
        BY <1>4, <1>5, <3>2, <4>1 DEF LeftOut, SameNeeds
      <4> QED
        BY <3>1, <4>1, <4>2
    <3>3. CASE run'.docs = run.docs \/ Built(d)'
      BY <1>3, <2>4, <3>3
    <3> QED
      BY <1>5, <3>2, <3>3
  <2> QED
    BY <2>3, <2>4
<1>8. IndexFacts(run)'
  <2>1. \A f \in run'.good : \A e \in Documents(Version(f))' : tree'[e] # NULL =>
           \/ Built(e)' \/ e \in run'.docs
           \/ \E g \in File : Version(g) = Version(f) /\ LeftOut(run, g)'
    BY <1>1, <1>7 DEF Documents
  <2>2. \A f \in run'.todo \cup run'.good : ~man'[f].indexed
    <3>1. \A f \in run.todo \cup run.good : f \in File /\ man[f] # NULL /\ ~man[f].indexed
      BY <1>1, <1>2 DEF IndexFacts, WorkingOn, RunRow
    <3> QED
      BY <1>5, <3>1 DEF SameNeeds
  <2>3. run'.docs \subseteq Documents(Version(run.cur))' /\ run'.cur # NULL
    BY <1>1, <1>4, <1>5 DEF Documents, Version
  <2>4. run'.pc = "build" /\ (run'.build # NULL => run'.build \in run'.docs)
    BY <1>5
  <2> QED
    BY <2>1, <2>2, <2>3, <2>4 DEF IndexFacts
<1> QED
  BY <1>5, <1>6, <1>8 DEF HolesInv, ManifestFacts, NormalizeFacts

\* index and lexindex: orphans are reaped and live chunks get vectors.
LEMMA HolesVectors ==
    ASSUME PipeInv, HolesInv,
           ReapOrphans \/ (\E some \in SUBSET Doc : Embed(some) \/ IndexCorpus(some))
    PROVE  HolesInv'
<1>1. /\ run # Idle /\ run \in RunRow /\ WorkingOn(run) /\ UNCHANGED <<disk, man, doc, tree>>
      /\ run.stage \in {"index", "lexindex"}
  BY Running DEF PipeInv, Worklists, ReapOrphans, Embed, IndexCorpus, Building
<1>2. TableFacts /\ IndexFacts(run) /\ chunk \in [Doc -> ChunkRow \cup {NULL}]
  BY <1>1 DEF HolesInv, PipeInv, TypeOK
<1>3. \A d \in Doc : Live(d) => /\ chunk'[d] \in ChunkRow /\ chunk'[d].live
                                /\ chunk'[d].full = chunk[d].full
                                /\ chunk[d].dense => chunk'[d].dense
                                /\ chunk[d].sparse => chunk'[d].sparse
  <2> SUFFICES ASSUME NEW d \in Doc, Live(d)
               PROVE  /\ chunk'[d] \in ChunkRow /\ chunk'[d].live
                      /\ chunk'[d].full = chunk[d].full
                      /\ chunk[d].dense => chunk'[d].dense
                      /\ chunk[d].sparse => chunk'[d].sparse
    OBVIOUS
  <2>1. chunk[d] \in ChunkRow /\ chunk[d].live
    BY <1>2 DEF Live
  <2>2. chunk'[d] \in {chunk[d], [chunk[d] EXCEPT !.dense = TRUE], [chunk[d] EXCEPT !.sparse = TRUE]}
    BY DEF ReapOrphans, Embed, IndexCorpus
  <2> QED
    BY <2>1, <2>2 DEF ChunkRow
<1>4. \A d \in Doc : Live(d)' => Live(d)
  <2>1. \A d \in Doc : ~Live(d) => chunk'[d] \in {chunk[d], NULL}
    BY DEF ReapOrphans, Embed, IndexCorpus
  <2> QED
    BY <2>1 DEF Live
<1>5. \A d \in Doc : Complete(d) => Complete(d)'
  <2> SUFFICES ASSUME NEW d \in Doc, Complete(d) PROVE Complete(d)'
    OBVIOUS
  <2>1. chunk[d] = [live |-> TRUE, full |-> TRUE, dense |-> TRUE, sparse |-> TRUE]
    BY DEF Complete
  <2>2. chunk[d] \in ChunkRow
    BY <2>1 DEF ChunkRow
  <2>3. Live(d)
    <3>1. chunk[d].live
      BY <2>1
    <3>2. chunk[d] # NULL
      BY <2>2
    <3> QED
      BY <3>1, <3>2 DEF Live
  <2>4. /\ chunk'[d] \in ChunkRow /\ chunk'[d].live /\ chunk'[d].full /\ chunk'[d].dense
        /\ chunk'[d].sparse
    BY <1>3, <2>1, <2>3
  <2>5. chunk'[d] = [live |-> TRUE, full |-> TRUE, dense |-> TRUE, sparse |-> TRUE]
    BY <2>4 DEF ChunkRow
  <2> QED
    BY <1>1, <2>5 DEF Complete
<1>6. TableFacts'
  BY <1>1, <1>2, <1>5 DEF TableFacts, Whole
<1>7. \A d \in Doc : Built(d) => Built(d)'
  <2> SUFFICES ASSUME NEW d \in Doc, Built(d) PROVE Built(d)'
    OBVIOUS
  <2>1. Live(d) /\ chunk[d].full
    BY DEF Built
  <2> QED
    BY <1>3, <2>1 DEF Built, Live
<1>8. CASE run.stage = "lexindex"
  <2>1. PICK good, pc : run' = [run EXCEPT !.pc = pc, !.good = good]
    BY <1>1, <1>8 DEF ReapOrphans, Embed, IndexCorpus, Building
  <2>2. run'.stage = "lexindex"
    BY <1>1, <1>8, <2>1 DEF RunRow
  <2> QED
    BY <1>6, <2>2 DEF HolesInv, ManifestFacts, NormalizeFacts, IndexFacts
<1>9. CASE run.stage = "index"
  <2>1. PICK good, pc :
           /\ run' = [run EXCEPT !.pc = pc, !.good = good]
           /\ good \subseteq run.good /\ pc \in {"build", "sparse", "stamp"}
           /\ pc = "build" => ReapOrphans
           /\ pc = "sparse" /\ good # {} => Embed(Doc)
           /\ pc = "sparse" => \E some \in SUBSET Doc : Embed(some)
           /\ pc = "stamp" /\ good # {} => IndexCorpus(Doc)
           /\ pc = "stamp" => \E some \in SUBSET Doc : IndexCorpus(some)
    <3> DEFINE Goes(good, pc) ==
           /\ run' = [run EXCEPT !.pc = pc, !.good = good]
           /\ good \subseteq run.good /\ pc \in {"build", "sparse", "stamp"}
           /\ pc = "build" => ReapOrphans
           /\ pc = "sparse" /\ good # {} => Embed(Doc)
           /\ pc = "sparse" => \E some \in SUBSET Doc : Embed(some)
           /\ pc = "stamp" /\ good # {} => IndexCorpus(Doc)
           /\ pc = "stamp" => \E some \in SUBSET Doc : IndexCorpus(some)
    <3> SUFFICES \E good, pc : Goes(good, pc)
      OBVIOUS
    <3>1. ASSUME ReapOrphans PROVE Goes(run.good, "build")
      <4>1. run' = [run EXCEPT !.pc = "build", !.good = run.good]
        BY <1>1, <3>1 DEF ReapOrphans, RunRow
      <4> QED
        BY <3>1, <4>1
    <3>2. ASSUME NEW some \in SUBSET Doc, Embed(some)
          PROVE  Goes(IF some = Doc THEN run.good ELSE {}, "sparse")
      <4>1. run' = [run EXCEPT !.pc = "sparse", !.good = IF some = Doc THEN run.good ELSE {}]
        BY <3>2 DEF Embed
      <4> QED
        BY <3>2, <4>1
    <3>3. ASSUME NEW some \in SUBSET Doc, IndexCorpus(some)
          PROVE  Goes(IF some = Doc THEN run.good ELSE {}, "stamp")
      <4>1. run' = [run EXCEPT !.pc = "stamp", !.good = IF some = Doc THEN run.good ELSE {}]
        BY <1>9, <3>3 DEF IndexCorpus
      <4> QED
        BY <3>3, <4>1
    <3> HIDE DEF Goes
    <3> QED
      BY <3>1, <3>2, <3>3
  <2>2. /\ run'.stage = "index" /\ run'.pc = pc /\ run'.good = good /\ run'.cur = run.cur
        /\ run'.docs = run.docs /\ run'.todo = run.todo /\ run'.build = run.build
    BY <1>1, <1>9, <2>1 DEF RunRow
  <2>3. /\ run.pc = "file" => pc = "build"
        /\ pc \in {"sparse", "stamp"} => run.cur = NULL /\ run.todo = {}
    <3>1. pc = "build" => run.pc = "file"
      BY <2>1 DEF ReapOrphans
    <3>2. pc = "sparse" => run.pc = "build" /\ run.cur = NULL /\ run.todo = {}
      BY <2>1 DEF Embed, Building
    <3>3. pc = "stamp" => run.pc = "sparse"
      BY <1>9, <2>1 DEF IndexCorpus
    <3>4. run.pc = "sparse" => run.cur = NULL /\ run.todo = {}
      BY <1>2, <1>9 DEF IndexFacts
    <3> QED
      BY <2>1, <3>1, <3>2, <3>3, <3>4
  <2>4. pc \in {"sparse", "stamp"} /\ good # {} => \A d \in Doc : Live(d)' => chunk'[d].dense
    <3>1. CASE pc = "sparse" /\ good # {}
      <4>1. Embed(Doc)
        BY <2>1, <3>1
      <4>2. \A d \in Doc : Live(d) => chunk'[d] = [chunk[d] EXCEPT !.dense = TRUE]
        BY <4>1 DEF Embed
      <4>3. \A d \in Doc : Live(d) => chunk[d] \in ChunkRow
        BY <1>2 DEF Live
      <4>4. \A row \in ChunkRow : [row EXCEPT !.dense = TRUE].dense
        BY DEF ChunkRow
      <4>5. ASSUME NEW d \in Doc, Live(d)' PROVE chunk'[d].dense
        <5>1. Live(d) /\ chunk[d] \in ChunkRow
          BY <1>4, <4>3, <4>5
        <5>2. chunk'[d] = [chunk[d] EXCEPT !.dense = TRUE]
          BY <4>2, <5>1
        <5>3. [chunk[d] EXCEPT !.dense = TRUE].dense
          BY <4>4, <5>1
        <5> QED
          BY <5>2, <5>3
      <4> QED
        BY <4>5
    <3>2. CASE pc = "stamp" /\ good # {}
      <4>1. run.pc = "sparse" /\ run.good # {}
        BY <1>9, <2>1, <3>2 DEF IndexCorpus
      <4>2. \A d \in Doc : Live(d) => chunk[d].dense
        BY <1>2, <1>9, <4>1 DEF IndexFacts
      <4> QED
        BY <1>3, <1>4, <4>2
    <3> QED
      BY <3>1, <3>2
  <2>5. pc = "stamp" /\ good # {} => \A d \in Doc : Live(d)' => chunk'[d].sparse
    <3> SUFFICES ASSUME pc = "stamp", good # {}, NEW d \in Doc, Live(d)'
                 PROVE  chunk'[d].sparse
      OBVIOUS
    <3>1. IndexCorpus(Doc)
      BY <2>1
    <3>2. Live(d) /\ chunk[d] \in ChunkRow
      BY <1>2, <1>4 DEF Live
    <3>3. chunk'[d] = [chunk[d] EXCEPT !.sparse = TRUE]
      BY <3>1, <3>2 DEF IndexCorpus
    <3> QED
      BY <3>2, <3>3 DEF ChunkRow
  <2>6. \A f \in File : Documents(Version(f))' = Documents(Version(f))
    BY <1>1 DEF Documents, Version
  <2>7. \A g \in File : LeftOut(run, g) => LeftOut(run, g)'
    BY <1>1, <2>1, <2>2 DEF LeftOut
  <2>8. \A f \in run'.good : \A d \in Documents(Version(f))' : tree'[d] # NULL =>
           \/ Built(d)' \/ d \in run'.docs
           \/ \E g \in File : Version(g) = Version(f) /\ LeftOut(run, g)'
    <3> SUFFICES ASSUME NEW f \in run'.good, NEW d \in Documents(Version(f)), tree[d] # NULL
                 PROVE  \/ Built(d)' \/ d \in run'.docs
                        \/ \E g \in File : Version(g) = Version(f) /\ LeftOut(run, g)'
      BY <1>1 DEF Documents
    <3>1. f \in run.good /\ d \in Doc
      BY <2>1, <2>2 DEF Documents
    <3>2. \/ Built(d) \/ d \in run.docs
          \/ \E g \in File : Version(g) = Version(f) /\ LeftOut(run, g)
      BY <1>2, <1>9, <3>1 DEF IndexFacts
    <3> QED
      BY <1>7, <2>2, <2>7, <3>1, <3>2
  <2>9. \A f \in run'.todo \cup run'.good : ~man'[f].indexed
    BY <1>1, <1>2, <1>9, <2>1, <2>2 DEF IndexFacts
  <2>10. /\ run.cur = NULL => run.docs = {}
         /\ run.cur # NULL => run.docs \subseteq Documents(Version(run.cur))
         /\ run.build # NULL => run.build \in run.docs
    BY <1>2, <1>9 DEF IndexFacts
  <2>11. run.cur # NULL => run.docs \subseteq Documents(Version(run.cur))'
    BY <1>1, <2>2, <2>10 DEF Documents, Version
  <2>12. IndexFacts(run)'
    BY <2>1, <2>2, <2>3, <2>4, <2>5, <2>8, <2>9, <2>10, <2>11 DEF IndexFacts
  <2> QED
    BY <1>6, <2>2, <2>12 DEF HolesInv, ManifestFacts, NormalizeFacts
<1> QED
  BY <1>1, <1>8, <1>9

\* index: a marked file has its chunks and vectors, and so have the others of its
\* version, or another file of it waits.
LEMMA HolesMark ==
    ASSUME PipeInv, HolesInv, NEW f \in File, MarkIndexed(f)
    PROVE  HolesInv'
<1>1. /\ run # Idle /\ run \in RunRow /\ WorkingOn(run) /\ run.stage = "index"
      /\ run.pc = "stamp" /\ f \in run.good /\ UNCHANGED <<disk, doc, tree, chunk>>
      /\ run' = [run EXCEPT !.good = @ \ {f}]
  BY Running DEF PipeInv, Worklists, WorkingOn, MarkIndexed
<1>2. TableFacts /\ IndexFacts(run) /\ chunk \in [Doc -> ChunkRow \cup {NULL}]
  BY <1>1 DEF HolesInv, PipeInv, TypeOK
<1>3. man[f] # NULL /\ man[f] \in ManRow /\ man[f].normalized
  BY <1>1 DEF WorkingOn, PipeInv, TypeOK
<1>4. run.cur = NULL /\ run.todo = {} /\ run.docs = {} /\ run.build = NULL
  BY <1>1, <1>2 DEF IndexFacts
<1>5. PICK row \in ManRow :
         /\ man' = [man EXCEPT ![f] = row] /\ row.status = man[f].status
         /\ row.normalized
  <2> DEFINE row == [man[f] EXCEPT !.indexed = TRUE, !.ambiguous = FALSE]
  <2>1. man' = [man EXCEPT ![f] = row]
    BY <1>3 DEF MarkIndexed, PipeInv, TypeOK
  <2>2. row \in ManRow /\ row.status = man[f].status /\ row.normalized
    BY <1>3 DEF ManRow
  <2> HIDE DEF row
  <2> QED
    BY <2>1, <2>2
<1>6. /\ man'[f] = row /\ row # NULL
      /\ \A g \in File : g # f => man'[g] = man[g]
  BY <1>5 DEF PipeInv, TypeOK
<1>7. /\ run' \in RunRow /\ run'.stage = "index" /\ run'.pc = "stamp" /\ run'.cur = NULL
      /\ run'.docs = {} /\ run'.todo = {} /\ run'.build = NULL /\ run'.good = run.good \ {f}
  BY <1>1, <1>4 DEF RunRow
\* Whoever waited without f still waits.
<1>8. \A g \in File : LeftOut(run, g) => LeftOut(run, g)' /\ man'[g] # NULL /\ ~man'[g].indexed
  BY <1>1, <1>4, <1>6, <1>7 DEF LeftOut
<1>9. \A d \in Doc : Built(d) => chunk[d] = [live |-> TRUE, full |-> TRUE, dense |-> TRUE, sparse |-> TRUE]
  <2> SUFFICES ASSUME NEW d \in Doc, Built(d)
               PROVE  chunk[d] = [live |-> TRUE, full |-> TRUE, dense |-> TRUE, sparse |-> TRUE]
    OBVIOUS
  <2>1. chunk[d] \in ChunkRow /\ chunk[d].live /\ chunk[d].full
    BY <1>2 DEF Built, Live
  <2>2. chunk[d].dense /\ chunk[d].sparse
    BY <1>1, <1>2 DEF IndexFacts, Built
  <2> QED
    BY <2>1, <2>2 DEF ChunkRow
<1>10. ASSUME NEW g \in File, man'[g] # NULL, man'[g].indexed, ~Complete(DocOf[g])
       PROVE  \E h \in File : Version(h) = Version(g) /\ man'[h] # NULL /\ ~man'[h].indexed
  <2>1. CASE Version(g) # Version(f)
    <3>1. g # f
      BY <2>1
    <3>2. PICK h \in File : Version(h) = Version(g) /\ man[h] # NULL /\ ~man[h].indexed
      BY <1>2, <1>6, <1>10, <3>1 DEF TableFacts
    <3>3. h # f
      BY <2>1, <3>2
    <3> QED
      BY <1>6, <3>2, <3>3
  <2>2. CASE Version(g) = Version(f) /\ ~Whole(DocOf[g])
    <3>1. man[g] # NULL /\ man[g].normalized
      BY <1>3, <1>6, <1>10 DEF PipeInv, StageOrder
    <3>2. PICK h \in File : DocOf[h] = DocOf[g] /\ man[h] # NULL /\ ~man[h].normalized
      BY <1>2, <2>2, <3>1 DEF TableFacts
    <3>3. h # f /\ ~man[h].indexed
      BY <1>3, <3>2 DEF PipeInv, StageOrder
    <3> QED
      BY <1>6, <3>2, <3>3 DEF Version
  <2>3. CASE Version(g) = Version(f) /\ Whole(DocOf[g])
    <3>1. DocOf[g] \in Documents(Version(f)) /\ tree[DocOf[g]] # NULL /\ DocOf[g] \in Doc
      BY <1>2, <2>3 DEF Whole, TableFacts, Documents, Version
    <3>2. ~Built(DocOf[g])
      BY <1>9, <1>10, <2>3, <3>1 DEF Complete, Whole
    <3>3. PICK h \in File : Version(h) = Version(f) /\ LeftOut(run, h)
      BY <1>1, <1>2, <1>4, <3>1, <3>2 DEF IndexFacts
    <3> QED
      BY <1>8, <2>3, <3>3
  <2> QED
    BY <2>1, <2>2, <2>3
<1>11. TableFacts'
  <2>1. \A g \in File : (man'[g] # NULL /\ man'[g].normalized /\ ~Whole(DocOf[g])) =>
           \E h \in File : DocOf[h] = DocOf[g] /\ man'[h] # NULL /\ ~man'[h].normalized
    <3> SUFFICES ASSUME NEW g \in File, man'[g] # NULL, man'[g].normalized, ~Whole(DocOf[g])
                 PROVE  \E h \in File : DocOf[h] = DocOf[g] /\ man'[h] # NULL /\ ~man'[h].normalized
      OBVIOUS
    <3>1. man[g] # NULL /\ man[g].normalized
      BY <1>3, <1>6
    <3>2. PICK h \in File : DocOf[h] = DocOf[g] /\ man[h] # NULL /\ ~man[h].normalized
      BY <1>2, <3>1 DEF TableFacts
    <3>3. h # f
      BY <1>3, <3>2
    <3> QED
      BY <1>6, <3>2, <3>3
  <2>2. \A g \in File : man'[g] # NULL => man'[g].status = "active"
    BY <1>2, <1>3, <1>5, <1>6 DEF TableFacts
  <2> QED
    BY <1>1, <1>2, <1>10, <2>1, <2>2 DEF TableFacts, Whole, Complete
<1>12. \A g \in run'.good : \A d \in Documents(Version(g))' : tree'[d] # NULL =>
          \/ Built(d)' \/ d \in run'.docs
          \/ \E h \in File : Version(h) = Version(g) /\ LeftOut(run, h)'
  <2> SUFFICES ASSUME NEW g \in run'.good, NEW d \in Documents(Version(g)), tree[d] # NULL
               PROVE  Built(d)' \/ \E h \in File : Version(h) = Version(g) /\ LeftOut(run, h)'
    BY <1>1 DEF Documents
  <2>1. g \in run.good /\ d \in Doc
    BY <1>7 DEF Documents
  <2>2. Built(d) \/ \E h \in File : Version(h) = Version(g) /\ LeftOut(run, h)
    BY <1>1, <1>2, <1>4, <2>1 DEF IndexFacts
  <2> QED
    BY <1>1, <1>8, <2>1, <2>2, BuiltSame
<1>13. \A g \in run'.good : ~man'[g].indexed
  <2>1. \A g \in run.good : g \in File /\ ~man[g].indexed
    BY <1>1, <1>2 DEF IndexFacts, RunRow
  <2> QED
    BY <1>6, <1>7, <2>1
<1>14. \A d \in Doc : Live(d)' => chunk'[d].dense /\ chunk'[d].sparse
  <2>1. \A d \in Doc : Live(d) => chunk[d].dense /\ chunk[d].sparse
    BY <1>1, <1>2 DEF IndexFacts
  <2> QED
    BY <1>1, <2>1 DEF Live
<1>15. IndexFacts(run)'
  BY <1>7, <1>12, <1>13, <1>14 DEF IndexFacts
<1> QED
  BY <1>7, <1>11, <1>15 DEF HolesInv, ManifestFacts, NormalizeFacts

\* Whatever the pipeline, a failure or the operator does.
LEMMA HolesNext == NoRemovals /\ PipeInv /\ HolesInv /\ [Next]_vars => HolesInv'
<1> SUFFICES ASSUME NoRemovals, PipeInv, HolesInv, [Next]_vars PROVE HolesInv'
  OBVIOUS
<1>1. CASE Runs
  <2>1. PICK stages \in Commands : Start(stages)
    BY <1>1 DEF Runs
  <2>2. stages \in Seq(Stage) /\ stages # <<>>
    <3>1. CASE stages = DefaultStages
      BY <3>1 DEF DefaultStages, Stage
    <3>2. ASSUME NEW stage \in Stage, stages = <<stage>>
          PROVE  stages \in Seq(Stage) /\ stages # <<>>
      BY <3>2
    <3> QED
      BY <3>1, <3>2
  <2> QED
    BY <2>1, <2>2, HolesEnter DEF Start
<1>2. CASE Leave
  <2>1. run \in RunRow
    BY <1>2, Running DEF Leave, StageOver, PipeInv
  <2>2. CASE run.rest = <<>>
    <3>1. TableFacts'
      BY <1>2, TablesSame DEF Leave, store, SameNeeds, HolesInv
    <3> QED
      BY <1>2, <2>2, <3>1 DEF Leave, HolesInv
  <2>3. CASE run.rest # <<>>
    BY <1>2, <2>1, <2>3, HolesEnter DEF Leave, RunRow
  <2> QED
    BY <2>2, <2>3
<1>3. CASE Crash
  <2>1. TableFacts'
    BY <1>3, TablesSame DEF Crash, store, SameNeeds, HolesInv
  <2> QED
    BY <1>3, <2>1 DEF Crash, HolesInv
<1>4. CASE Edits \/ UNCHANGED vars
  BY <1>4 DEF Edits, Edit, store, vars, HolesInv, TableFacts, ManifestFacts, NormalizeFacts,
     IndexFacts, LeftOut, Whole, Complete, Built, Live, Documents
<1> QED
  BY <1>1, <1>2, <1>3, <1>4, HolesScanFile, HolesScanEnd, HolesExtract, HolesNormalize,
     HolesIndexFile, HolesPass, HolesIndexDone, HolesRebuild, HolesVectors, HolesMark
  DEF Next, Good, Fault

\* For every corpus whose files stay in data/, with any number of files to a version
\* and of paths to a document, and every history of edits, failures and crashes: what
\* a half-done rebuild took away is not hidden behind timestamps that are all set.
THEOREM HolesAreShown == NoRemovals => (Spec => []HolesShow)
<1> SUFFICES ASSUME NoRemovals PROVE Spec => []HolesShow
  OBVIOUS
<1>1. Init => HolesInv
  BY DEF Init, HolesInv, TableFacts
<1>2. PipeInv /\ HolesInv /\ [Next]_vars => HolesInv'
  BY HolesNext
<1>3. HolesInv => HolesShow
  <2> SUFFICES ASSUME HolesInv, NEW f \in File, Active(f), man[f].indexed, ~Complete(DocOf[f])
               PROVE  \E g \in File : Version(g) = Version(f) /\ Active(g) /\ ~man[g].indexed
    BY DEF HolesShow
  <2>1. TableFacts /\ man[f] # NULL
    BY DEF HolesInv, Active
  <2>2. PICK g \in File : Version(g) = Version(f) /\ man[g] # NULL /\ ~man[g].indexed
    BY <2>1 DEF TableFacts
  <2> QED
    BY <2>1, <2>2 DEF TableFacts, Active
<1> QED
  BY <1>1, <1>2, <1>3, PipeInductive, PTL DEF Spec

=============================================================================
