------------------------------- MODULE Corpus -------------------------------
(***************************************************************************)
(* The corpus as the tools of the MCP server read it: control rows, chunks *)
(* with their vectors and BM25 weights, mapping edges and the currency of  *)
(* the versions, together with the statements of normalize, mapedges,      *)
(* index and seed that change them while a tool is running.  The tools     *)
(* open no transaction, so a tool sees a change between any two of its     *)
(* statements.  A row's identity is never used again: a rebuilt control    *)
(* and a rebuilt chunk are new rows.                                       *)
(***************************************************************************)
EXTENDS Integers, Sequences, FiniteSets

CONSTANTS Doc,      \* documents [id, fw, ver, role]; frameworks, versions and citations
                    \*   are numbers, which stand for their order as strings
          Tree,     \* [Doc -> Seq([cite, parent, status, amends, sim, lex])]: the rows
                    \*   a parse inserts, with what the query's vector and words give
          Listed,   \* the versions of config.framework_version; nothing makes a
                    \*   document's version one of them
          Models,   \* models with rows in gold.chunk_embedding
          Model,    \* CanonicalModel: the one the index stage embeds with
          Mapping,  \* edges the emitters name: [from: <<doc, n>>, to: <<doc, n>>]
          Rebuilt,  \* documents that are normalized or indexed again
          Servers,  \* servers explored: [embedder, floor, reduced]
          MaxJobs,  \* bound: pipeline jobs and seeds
          NULL

Version == {[fw |-> d.fw, ver |-> d.ver] : d \in Doc}
Entry == UNION {{d} \X (1..Len(Tree[d])) : d \in Doc}

\* embedder: none, or the model it answers with.
Server == [embedder: Models \cup {"none", "other"}, floor: Nat, reduced: BOOLEAN]

Role == {"main", "amendment", "companion-workbook", "changelog"}
ParsedRow == [cite: Nat, parent: Nat, status: {"active", "withdrawn", "deprecated"}, amends: Nat,
              sim: Nat, lex: Nat]

ASSUME CorpusAssumption ==
    /\ IsFiniteSet(Doc)
    /\ Doc \subseteq [id: Nat, fw: Nat \ {0}, ver: Nat \ {0}, role: Role]
    /\ \A d, e \in Doc : d.id = e.id => d = e
    /\ NULL \notin [doc: Doc, n: Nat, build: Nat]
    /\ DOMAIN Tree = Doc /\ \A d \in Doc : Tree[d] \in Seq(ParsedRow)
    /\ Listed \subseteq [fw: Nat \ {0}, ver: Nat \ {0}]
    /\ IsFiniteSet(Models) /\ Model \in Models /\ {"none", "other"} \cap Models = {}
    /\ Servers \subseteq Server
    /\ Rebuilt \subseteq Doc /\ MaxJobs \in Nat
    /\ \A m \in Mapping : m.from \in Entry /\ m.to \in Entry
    /\ \A d \in Doc : \A n \in 1..Len(Tree[d]) : Tree[d][n].parent \in 0..n - 1

VARIABLES server,  \* what New, SetAbstainFloor and WithProjection were given
          control, \* silver.control: [doc, n, build]
          chunk,   \* gold.chunk: [row, build]; there is no foreign key to the control
          vector,  \* gold.chunk_embedding: <<chunk, model>>, for the embedders coexist;
                   \*   vector(1024) leaves a model one dims
          sparse,  \* chunks with content_sparse
          edge,    \* silver.control_mapping: [from, names, to]
          current, \* the versions with is_current
          job,     \* the pipeline job under way
          jobs,    \* jobs and seeds so far
          call     \* the tool call under way, or NULL

corpus == <<server, control, chunk, vector, sparse, edge, current>>
cvars == <<server, control, chunk, vector, sparse, edge, current, job, jobs, call>>

At(r) == Tree[r.doc][r.n]
VersionOf(r) == [fw |-> r.doc.fw, ver |-> r.doc.ver]
IsCurrent(r) == VersionOf(r) \in current
Named(e) == {r \in control : <<r.doc, r.n>> = e}
Parent(r) == {p \in control : p.doc = r.doc /\ p.n = At(r).parent}

\* The chunks with a vector of a model.
Embedded(m) == {k \in chunk : <<k, m>> \in vector}

\* gold.chunk JOIN silver.control: an orphan is in no answer.
Joined == {k \in chunk : k.row \in control}

NoJob == [kind |-> "none", doc |-> NULL, build |-> 0, at |-> 0, todo |-> {}]

CorpusTypeOK ==
    /\ server \in Servers
    /\ \A r \in control : <<r.doc, r.n>> \in Entry /\ r.build \in 0..jobs
    /\ \A k \in chunk : k.build \in 0..jobs
    /\ vector \subseteq chunk \X Models /\ sparse \subseteq chunk
    /\ \A m \in edge : m.from \in control /\ m.to \in control \cup {NULL}
    /\ \A v, w \in current : v.fw = w.fw => v = w
    /\ job.kind \in {"none", "normalize", "normalized", "chunks", "index", "weigh"}
    /\ jobs \in 0..MaxJobs

\* A corpus that the whole pipeline built, without an embedder, with one or over
\* the rows of earlier ones.
CorpusInit ==
    /\ server \in Servers
    /\ control = {[doc |-> e[1], n |-> e[2], build |-> 0] : e \in Entry}
    /\ chunk = {[row |-> r, build |-> 0] : r \in control}
    /\ vector \in {{}, chunk \X {Model}, chunk \X Models} /\ sparse = chunk
    /\ edge = {[from |-> CHOOSE r \in control : r \in Named(m.from), names |-> m.to,
                to |-> CHOOSE r \in control : r \in Named(m.to)] : m \in Mapping}
    /\ current = {v \in Listed : \A w \in Listed : v.fw = w.fw => w.ver <= v.ver}
    /\ job = NoJob /\ jobs = 0

-----------------------------------------------------------------------------
(* The writers.  A call under way is no longer calm once they moved.       *)

Disturb == call' = IF call = NULL THEN NULL ELSE [call EXCEPT !.calm = FALSE]

\* DeleteControlsForDocument: outbound edges cascade, inbound ones lose their
\* target, chunks stay behind as orphans.
NormalizeDelete(d) ==
    /\ job = NoJob /\ jobs < MaxJobs
    /\ control' = {r \in control : r.doc # d}
    /\ edge' = {[m EXCEPT !.to = IF @ # NULL /\ @.doc = d THEN NULL ELSE @] :
                  m \in {m \in edge : m.from.doc # d}}
    /\ job' = [NoJob EXCEPT !.kind = "normalize", !.doc = d, !.build = jobs + 1]
    /\ jobs' = jobs + 1 /\ Disturb
    /\ UNCHANGED <<server, chunk, vector, sparse, current>>

InsertControl ==
    /\ job.kind = "normalize" /\ job.at < Len(Tree[job.doc])
    /\ control' = control \cup {[doc |-> job.doc, n |-> job.at + 1, build |-> job.build]}
    /\ job' = [job EXCEPT !.at = @ + 1] /\ Disturb
    /\ UNCHANGED <<server, chunk, vector, sparse, edge, current, jobs>>

\* The control an edge names, if silver has it.
Target(e) == IF Named(e) = {} THEN NULL ELSE CHOOSE r \in control : r \in Named(e)

ResolveControlMappings ==
    /\ job.kind = "normalize" /\ job.at = Len(Tree[job.doc])
    /\ edge' = {[m EXCEPT !.to = Target(m.names)] : m \in edge}
    /\ job' = [job EXCEPT !.kind = "normalized"] /\ Disturb
    /\ UNCHANGED <<server, control, chunk, vector, sparse, current, jobs>>

\* The mapedges stage puts a lost edge back.
UpsertControlMapping(m) ==
    /\ job.kind \in {"none", "normalized"} /\ Named(m.from) # {}
    /\ LET from == Target(m.from)
       IN  /\ ~\E o \in edge : o.from = from /\ o.names = m.to
           /\ edge' = edge \cup {[from |-> from, names |-> m.to, to |-> Target(m.to)]}
    /\ Disturb
    /\ UNCHANGED <<server, control, chunk, vector, sparse, current, job, jobs>>

\* The vectors that ON DELETE CASCADE leaves when only these chunks stay.
VectorsOf(kept) == {v \in vector : v[1] \in kept}

\* The index stage, after normalize or by itself: DeleteOrphanChunks for the
\* corpus, then the chunks of one document anew, the missing vectors and weights.
DeleteOrphanChunks(d) ==
    /\ \/ job = NoJob /\ jobs < MaxJobs /\ jobs' = jobs + 1
       \/ job.kind = "normalized" /\ d = job.doc /\ jobs' = jobs
    /\ chunk' = Joined /\ vector' = VectorsOf(Joined) /\ sparse' = sparse \cap Joined
    /\ job' = [NoJob EXCEPT !.kind = "chunks", !.doc = d, !.build = jobs']
    /\ Disturb
    /\ UNCHANGED <<server, control, edge, current>>

\* Mutant: the vectors of a deleted chunk stay.
MutVectorsStay ==
    /\ job.kind = "chunks"
    /\ chunk' = {k \in chunk : k.row.doc # job.doc} /\ sparse' = sparse \cap chunk'
    /\ job' = [job EXCEPT !.kind = "index", !.todo = {r \in control : r.doc = job.doc}]
    /\ Disturb
    /\ UNCHANGED <<server, control, vector, edge, current, jobs>>

DeleteChunksForControls ==
    /\ job.kind = "chunks"
    /\ LET kept == {k \in chunk : k.row.doc # job.doc}
       IN  chunk' = kept /\ vector' = VectorsOf(kept) /\ sparse' = sparse \cap kept
    /\ job' = [job EXCEPT !.kind = "index", !.todo = {r \in control : r.doc = job.doc}]
    /\ Disturb
    /\ UNCHANGED <<server, control, edge, current, jobs>>

InsertChunk(r) ==
    /\ job.kind = "index" /\ r \in job.todo
    /\ \A o \in job.todo : r.n <= o.n
    /\ chunk' = chunk \cup {[row |-> r, build |-> job.build]}
    /\ job' = [job EXCEPT !.todo = @ \ {r}]
    /\ Disturb
    /\ UNCHANGED <<server, control, vector, sparse, edge, current, jobs>>

\* The lists of missing chunks are ordered by id.
First(S, k) == k \in S /\ \A o \in S : k.build < o.build \/ (k.build = o.build /\ k.row.n <= o.row.n)

\* Embedding may be switched off, or fail: the weights follow all the same.
UpsertChunkEmbedding(k) ==
    /\ job.kind = "index" /\ job.todo = {} /\ First(chunk \ Embedded(Model), k)
    /\ vector' = vector \cup {<<k, Model>>} /\ Disturb
    /\ UNCHANGED <<server, control, chunk, sparse, edge, current, job, jobs>>

UpdateChunkSparse(k) ==
    /\ job.kind \in {"index", "weigh"} /\ job.todo = {} /\ First(chunk \ sparse, k)
    /\ sparse' = sparse \cup {k}
    /\ job' = [job EXCEPT !.kind = "weigh"]
    /\ Disturb
    /\ UNCHANGED <<server, control, chunk, vector, edge, current, jobs>>

\* The job is over, or its process dies in the middle.
JobEnds ==
    /\ job # NoJob
    /\ job' = NoJob
    /\ UNCHANGED <<corpus, jobs, call>>

\* The seed runs in one transaction; the partial unique index leaves one current
\* version to a framework.
Seed(v) ==
    /\ jobs < MaxJobs /\ v \notin current
    /\ current' = {w \in current : w.fw # v.fw} \cup {v}
    /\ jobs' = jobs + 1 /\ Disturb
    /\ UNCHANGED <<server, control, chunk, vector, sparse, edge, job>>

Write ==
    \/ \E d \in Rebuilt : NormalizeDelete(d) \/ DeleteOrphanChunks(d)
    \/ InsertControl
    \/ ResolveControlMappings
    \/ \E m \in Mapping : UpsertControlMapping(m)
    \/ DeleteChunksForControls
    \/ \E r \in control : InsertChunk(r)
    \/ \E k \in chunk : UpsertChunkEmbedding(k) \/ UpdateChunkSparse(k)
    \/ JobEnds
    \/ \E v \in Listed : Seed(v)

-----------------------------------------------------------------------------
(* Ordering.                                                               *)

\* ORDER BY, on keys that are sequences of numbers.
Precedes(s, t) == \E i \in 1..Len(s) : s[i] < t[i] /\ \A j \in 1..i - 1 : s[j] = t[j]

By(S, key) == {p \in S \X S : Precedes(key[p[1]], key[p[2]])}

\* The members of S in a strict order, a set of pairs.
Ordered(S, before) ==
    [i \in 1..Cardinality(S) |->
       CHOOSE x \in S : Cardinality({y \in S : <<y, x>> \in before}) = i - 1]

\* The items of a sequence at some of its indices.
Kept(s, indices) ==
    LET order == Ordered(indices, {p \in indices \X indices : p[1] < p[2]})
    IN  [i \in 1..Cardinality(indices) |-> s[order[i]]]

Limit(s, n) == SubSeq(s, 1, IF Len(s) < n THEN Len(s) ELSE n)
Flag(b) == IF b THEN 0 ELSE 1

\* The order of ids, which also settles what a query leaves open.
Id(r) == <<r.build, r.doc.id, r.n>>
ChunkId(k) == <<k.build>> \o Id(k.row)
=============================================================================
