------------------------------- MODULE Search -------------------------------
(***************************************************************************)
(* The search tool: pkg/mcp/search.go over pkg/rag/retrieve.  A call looks *)
(* up the citations the query names, runs the dense and the lexical arm,   *)
(* fuses them, reads the rows of what it ranked, adds hits of versions     *)
(* that are not current, and shapes the reply.  Every statement is a step. *)
(***************************************************************************)
EXTENDS Corpus

CONSTANTS Queries,       \* [matches, fw, ver, topK, mode, withdrawn, docCap, compact]
          Scheme,        \* [frameworks -> citation schemes]: frameworkScheme
          ArmLimit,      \* VectorK and BM25K
          CitationLimit, \* LIMIT of the citation lookup
          RRFK,          \* the constant of reciprocal rank fusion
          NonCurrentCap  \* nonCurrentCap

ASSUME SearchAssumption ==
    /\ {ArmLimit, CitationLimit, RRFK, NonCurrentCap} \subseteq Nat \ {0}
    /\ \A q \in Queries : /\ q.mode \in {"", "hybrid", "vector", "bm25"}
                          /\ q.topK \in Nat \ {0} /\ q.docCap \in Nat
    \* The lexical arm orders by score alone; ties are left out.
    /\ \A e, f \in Entry : e # f =>
          Tree[e[1]][e[2]].lex = 0 \/ Tree[e[1]][e[2]].lex # Tree[f[1]][f[2]].lex

-----------------------------------------------------------------------------
(* What the call asks for.  fw = 0, ver = 0 : no filter.                    *)

\* MatchCitation: under a framework filter only its own scheme is tried.
MatchCitation(q) ==
    {m.cite : m \in {m \in q.matches :
        q.fw = 0 \/ (q.fw \in DOMAIN Scheme /\ m.scheme = Scheme[q.fw])}}

\* resolve
Mode(q) == IF q.mode # "" THEN q.mode
           ELSE IF server.embedder = "none" THEN "bm25" ELSE "hybrid"
SurfaceNonCurrent(q) == q.fw = 0 /\ q.ver = 0

\* The conditions of every statement: on the status, and the inner join with
\* config.framework_version.
Served(q, r) ==
    /\ At(r).status = "active" \/ (q.withdrawn /\ At(r).status = "withdrawn")
    /\ VersionOf(r) \in Listed

\* Mutant: a framework filter switches the default to all versions.
MutFilterAllVersions(q, r) ==
    /\ q.fw # 0 => r.doc.fw = q.fw
    /\ IF q.ver # 0 THEN r.doc.ver = q.ver ELSE q.fw # 0 \/ IsCurrent(r)

\* buildVersionFilterCTE, and the conditions of citationLookup.
VersionFilter(q, r) ==
    /\ q.fw # 0 => r.doc.fw = q.fw
    /\ IF q.ver # 0 THEN r.doc.ver = q.ver ELSE IsCurrent(r)

-----------------------------------------------------------------------------
(* The arms.  They return chunks in rank order.                            *)

\* Only vectors of the model of the query's vector join.
Dense(q, V(_, _)) ==
    LET found == {k \in Joined \cap Embedded(server.embedder) :
                     Served(q, k.row) /\ V(q, k.row)}
        key == [k \in found |-> <<-At(k.row).sim>> \o ChunkId(k)]
    IN  Limit(Ordered(found, By(found, key)), ArmLimit)

Sparse(q, V(_, _)) ==
    LET found == {k \in Joined \cap sparse : /\ At(k.row).lex > 0
                                             /\ Served(q, k.row) /\ V(q, k.row)}
        key == [k \in found |-> <<-At(k.row).lex>> \o ChunkId(k)]
    IN  Limit(Ordered(found, By(found, key)), ArmLimit)

\* buildNonCurrentCTE
NonCurrent(q, r) == (q.fw # 0 => r.doc.fw = q.fw) /\ ~IsCurrent(r)

Members(s) == {s[i] : i \in 1..Len(s)}
Rank(s, k) == IF k \in Members(s) THEN CHOOSE i \in 1..Len(s) : s[i] = k ELSE 0

\* Twice the fused score, as a fraction; weight is twice the lexical weight.
Score(h, weight) ==
    LET v == IF h.vrank > 0 THEN <<2, RRFK + h.vrank>> ELSE <<0, 1>>
        b == IF h.brank > 0 THEN <<weight, RRFK + h.brank>> ELSE <<0, 1>>
    IN  <<v[1] * b[2] + b[1] * v[2], v[2] * b[2]>>

\* By score, then by chunk id.
Above(g, h, weight) ==
    LET s == Score(g, weight)
        t == Score(h, weight)
    IN  \/ s[1] * t[2] > t[1] * s[2]
        \/ s[1] * t[2] = t[1] * s[2] /\ Precedes(ChunkId(g.chunk), ChunkId(h.chunk))

fuseRRF(dense, lexical, weight) ==
    LET hits == {[chunk |-> k, vrank |-> Rank(dense, k), brank |-> Rank(lexical, k)] :
                    k \in Members(dense) \cup Members(lexical)}
    IN  Ordered(hits, {p \in hits \X hits : Above(p[1], p[2], weight)})

\* hydrate: the rows as they are now; a ranked chunk that is gone is dropped.
Hydrated(fused) ==
    LET found == Kept(fused, {i \in 1..Len(fused) : fused[i].chunk \in Joined})
    IN  [i \in 1..Len(found) |->
           [chunk |-> found[i].chunk, vrank |-> found[i].vrank, brank |-> found[i].brank,
            current |-> IsCurrent(found[i].chunk.row), pinned |-> FALSE]]

Chunks(hits) == {hits[i].chunk : i \in 1..Len(hits)}
Similarity(h) == IF h.vrank > 0 THEN At(h.chunk.row).sim ELSE 0

\* The hits of a framework ahead of its hit at j.
Ahead(hits, j) ==
    {i \in 1..j - 1 : hits[i].chunk.row.doc.fw = hits[j].chunk.row.doc.fw}

capPerFramework(hits, cap, topK) ==
    LET within == {j \in 1..Len(hits) : Cardinality(Ahead(hits, j)) < cap}
    IN  Limit(Kept(hits, within) \o Kept(hits, 1..Len(hits) \ within), topK)

\* The hits whose chunk is not listed in others.
Beside(hits, others) ==
    Kept(hits, {i \in 1..Len(hits) : hits[i].chunk \notin Chunks(others)})

mergePinned(pinned, fused, topK) ==
    pinned \o Limit(Beside(fused, pinned),
                    IF topK > Len(pinned) THEN topK - Len(pinned) ELSE 0)

bestHitPerFramework(hits) ==
    Kept(hits, {j \in 1..Len(hits) : ~\E i \in 1..j - 1 :
                   VersionOf(hits[i].chunk.row) = VersionOf(hits[j].chunk.row)})

\* Mutant: what the two passes find is taken to be disjoint.
MutAppendAll(hits, older) == hits \o older

appendNonCurrent(hits, older) ==
    hits \o Beside(older, hits)

-----------------------------------------------------------------------------
(* The call.                                                               *)

Steps == <<"cite", "embed", "dense", "lexical", "hydrate", "older", "olderhydrate",
           "urls", "filter", "shape", "reply">>

\* The statements a call needs.  Vector mode without an embedder is refused where
\* the query would be embedded.
Needs(step, c) ==
    CASE step = "cite" -> MatchCitation(c.q) # {}
      [] step = "embed" -> \/ Mode(c.q) = "vector"
                           \/ Mode(c.q) = "hybrid" /\ server.embedder # "none"
      [] step = "dense" -> c.embedded
      [] step = "lexical" -> Mode(c.q) # "vector"
      [] step = "older" -> SurfaceNonCurrent(c.q) /\ (c.embedded \/ c.lexical # <<>>)
      [] step = "olderhydrate" -> c.older # NULL
      [] step = "urls" -> c.hits # <<>>
      [] step = "filter" -> c.q.fw # 0
      [] OTHER -> TRUE

Advance(c) ==
    LET later == {i \in c.at + 1..Len(Steps) : Needs(Steps[i], c)}
    IN  [c EXCEPT !.at = CHOOSE i \in later : \A j \in later : i <= j]

Searching == call # NULL /\ call.tool = "search"
SearchAt(step) == Searching /\ Steps[call.at] = step
Continue(c) == call' = Advance(c) /\ UNCHANGED <<corpus, job, jobs>>

NewSearch(q) ==
    [tool |-> "search", q |-> q, at |-> 0, calm |-> TRUE, error |-> FALSE,
     embedded |-> FALSE, pinned |-> <<>>, dense |-> <<>>, lexical |-> <<>>,
     hits |-> <<>>, older |-> NULL, urls |-> {}, gaps |-> {},
     abstain |-> FALSE, text |-> FALSE]

SearchStart(q) == call = NULL /\ Continue(NewSearch(q))

\* The rows of the citation lookup, as hits.
Pins(q) ==
    LET found == {k \in Joined : /\ At(k.row).cite \in MatchCitation(q)
                                 /\ VersionFilter(q, k.row) /\ Served(q, k.row)}
        key == [k \in found |-> <<Flag(IsCurrent(k.row)), k.row.doc.fw, k.row.doc.ver,
                                  At(k.row).cite>> \o ChunkId(k)]
        first == Limit(Ordered(found, By(found, key)), CitationLimit)
    IN  [i \in 1..Len(first) |->
           [chunk |-> first[i], vrank |-> 0, brank |-> 0,
            current |-> IsCurrent(first[i].row), pinned |-> TRUE]]

citationLookup ==
    /\ SearchAt("cite")
    /\ Continue([call EXCEPT !.pinned = Pins(call.q)])

\* A lookup that fails part of the way is logged, and the rows it read stay.
CitationFails(n) ==
    /\ SearchAt("cite") /\ n <= Len(Pins(call.q))
    /\ Continue([call EXCEPT !.calm = FALSE, !.pinned = Limit(Pins(call.q), n)])

\* The embedder tries twice; a failure ends the call.
EmbedQuery ==
    /\ SearchAt("embed") /\ server.embedder # "none"
    /\ Continue([call EXCEPT !.embedded = TRUE])

vectorArmExact ==
    /\ SearchAt("dense")
    /\ Continue([call EXCEPT !.dense = Dense(call.q, VersionFilter)])

sparseArm ==
    /\ SearchAt("lexical")
    /\ Continue([call EXCEPT !.lexical = Sparse(call.q, VersionFilter)])

\* Fusion, truncation, hydration, cap and merge: one statement in the middle.
hydrate ==
    /\ SearchAt("hydrate")
    /\ LET q == call.q
           pins == Len(call.pinned)
           room == IF pins = 0 THEN q.topK
                   ELSE IF q.topK - pins < 1 THEN 1 ELSE q.topK - pins
           fused == fuseRRF(call.dense, call.lexical, IF pins > 0 THEN 3 ELSE 1)
           found == Hydrated(Limit(fused, room))
           kept == IF q.docCap > 0 THEN capPerFramework(found, q.docCap, room) ELSE found
       IN  Continue([call EXCEPT !.hits =
               IF pins > 0 THEN mergePinned(call.pinned, kept, q.topK) ELSE kept])

\* nonCurrentHits and nonCurrentHitsBM25
nonCurrentHits ==
    /\ SearchAt("older")
    /\ LET list == IF call.embedded THEN fuseRRF(Dense(call.q, NonCurrent), <<>>, 2)
                                    ELSE fuseRRF(<<>>, Sparse(call.q, NonCurrent), 2)
           limit == IF call.q.topK < NonCurrentCap THEN call.q.topK ELSE NonCurrentCap
       IN  Continue([call EXCEPT !.older = Limit(list, limit)])

nonCurrentHydrate ==
    /\ SearchAt("olderhydrate")
    /\ Continue([call EXCEPT !.hits =
           appendNonCurrent(call.hits, bestHitPerFramework(Hydrated(call.older)))])

hitSourceURLs ==
    /\ SearchAt("urls")
    /\ Continue([call EXCEPT !.urls = {k.row.doc : k \in Chunks(call.hits)}])

Gap(kind, blocks) == [kind |-> kind, blocks |-> blocks]

\* Against the documents in silver; a re-normalized document never leaves them.
filterGaps ==
    /\ SearchAt("filter")
    /\ LET q == call.q
           blocks == call.hits = <<>>
           gaps == IF ~\E d \in Doc : d.fw = q.fw THEN {Gap("unknown_framework", blocks)}
                   ELSE IF q.ver # 0 /\ ~\E d \in Doc : d.fw = q.fw /\ d.ver = q.ver
                   THEN {Gap("version_not_found", blocks)} ELSE {}
       IN  Continue([call EXCEPT !.gaps = gaps])

\* Mutant: the dense arm counts as run when an embedder is configured.
MutDenseConfigured(hits) ==
    /\ server.floor > 0 /\ server.embedder # "none"
    /\ \A i \in 1..Len(hits) : Similarity(hits[i]) < server.floor

\* applyAbstainFloor
LowConfidence(hits) ==
    /\ server.floor > 0 /\ \E i \in 1..Len(hits) : hits[i].vrank > 0
    /\ \A i \in 1..Len(hits) : Similarity(hits[i]) < server.floor

\* The rest of SearchEvidence and Search: abstention, gaps, projection.
SearchShape ==
    /\ SearchAt("shape")
    /\ LET none == call.hits = <<>>
           low == ~none /\ LowConfidence(call.hits)
       IN  Continue([call EXCEPT
               !.pinned = <<>>, !.dense = <<>>, !.lexical = <<>>, !.older = NULL,
               !.abstain = none \/ low,
               !.gaps = @ \cup (IF none THEN {Gap("no_evidence", TRUE)} ELSE {})
                          \cup (IF low THEN {Gap("low_confidence", TRUE)} ELSE {}),
               !.text = ~server.reduced /\ ~call.q.compact])

\* A failed older pass, missing links or an unread filter cost their part of the
\* reply, like a failed citation lookup; any other failure ends the call with an error.
Tolerated == {"older", "olderhydrate", "urls", "filter"}

StatementFails ==
    /\ Searching
    /\ Steps[call.at] \in Tolerated
    /\ Continue([call EXCEPT !.calm = FALSE, !.older = NULL])

SearchFails ==
    /\ Searching
    /\ Steps[call.at] \in {"embed", "dense", "lexical"}
         \/ (SearchAt("hydrate") /\ call.dense \o call.lexical # <<>>)
    /\ call' = [NewSearch(call.q) EXCEPT !.at = Len(Steps), !.error = TRUE]
    /\ UNCHANGED <<corpus, job, jobs>>

SearchReturn == SearchAt("reply") /\ call' = NULL /\ UNCHANGED <<corpus, job, jobs>>

SearchNext ==
    \/ \E q \in Queries : SearchStart(q)
    \/ citationLookup \/ EmbedQuery \/ vectorArmExact \/ sparseArm \/ hydrate
    \/ nonCurrentHits \/ nonCurrentHydrate \/ hitSourceURLs \/ filterGaps
    \/ \E n \in 0..CitationLimit : CitationFails(n)
    \/ SearchShape \/ StatementFails \/ SearchFails \/ SearchReturn

-----------------------------------------------------------------------------
(* What a search promises.                                                 *)

Replied == SearchAt("reply") /\ ~call.error

\* Every reply, also one the corpus changed under, lists a chunk once: the citation
\* lookup, the arms and the pass over older versions read at different moments and
\* a version may stop being current in between (mergePinned, appendNonCurrent).
NoChunkTwice ==
    \A i, j \in 1..Len(call.hits) : call.hits[i].chunk = call.hits[j].chunk => i = j

\* A search no write and no failure came between finds what the corpus holds: the
\* controls the query cites come first and all of them; every other hit is of the
\* version asked for and found by an arm that runs, and a control that is better in
\* each arm that finds the hit is listed too, ahead of it unless a cap moves hits;
\* older versions come last, once each, and only when no filter is set; nothing is
\* returned only when nothing matches (searchHits).
FindsTheCorpus ==
    LET q == call.q
        hits == call.hits
        asked == {k \in Joined : Served(q, k.row) /\ (q.fw # 0 => k.row.doc.fw = q.fw)
                      /\ IF q.ver # 0 THEN k.row.doc.ver = q.ver ELSE IsCurrent(k.row)}
        cited == {k \in asked : At(k.row).cite \in MatchCitation(q)}
        near == {k \in asked \cap Embedded(server.embedder) : Mode(q) # "bm25"}
        alike == {k \in asked \cap sparse : Mode(q) # "vector" /\ At(k.row).lex > 0}
        Better(k, j) ==
            /\ j \in near => /\ k \in near /\ At(k.row).sim >= At(j.row).sim
                             /\ At(k.row).sim = At(j.row).sim => Precedes(ChunkId(k), ChunkId(j))
            /\ j \in alike => k \in alike /\ At(k.row).lex > At(j.row).lex
        pins == IF Cardinality(cited) < CitationLimit THEN Cardinality(cited)
                ELSE CitationLimit
        older == {i \in 1..Len(hits) : SurfaceNonCurrent(q) /\ ~hits[i].current}
        main == 1..Len(hits) \ older
    IN  /\ \A i \in main, j \in older : i < j
        /\ 1..pins \subseteq main
        /\ \A i \in main : hits[i].chunk \in IF i <= pins THEN cited ELSE near \cup alike
        /\ \A i \in main, k \in asked : i > pins /\ Better(k, hits[i].chunk) =>
              \E j \in main : hits[j].chunk = k /\ (q.docCap = 0 => j < i)
        /\ Cardinality(main) <= IF pins > q.topK THEN pins ELSE q.topK
        /\ Cardinality(older) <= NonCurrentCap
        /\ \A i, j \in older : VersionOf(hits[i].chunk.row)
                                = VersionOf(hits[j].chunk.row) => i = j
        /\ main = {} => near \cup alike \cup cited = {}

\* Whatever moment it reads at a search lists no chunk twice, and an undisturbed one
\* answers for the whole corpus (Retriever.searchHits).
SearchAnswers == Replied => NoChunkTwice /\ (call.calm => FindsTheCorpus)

\* A reply without hits abstains and says why; one with hits abstains exactly when
\* the dense arm ranked some of them and the cosine of each of those is below the
\* floor, so a server whose embedder is missing or of another model never does: the
\* ranks of its replies are lexical (applyAbstainFloor, "must not abstain on it").
HonestAbstention == Replied =>
    LET ranked == {i \in 1..Len(call.hits) : call.hits[i].vrank > 0}
    IN  /\ call.abstain <=> \E g \in call.gaps : g.blocks
        /\ call.hits = <<>> => call.abstain
        /\ call.hits # <<>> =>
              (call.abstain <=> /\ server.floor > 0 /\ ranked # {}
                                /\ \A i \in ranked :
                                      At(call.hits[i].chunk.row).sim < server.floor)
        /\ ranked # {} => server.embedder \in Models

\* "The floor compares the best raw vector cosine similarity across the returned
\* hits" (docs/design/MCP.md): no hit of a reply that abstains is as close to the query
\* as the floor asks.  The lead hit may be: mergePinned returns a cited control as
\* the lookup read it and drops the copy with the cosine (retrieve.go).
FloorSeesAllHits == Replied /\ call.calm /\ call.abstain =>
    \A i \in 1..Len(call.hits) :
        LET k == call.hits[i].chunk
        IN  k \in Embedded(server.embedder) => At(k.row).sim < server.floor
=============================================================================
