------------------------------ MODULE Document ------------------------------
(***************************************************************************)
(* The document and corpus_status tools: pkg/mcp/document.go and           *)
(* corpus_status.go.  document finds one control by its citation and then  *)
(* reads its surroundings, a statement at a time; most of them name the    *)
(* control by its id, which a normalize in between makes void.             *)
(* corpus_status is one statement.                                         *)
(***************************************************************************)
EXTENDS Corpus, FiniteSetsExt

CONSTANTS Lookups,  \* [forms, fw, ver, include]: the citation as typed and padded
          Relations \* silver.version_relation: pairs of versions, listed or not

Sections == {"children", "mappings", "lineage", "chunks"}

ASSUME DocumentAssumption == \A q \in Lookups : q.include \subseteq Sections

DocSteps == <<"find", "versions", "elsewhere", "ambiguous", "amendments", "parent",
              "children", "outbound", "inbound", "relations", "lineage", "chunks",
              "project", "reply">>

\* found: the control row, or NULL.
DocNeeds(step, c) ==
    CASE step = "find" -> TRUE
      [] step = "versions" -> c.found = NULL /\ c.q.ver # 0
      [] step = "elsewhere" -> c.found = NULL /\ c.q.fw # 0
      [] step = "ambiguous" -> c.found # NULL /\ c.q.fw = 0
      [] step \in {"amendments", "parent"} -> c.found # NULL
      [] step \in {"children", "chunks"} -> c.found # NULL /\ step \in c.q.include
      [] step \in {"outbound", "inbound"} -> c.found # NULL /\ "mappings" \in c.q.include
      [] step \in {"relations", "lineage"} -> c.found # NULL /\ "lineage" \in c.q.include
      [] OTHER -> TRUE

DocAdvance(c) ==
    LET later == {i \in c.at + 1..Len(DocSteps) : DocNeeds(DocSteps[i], c)}
    IN  [c EXCEPT !.at = CHOOSE i \in later : \A j \in later : i <= j]

Looking == call # NULL /\ call.tool = "document"
DocAt(step) == Looking /\ DocSteps[call.at] = step
DocContinue(c) == call' = DocAdvance(c) /\ UNCHANGED <<corpus, job, jobs>>

NewLookup(q) ==
    [tool |-> "document", q |-> q, at |-> 0, calm |-> TRUE, error |-> FALSE,
     found |-> NULL, current |-> FALSE, gaps |-> {}, amended |-> {},
     parent |-> {}, children |-> {}, outbound |-> {}, inbound |-> {},
     relations |-> {}, lineage |-> {}, chunks |-> {}, text |-> {}]

DocumentStart(q) == call = NULL /\ DocContinue(NewLookup(q))

-----------------------------------------------------------------------------
(* The statements.                                                         *)

Carries(q, r) == At(r).cite \in q.forms

\* Mutant: the choice among several rows forgets the document's role.
MutAnyRole(q) ==
    LET match == {r \in control : /\ Carries(q, r) /\ VersionOf(r) \in Listed
                                  /\ q.fw # 0 => r.doc.fw = q.fw
                                  /\ IF q.ver # 0 THEN r.doc.ver = q.ver ELSE IsCurrent(r)}
        key == [r \in match |-> <<Flag(IsCurrent(r)), r.doc.fw, At(r).cite>> \o Id(r)]
    IN  Limit(Ordered(match, By(match, key)), 1)

\* The row findControl picks: current versions first, then main documents, then
\* by framework, citation and id.
Pick(q) ==
    LET match == {r \in control : /\ Carries(q, r) /\ VersionOf(r) \in Listed
                                  /\ q.fw # 0 => r.doc.fw = q.fw
                                  /\ IF q.ver # 0 THEN r.doc.ver = q.ver ELSE IsCurrent(r)}
        key == [r \in match |-> <<Flag(IsCurrent(r)), Flag(r.doc.role = "main"),
                                  r.doc.fw, At(r).cite>> \o Id(r)]
    IN  Limit(Ordered(match, By(match, key)), 1)

findControl ==
    /\ DocAt("find")
    /\ LET row == Pick(call.q)
       IN  DocContinue(IF row = <<>>
             THEN [call EXCEPT !.gaps = {"no_evidence"}]
             ELSE [call EXCEPT !.found = row[1], !.current = IsCurrent(row[1])])

Tell(kind, rows) ==
    DocContinue([call EXCEPT !.gaps = @ \cup IF rows = {} THEN {} ELSE {kind}])

citationVersions ==
    /\ DocAt("versions")
    /\ Tell("version_not_found", {r \in control : /\ Carries(call.q, r)
                                     /\ (call.q.fw # 0 => r.doc.fw = call.q.fw)})

\* The rows of other frameworks' current versions with the citation.
citationFrameworks(q, fw) == {r \in control : Carries(q, r) /\ IsCurrent(r) /\ r.doc.fw # fw}

FoundElsewhere ==
    DocAt("elsewhere") /\ Tell("found_elsewhere", citationFrameworks(call.q, call.q.fw))

AmbiguousCitation ==
    DocAt("ambiguous")
    /\ Tell("ambiguous_citation", citationFrameworks(call.q, call.found.doc.fw))

\* By framework, version and citation: an amendment is a document of its own.
Amendments(r) == {a \in control : /\ VersionOf(a) = VersionOf(r) /\ a.doc.role = "amendment"
                                  /\ At(a).amends = At(r).cite}

controlAmendments ==
    DocAt("amendments") /\ DocContinue([call EXCEPT !.amended = Amendments(call.found)])

controlParent ==
    /\ DocAt("parent")
    /\ DocContinue([call EXCEPT !.parent =
           IF call.found \in control THEN Parent(call.found) ELSE {}])

\* Mutant: the children are looked up by the parent's citation.
MutChildrenByCitation(p) == {r \in control : r.doc = p.doc /\ At(r).parent = p.n}

Children(p) == {r \in control : p \in Parent(r)}

controlChildren ==
    DocAt("children") /\ DocContinue([call EXCEPT !.children = Children(call.found)])

outboundMappings ==
    DocAt("outbound")
    /\ DocContinue([call EXCEPT !.outbound = {m \in edge : m.from = call.found}])

inboundMappings ==
    DocAt("inbound")
    /\ DocContinue([call EXCEPT !.inbound = {m \in edge : m.to = call.found}])

\* versionLineage: the related versions with their currency, then the framework's;
\* the currency of a version that is not listed reads as false.
Currency(v) == [version |-> v, current |-> v \in current]

\* The other ends of the relations of a version.
Related(v) == {p[2] : p \in {p \in Relations : p[1] = v}}
                 \cup {p[1] : p \in {p \in Relations : p[2] = v}}

versionRelations ==
    /\ DocAt("relations")
    /\ DocContinue([call EXCEPT !.relations =
           {Currency(v) : v \in Related(VersionOf(call.found))}])

versionLineage ==
    /\ DocAt("lineage")
    /\ DocContinue([call EXCEPT !.lineage =
           {Currency(v) : v \in {v \in Listed : v.fw = call.found.doc.fw}}])

\* One chunk to a control, so a page is never full; an empty section is named.
controlChunks ==
    /\ DocAt("chunks")
    /\ LET found == {k \in chunk : k.row = call.found}
       IN  DocContinue([call EXCEPT !.chunks = found,
               !.gaps = @ \cup IF found = {} THEN {"no_chunks"} ELSE {}])

\* ProjectDocument: licensed text is the body, the chunks and the amendments.
ProjectDocument ==
    /\ DocAt("project")
    /\ DocContinue([call EXCEPT !.text =
           IF server.reduced \/ call.found = NULL THEN {}
           ELSE {call.found} \cup call.amended \cup {k.row : k \in call.chunks}])

\* The diagnostics are best effort; any other failed statement ends the call.
Diagnostics == {"versions", "elsewhere", "ambiguous"}

DiagnosticFails ==
    /\ Looking /\ DocSteps[call.at] \in Diagnostics
    /\ DocContinue([call EXCEPT !.calm = FALSE])

DocumentFails ==
    /\ Looking /\ DocSteps[call.at] \notin Diagnostics \cup {"project", "reply"}
    /\ call' = [NewLookup(call.q) EXCEPT !.at = Len(DocSteps), !.error = TRUE]
    /\ UNCHANGED <<corpus, job, jobs>>

DocumentReturn == DocAt("reply") /\ call' = NULL /\ UNCHANGED <<corpus, job, jobs>>

-----------------------------------------------------------------------------
(* corpus_status.                                                          *)

\* Mutant: chunks are counted without the join on their controls.
MutCountOrphans(v) == {k \in chunk : VersionOf(k.row) = v}

ChunksOf(v) == {k \in Joined : VersionOf(k.row) = v}

CountsOf(v) ==
    [version |-> v, current |-> v \in current,
     controls |-> Cardinality({r \in control : VersionOf(r) = v}),
     withdrawn |-> Cardinality({r \in control : VersionOf(r) = v /\ At(r).status = "withdrawn"}),
     chunks |-> Cardinality(ChunksOf(v)),
     embeddings |-> Cardinality({e \in vector : e[1] \in ChunksOf(v)}),
     resolved |-> Cardinality({m \in edge : VersionOf(m.from) = v /\ m.to # NULL}),
     unresolved |-> Cardinality({m \in edge : VersionOf(m.from) = v /\ m.to = NULL}),
     inbound |-> Cardinality({m \in edge : m.to # NULL /\ VersionOf(m.to) = v})]

\* The listed versions with documents.
Reported == Version \cap Listed

CorpusStatus ==
    /\ call = NULL
    /\ call' = [tool |-> "corpus_status", rows |-> {CountsOf(v) : v \in Reported},
                calm |-> TRUE, ready |-> \E v \in Reported : ChunksOf(v) # {}]
    /\ UNCHANGED <<corpus, job, jobs>>

StatusReplied == call # NULL /\ call.tool = "corpus_status"
StatusReturn == StatusReplied /\ call' = NULL /\ UNCHANGED <<corpus, job, jobs>>

DocumentNext ==
    \/ \E q \in Lookups : DocumentStart(q)
    \/ findControl \/ citationVersions \/ FoundElsewhere \/ AmbiguousCitation
    \/ controlAmendments \/ controlParent \/ controlChildren
    \/ outboundMappings \/ inboundMappings \/ versionRelations \/ versionLineage
    \/ controlChunks \/ ProjectDocument
    \/ DiagnosticFails \/ DocumentFails \/ DocumentReturn
    \/ CorpusStatus \/ StatusReturn

-----------------------------------------------------------------------------
(* What the tools promise.                                                 *)

Opened == DocAt("reply") /\ ~call.error

\* A document reply never mixes two builds of a document: parent, children, edges
\* and chunks belong to the very row whose body is shown, even when normalize
\* replaced the rows between two statements (the sections are read by control id).
OneBuild == call.found # NULL =>
    /\ \A r \in call.parent \cup call.children :
          r.doc = call.found.doc /\ r.build = call.found.build
    /\ \A m \in call.outbound : m.from = call.found
    /\ \A m \in call.inbound : m.to = call.found
    /\ \A k \in call.chunks : k.row = call.found

\* The lineage shows the version that was opened with the currency it was opened
\* with, and no version as current in one part and superseded in the other.
LineageAgrees ==
    /\ [version |-> VersionOf(call.found), current |-> call.current] \in call.lineage
    /\ \A x \in call.relations, y \in call.lineage : x.version = y.version => x = y

\* A document call that nothing disturbed opens the control the citation means -
\* of the current version and of its main document unless the caller says
\* otherwise -, with every amendment of it, tells of other frameworks when none was
\* asked for, and reads one currency of a version in three statements.  A miss in a
\* version tells whether another carries the citation, a miss in a framework whether
\* the current version of another does (dbCorpus.Document).
OpensTheMeant ==
    LET q == call.q
        carry == {r \in control : Carries(q, r)}
        asked == {r \in carry : /\ VersionOf(r) \in Listed
                                /\ q.fw # 0 => r.doc.fw = q.fw
                                /\ q.ver # 0 => r.doc.ver = q.ver
                                /\ q.ver = 0 => IsCurrent(r)}
        others(fw) == \E r \in carry : IsCurrent(r) /\ r.doc.fw # fw
    IN  IF asked = {}
        THEN /\ call.found = NULL /\ "no_evidence" \in call.gaps
             /\ "version_not_found" \in call.gaps <=>
                   q.ver # 0 /\ \E r \in carry : q.fw # 0 => r.doc.fw = q.fw
             /\ "found_elsewhere" \in call.gaps <=> q.fw # 0 /\ others(q.fw)
        ELSE /\ call.found \in asked
             /\ call.found.doc.role # "main" =>
                   \A r \in asked : r.doc.role = "main" => call.current /\ ~IsCurrent(r)
             /\ "ambiguous_citation" \in call.gaps <=> q.fw = 0 /\ others(call.found.doc.fw)
             /\ \A a \in control : a.doc.role = "amendment" /\ At(a).amends = At(call.found).cite
                     /\ VersionOf(a) = VersionOf(call.found) => a \in call.amended
             /\ "lineage" \in q.include => LineageAgrees

\* Whatever moment it reads at a document reply is of one build, and an undisturbed
\* one opens what the citation means (dbCorpus.Document).
DocumentAnswers == Opened => OneBuild /\ (call.calm => OpensTheMeant)

\* No version has more vectors than its chunks have models or more chunks than
\* controls, a framework has one current version at most, and the corpus is ready iff
\* a version has chunks.
CountsAgree ==
    /\ \A s \in call.rows : /\ s.embeddings <= s.chunks * Cardinality(Models)
                            /\ s.chunks <= s.controls /\ s.withdrawn <= s.controls
    /\ \A v, w \in call.rows : v.current /\ w.current /\ v.version.fw = w.version.fw => v = w
    /\ call.ready <=> \E s \in call.rows : s.chunks > 0

\* The resolved edges that leave and that reach a listed version.
Leaving == {m \in edge : m.to # NULL /\ VersionOf(m.from) \in Listed}
Reaching == {m \in edge : m.to # NULL /\ VersionOf(m.to) \in Listed}

\* Every resolved edge is somebody's inbound edge, but for those from or to a version
\* that is not listed, which are counted at the other end alone.
EdgesAgree ==
    MapThenSumSet(LAMBDA s : s.resolved, call.rows) + Cardinality(Reaching \ Leaving)
       = MapThenSumSet(LAMBDA s : s.inbound, call.rows) + Cardinality(Leaving \ Reaching)

\* The counts of corpus_status agree with each other at every moment, also in the
\* middle of a rebuild (dbCorpus.Status).
StatusAgrees == StatusReplied => CountsAgree /\ (call.calm => EdgesAgree)
=============================================================================
