------------------------------ MODULE MapEdges ------------------------------
(***************************************************************************)
(* The mapedges stage: the cross-framework edges of silver.control_mapping *)
(* and the marker silver.document.mapedges_at that says they are current.  *)
(* Normalizing a document deletes its control rows, and with them the      *)
(* edges that leave it; the edges into it lose their target.  Only the     *)
(* mapedges stage builds derived and curated edges again.  Every statement *)
(* commits by itself.                                                      *)
(***************************************************************************)
EXTENDS Integers, Sequences, FiniteSets

CONSTANTS Doc,        \* main documents: [fw, ver, current]
          Tree,       \* [Doc -> Seq of [cite, kind, title]]: what a parse inserts, in order
          OlirRows,   \* rows of the OLIR crosswalk: [focal, ref], NULL for other text
          CisRows,    \* rows of a CIS mapping workbook: [title, rel, target]
          CuratedRows,\* config.curated_mapping: [key, fw, ver, cite, rel]
          Supersedes, \* version pairs [fw, ver, old] of EmitVersionSupersessions
          Concurrent, \* normalize runs in another process while mapedges does
          MaxGen,     \* bound: normalizations of a document
          MaxFails,   \* bound: statements that fail
          NULL

\* The emitters in the order the stage runs them.  The reverse half of the ISO
\* emitter is listed by itself; it runs only after the first half found controls.
Source == <<"iso", "iso-reverse", "olir", "cis", "curated">>
\* One CIS workbook, the one to 27001, stands for the three.
Workbook == {"olir", "cis"}
ISO27001 == "iso27001"
ISO27002 == "iso27002"
Edition == "2022"
Annex(cite) == <<"A">> \o cite

ASSUME MapEdgesAssumption ==
    /\ NULL \notin Doc /\ \A d \in Doc : Len(Tree[d]) \in Nat \ {0}
    /\ \A d \in Doc : \A i, j \in 1..Len(Tree[d]) :
          Tree[d][i].cite = Tree[d][j].cite => i = j
    /\ \A d, d1 \in Doc : d.fw = d1.fw /\ d.ver = d1.ver => d = d1
    /\ Concurrent \in BOOLEAN /\ MaxGen \in Nat /\ MaxFails \in Nat

VARIABLES doc,    \* per document: normalizations so far, rows inserted, the marker
          edge,   \* silver.control_mapping
          super,  \* the rows of silver.version_relation
          held,   \* workbooks captured in bronze
          norm,   \* the document normalize is rebuilding, or NULL
          run,    \* the mapedges stage
          fails   \* failures so far

vars == <<doc, edge, super, held, norm, run, fails>>

\* gen counts the rebuilds: a rebuilt control has a new id.
Row(c) == [c |-> c, gen |-> doc[c.doc].gen]
Nth(d, i) == [doc |-> d, cite |-> Tree[d][i].cite, kind |-> Tree[d][i].kind,
              title |-> Tree[d][i].title]
ControlRows == UNION {{Row(Nth(d, i)) : i \in 1..doc[d].rows} : d \in Doc}
InSilver(d) == doc[d].gen > 0

Idle == [pc |-> "idle", at |-> 0, todo |-> {}, skipped |-> {}]

TypeOK ==
    /\ doc \in [Doc -> [gen: 0..MaxGen, rows: Nat, fresh: BOOLEAN]]
    /\ \A d \in Doc : doc[d].rows <= Len(Tree[d]) /\ (doc[d].fresh => InSilver(d))
    /\ \A m \in edge : m.from \in ControlRows /\ m.to \in ControlRows \cup {NULL}
    /\ super \subseteq Supersedes /\ held \subseteq Workbook /\ norm \in Doc \cup {NULL}
    /\ run.pc \in {"idle", "load", "emit", "resolve", "annex", "relate", "hop", "mark"}
    /\ run.at \in 0..Len(Source) + 1 /\ run.skipped \subseteq Workbook
    /\ fails \in 0..MaxFails

Init ==
    /\ doc = [d \in Doc |-> [gen |-> 0, rows |-> 0, fresh |-> FALSE]]
    /\ edge = {} /\ super = {} /\ held = {} /\ norm = NULL
    /\ run = Idle /\ fails = 0

-----------------------------------------------------------------------------
(* Statements.                                                             *)

\* ON CONFLICT keeps the resolved target; the relationship is the last one's.
SameKey(m, e) == m.fw = e.fw /\ m.ver = e.ver /\ m.cite = e.cite /\ m.source = e.source
UpsertControlMapping(e) ==
    LET old == {m \in edge : m.from = e.from /\ SameKey(m, e)}
        to == IF old = {} THEN NULL ELSE (CHOOSE m \in old : TRUE).to
    IN  (edge \ old) \cup {[from |-> e.from, fw |-> e.fw, ver |-> e.ver, cite |-> e.cite,
                            source |-> e.source, rel |-> e.rel, to |-> to]}

\* The version an edge means: the one it names, or the current one.
Means(m, d) == d.fw = m.fw /\ IF m.ver = NULL THEN d.current ELSE d.ver = m.ver

\* Mutant: the version an edge names is not compared.
MutAnyVersion(m) == {r \in ControlRows : r.c.doc.fw = m.fw /\ r.c.cite = m.cite}

Exact(m) == {r \in ControlRows : Means(m, r.c.doc) /\ r.c.cite = m.cite}

\* An unresolved edge takes a candidate, if it has one.
Resolved(Candidates(_)) ==
    {IF m.to # NULL \/ Candidates(m) = {} THEN m
     ELSE [m EXCEPT !.to = CHOOSE r \in Candidates(m) : TRUE] : m \in edge}

ResolveControlMappings == Resolved(Exact)

\* ResolveAnnexPrefix: a bare number means the Annex A control, unless it is a
\* management clause.
Clause(m, d) == \E r \in ControlRows : r.c.doc.fw = ISO27001 /\ r.c.doc.ver = d.ver
                                       /\ r.c.cite = m.cite /\ r.c.kind = "clause"

Prefixed(m) == {r \in ControlRows :
    /\ m.fw = ISO27001 /\ Means(m, r.c.doc)
    /\ r.c.cite = Annex(m.cite) /\ r.c.kind = "annex-control"
    /\ ~Clause(m, r.c.doc)}

\* ResolveViaSupersession: one hop from the cited version to its successor.
Successor(m) == {r \in ControlRows :
    /\ m.ver # NULL /\ r.c.cite = m.cite
    /\ [fw |-> m.fw, ver |-> r.c.doc.ver, old |-> m.ver] \in super
    /\ r.c.doc.fw = m.fw}

-----------------------------------------------------------------------------
(* What each emitter upserts, from the controls it reads: the ids are those *)
(* of this reading.                                                         *)

EdgeOf(s, from, fw, ver, cite, rel) ==
    [source |-> s, from |-> from, fw |-> fw, ver |-> ver, cite |-> cite, rel |-> rel]

ControlsOf(fw, ver, kind) ==
    {r \in ControlRows : r.c.doc.fw = fw /\ r.c.doc.ver = ver /\ r.c.kind = kind}
loadAnnexControls == ControlsOf(ISO27001, Edition, "annex-control")
load27002Controls == ControlsOf(ISO27002, Edition, "control")

\* 27001 A.x.y and 27002 x.y are the same control.
ISOForward ==
    {EdgeOf("iso", r, ISO27002, Edition, Tail(r.c.cite), "equivalent") :
        r \in {r \in loadAnnexControls : Head(r.c.cite) = "A"}}
ISOReverse ==
    {EdgeOf("iso-reverse", r, ISO27001, Edition, Annex(r.c.cite), "equivalent") :
        r \in load27002Controls}

loadCurrentControls(fw) == {r \in ControlRows : r.c.doc.fw = fw /\ r.c.doc.current}

\* Rows that do not pair two citations are headers and prose.
parseOLIRPairs == {row \in OlirRows : row.focal # NULL /\ row.ref # NULL}
OLIREdges ==
    {EdgeOf("olir", x[2], ISO27001, Edition, x[1].ref, "related") :
        x \in {x \in parseOLIRPairs \X loadCurrentControls("nist80053") :
                 x[1].focal = x[2].c.cite}}

\* The cell reads A5.9 for the control A.5.9 and 7.5 for a clause.
normalizeCISISOTarget(cell) == IF cell.annex THEN Annex(cell.num) ELSE cell.num

\* A blank relationship is a weaker statement, an unknown one is none.
cisRelationship(rel) ==
    CASE rel = "equivalent" -> "equivalent"
      [] rel = "subset" -> "subset-of"
      [] rel = "superset" -> "superset-of"
      [] rel = "" -> "related"
      [] OTHER -> NULL

parseCISMappingPairs ==
    {[title |-> row.title, rel |-> cisRelationship(row.rel),
      cite |-> normalizeCISISOTarget(row.target)] :
        row \in {row \in CisRows : row.target # NULL /\ cisRelationship(row.rel) # NULL}}

\* Safeguards are found by title: the number column is mangled.
CISEdges ==
    {EdgeOf("cis", x[2], ISO27001, Edition, x[1].cite, x[1].rel) :
        x \in {x \in parseCISMappingPairs \X loadCurrentControls("ciscontrols") :
                 x[1].title = x[2].c.title}}

\* The rows of config.curated_mapping whose from-control is in the corpus.
fromKey(r) == [fw |-> r.c.doc.fw, ver |-> r.c.doc.ver, cite |-> r.c.cite]
CuratedEdges ==
    {EdgeOf("curated", x[2], x[1].fw, x[1].ver, x[1].cite, x[1].rel) :
        x \in {x \in CuratedRows \X ControlRows : x[1].key = fromKey(x[2])}}

Derived(s) ==
    CASE s = "iso" -> ISOForward
      [] s = "iso-reverse" -> ISOReverse
      [] s = "olir" -> OLIREdges
      [] s = "cis" -> CISEdges
      [] s = "curated" -> CuratedEdges

-----------------------------------------------------------------------------
(* Normalize, as far as the edges see it.                                  *)

\* Mutant: edges of a deleted control keep pointing at it.
MutKeepTarget(d, m) == m

\* ON DELETE SET NULL
LoseTarget(d, m) == [m EXCEPT !.to = IF @ # NULL /\ @.c.doc = d THEN NULL ELSE @]

\* UpsertDocument and DeleteControlsForDocument, which clears the marker in the
\* same statement; outbound edges cascade, inbound ones lose their target.
NormalizeDelete(d) ==
    /\ norm = NULL /\ doc[d].gen < MaxGen
    /\ Concurrent \/ run.pc = "idle"
    /\ doc' = [doc EXCEPT ![d] = [gen |-> @.gen + 1, rows |-> 0, fresh |-> FALSE]]
    /\ edge' = {LoseTarget(d, m) : m \in {m \in edge : m.from.c.doc # d}}
    /\ norm' = d
    /\ UNCHANGED <<super, held, run, fails>>

InsertControl ==
    /\ norm # NULL /\ doc[norm].rows < Len(Tree[norm])
    /\ doc' = [doc EXCEPT ![norm].rows = @ + 1]
    /\ UNCHANGED <<edge, super, held, norm, run, fails>>

\* The last statement: ResolveControlMappings.
NormalizeDone ==
    /\ norm # NULL /\ doc[norm].rows = Len(Tree[norm])
    /\ edge' = ResolveControlMappings
    /\ norm' = NULL
    /\ UNCHANGED <<doc, super, held, run, fails>>

\* A crash or an error leaves the tree half inserted; it is normalized again.
NormalizeFails ==
    /\ norm # NULL /\ fails < MaxFails /\ doc[norm].gen < MaxGen
    /\ norm' = NULL
    /\ fails' = fails + 1
    /\ UNCHANGED <<doc, edge, super, held, run>>

\* A workbook is extracted into bronze.
Capture(w) ==
    /\ w \in Workbook \ held
    /\ held' = held \cup {w}
    /\ UNCHANGED <<doc, edge, super, norm, run, fails>>

-----------------------------------------------------------------------------
(* The stage.                                                              *)

Frame == UNCHANGED <<doc, super, held, norm, fails>>

Start ==
    /\ run.pc = "idle" /\ (Concurrent \/ norm = NULL)
    /\ run' = [Idle EXCEPT !.pc = "load", !.at = 1]
    /\ UNCHANGED edge /\ Frame

src == Source[run.at]

\* Mutant: the pass over the bare numbers of 27001 is left out.
MutNoAnnexPass(at, skipped) ==
    IF at > Len(Source) THEN [Idle EXCEPT !.pc = "relate", !.at = at, !.skipped = skipped]
    ELSE [Idle EXCEPT !.pc = "load", !.at = at, !.skipped = skipped]

\* The next emitter's load, or the resolution passes after the last one.
NextSource(at, skipped) ==
    IF at > Len(Source) THEN [Idle EXCEPT !.pc = "annex", !.at = at, !.skipped = skipped]
    ELSE [Idle EXCEPT !.pc = "load", !.at = at, !.skipped = skipped]

\* Mutant: nothing is recorded for a workbook that is missing.
MutForgetSkip(s) == run.skipped

\* The expected workbook of source s is absent; so is one that cannot be read.
Skip(s) == run.skipped \cup {s}

\* A source without its input is passed over: the workbooks by name, the ISO
\* emitter, both halves of it, silently.
Load ==
    /\ run.pc = "load"
    /\ \/ /\ src = "iso" /\ loadAnnexControls = {}
          /\ run' = NextSource(3, run.skipped)
       \/ /\ src \in Workbook \ held
          /\ run' = NextSource(run.at + 1, Skip(src))
       \/ /\ src \notin Workbook \ held
          /\ src = "iso" => loadAnnexControls # {}
          /\ run' = [run EXCEPT !.pc = "emit", !.todo = Derived(src)]
    /\ UNCHANGED edge /\ Frame

\* UpsertControlMapping; the foreign key refuses a control that is gone.  Rows of
\* a workbook come in no fixed order, the others as their query orders them.
Emit(u) ==
    /\ run.pc = "emit" /\ u \in run.todo /\ u.from \in ControlRows
    /\ src \in Workbook \/ u = CHOOSE v \in run.todo : TRUE
    /\ edge' = UpsertControlMapping(u)
    /\ run' = [run EXCEPT !.todo = @ \ {u}]
    /\ Frame

\* The halves of the ISO emitter share one resolve.
Emitted ==
    /\ run.pc = "emit" /\ run.todo = {}
    /\ run' = IF src = "iso" THEN NextSource(run.at + 1, run.skipped)
              ELSE [run EXCEPT !.pc = "resolve"]
    /\ UNCHANGED edge /\ Frame

Resolve ==
    /\ run.pc = "resolve"
    /\ edge' = ResolveControlMappings
    /\ run' = NextSource(run.at + 1, run.skipped)
    /\ Frame

ResolveAnnexPrefix ==
    /\ run.pc = "annex"
    /\ edge' = Resolved(Prefixed)
    /\ run' = [run EXCEPT !.pc = "relate"]
    /\ Frame

UpsertVersionRelation(s) == super' = super \cup {s}

\* One upsert per known pair; pairs that are there already change nothing.
EmitVersionSupersessions ==
    /\ run.pc = "relate"
    /\ \/ /\ \E s \in Supersedes \ super : UpsertVersionRelation(s)
          /\ UNCHANGED run
       \/ /\ Supersedes \subseteq super /\ UNCHANGED super
          /\ run' = [run EXCEPT !.pc = "hop"]
    /\ UNCHANGED <<doc, edge, held, norm, fails>>

ResolveViaSupersession ==
    /\ run.pc = "hop"
    /\ edge' = Resolved(Successor)
    /\ run' = [run EXCEPT !.pc = "mark"]
    /\ Frame

MarkDocumentsMapEdged == [d \in Doc |-> [doc[d] EXCEPT !.fresh = InSilver(d)]]

\* Every document in silver is stamped, unless a workbook was missing.
MarkMapEdgesFresh ==
    /\ run.pc = "mark"
    /\ doc' = IF run.skipped # {} THEN doc ELSE MarkDocumentsMapEdged
    /\ run' = Idle
    /\ UNCHANGED <<edge, super, held, norm, fails>>

\* Any statement may fail, and a crash is no different: the stage returns and
\* nothing is stamped.
StageFails ==
    /\ run.pc # "idle"
    /\ \/ fails < MaxFails /\ fails' = fails + 1
       \/ (\E u \in run.todo : u.from \notin ControlRows) /\ fails' = fails
    /\ run' = Idle
    /\ UNCHANGED <<doc, edge, super, held, norm>>

Stage ==
    \/ Load \/ (\E u \in run.todo : Emit(u)) \/ Emitted \/ Resolve
    \/ ResolveAnnexPrefix \/ EmitVersionSupersessions \/ ResolveViaSupersession
    \/ MarkMapEdgesFresh \/ StageFails

Normalize == InsertControl \/ NormalizeDone

Next ==
    \/ \E d \in Doc : NormalizeDelete(d)
    \/ Normalize \/ NormalizeFails
    \/ \E w \in Workbook : Capture(w)
    \/ Start \/ Stage

Spec == Init /\ [][Next]_vars

\* The operator keeps running the stages until both workbooks are there; a stage
\* that was started goes on.
FairSpec ==
    /\ Spec
    /\ WF_vars(Normalize) /\ WF_vars(Start) /\ WF_vars(Stage)
    /\ \A w \in Workbook : WF_vars(Capture(w))

-----------------------------------------------------------------------------
(* The worklists of quality_gaps.                                          *)

staleMapEdges == {d \in Doc : InSilver(d) /\ ~doc[d].fresh}

\* A seeded row without its edge; present: its control is in the corpus.
curatedMappingGaps ==
    {[row |-> row, present |-> \E r \in ControlRows : fromKey(r) = row.key] :
       row \in {row \in CuratedRows :
                  ~\E m \in edge : /\ fromKey(m.from) = row.key /\ m.source = "curated"
                                   /\ m.fw = row.fw /\ m.ver = row.ver /\ m.cite = row.cite}}

unresolvedMappings == {m \in edge : m.to = NULL}

-----------------------------------------------------------------------------
(* Properties.                                                             *)

Built(e) == \E m \in edge : m.from = e.from /\ SameKey(m, e)
Derivable == UNION {Derived(Source[i]) : i \in 1..Len(Source)}

\* The marker is honest as long as one stage runs at a time: a document that
\* quality_gaps does not list as stale has all the edges its controls derive,
\* whatever was skipped, failed, left half inserted or normalized in between.  The
\* one exception are the edges back from 27002 when 27001 had no Annex A controls:
\* those land only with a normalization of 27001, which clears its stamp, and
\* quality_gaps asks for another run.
FreshMeansBuilt ==
    (\E d \in Doc : doc[d].fresh) => \A e \in Derivable :
        \/ e.from.c.doc \in staleMapEdges
        \/ Built(e)
        \/ /\ e.source = "iso-reverse"
           /\ loadAnnexControls = {} \/ \E d1 \in staleMapEdges : d1.fw = ISO27001

\* An edge that has a target has the one it names: the citation in the version it
\* names (or the current one), the Annex A control of a bare number that is no
\* management clause, or the citation one version later.
ResolvedRight ==
    \A m \in edge : m.to # NULL =>
        \/ Means(m, m.to.c.doc) /\ m.to.c.cite = m.cite
        \/ /\ m.fw = ISO27001 /\ m.to.c.cite = Annex(m.cite) /\ Means(m, m.to.c.doc)
           /\ ~Clause(m, m.to.c.doc)
        \/ /\ m.to.c.cite = m.cite /\ m.ver # NULL
           /\ [fw |-> m.fw, ver |-> m.to.c.doc.ver, old |-> m.ver] \in Supersedes

\* Once normalize is quiet, running the stage again empties the worklists of
\* quality_gaps, however often a statement failed before: no document is stale, no
\* curated row of a control in the corpus is missing, no edge is unresolved that
\* has a target; and every derivable edge is there.
Settled ==
    /\ staleMapEdges = {}
    /\ \A g \in curatedMappingGaps : ~g.present
    /\ \A m \in unresolvedMappings :
          Exact(m) = {} /\ Prefixed(m) = {} /\ Successor(m) = {}
    /\ \A e \in Derivable : Built(e) \/ (e.source = "iso-reverse" /\ loadAnnexControls = {})
EdgesSettle == <>[]Settled
=============================================================================
