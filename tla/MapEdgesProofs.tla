--------------------------- MODULE MapEdgesProofs ---------------------------
(* Proofs about MapEdges, for every corpus, every workbook and every set of *)
(* curated rows.                                                           *)
EXTENDS MapEdges, TLAPS

\* An edge has the columns of silver.control_mapping.
IsEdge(m) == m = [from |-> m.from, fw |-> m.fw, ver |-> m.ver, cite |-> m.cite,
                  source |-> m.source, rel |-> m.rel, to |-> m.to]
IsRun == run = [pc |-> run.pc, at |-> run.at, todo |-> run.todo, skipped |-> run.skipped]


\* The stage is at a source until the last one is resolved.
Position ==
    /\ run.pc \in {"load", "emit", "resolve"} => run.at \in 1..5
    /\ run.pc \in {"annex", "relate", "hop", "mark"} => run.at = 6

TypeInv == TypeOK /\ IsRun /\ Position /\ \A m \in edge : IsEdge(m)

\* One stage at a time: a document is rebuilt, or edges are.  While it is rebuilt
\* it is stale and no edge leads to it.
Exclusive ==
    /\ norm = NULL \/ run.pc = "idle"
    /\ norm # NULL => /\ norm \in staleMapEdges
                      /\ \A m \in edge : m.to # NULL => m.to.c.doc # norm

ResolvedInv == Exclusive /\ ResolvedRight

\* The source at a position has all its edges; or a workbook was passed over, or
\* these are the edges back from 27002 to an Annex A that is not there.
SourceBuilt(i) ==
    \/ \A e \in Derived(Source[i]) : Built(e)
    \/ run.skipped # {}
    \/ i = 2 /\ loadAnnexControls = {}

\* How far the stage is.
Progress ==
    /\ run.pc # "idle" => \A i \in 1..5 : i < run.at => SourceBuilt(i)
    /\ run.pc = "emit" => \A e \in Derived(src) : e \in run.todo \/ Built(e)
    /\ run.pc = "resolve" => \A e \in Derived(src) : Built(e)

FreshInv == Progress /\ FreshMeansBuilt

EdgeInv == TypeInv /\ (~Concurrent => ResolvedInv /\ FreshInv)

\* The target that an edge with these columns may have.
Right(m, r) ==
    \/ Means(m, r.c.doc) /\ r.c.cite = m.cite
    \/ /\ m.fw = ISO27001 /\ r.c.cite = Annex(m.cite) /\ Means(m, r.c.doc)
       /\ ~Clause(m, r.c.doc)
    \/ /\ r.c.cite = m.cite /\ m.ver # NULL
       /\ [fw |-> m.fw, ver |-> r.c.doc.ver, old |-> m.ver] \in Supersedes

\* Two edges that differ in their target only.
SameEdge(n, m) ==
    /\ n.from = m.from /\ n.fw = m.fw /\ n.ver = m.ver /\ n.cite = m.cite
    /\ n.source = m.source /\ n.rel = m.rel

\* What a resolution pass does: edges without a target take a right one.
Retargeted ==
    /\ \A n \in edge' : IsEdge(n) /\ \E m \in edge :
          /\ SameEdge(n, m)
          /\ \/ n.to = m.to
             \/ m.to = NULL /\ n.to \in ControlRows /\ Right(m, n.to)
    /\ \A m \in edge : \E n \in edge' : SameEdge(n, m)

\* What an upsert does: the row with its key keeps the target it had.
Upserted(u) ==
    /\ \A n \in edge' : n \in edge \/
          /\ IsEdge(n) /\ n.from = u.from /\ SameKey(n, u)
          /\ n.to = NULL \/ \E m \in edge : m.from = u.from /\ SameKey(m, u) /\ n.to = m.to
    /\ \A m \in edge : \E n \in edge' : n.from = m.from /\ SameKey(n, m)
    /\ \E n \in edge' : n.from = u.from /\ SameKey(n, u)

-----------------------------------------------------------------------------
(* Rows and edges.                                                         *)

\* The property in terms of the target that an edge may have.
LEMMA RightTarget == ResolvedRight <=> \A m \in edge : m.to # NULL => Right(m, m.to)
BY DEF ResolvedRight, Right

\* A row of silver.control belongs to a document of the corpus.
LEMMA RowOf ==
    ASSUME NEW r
    PROVE  /\ r \in ControlRows <=>
                \E d \in Doc : \E i \in 1..doc[d].rows : r = [c |-> Nth(d, i), gen |-> doc[d].gen]
           /\ r \in ControlRows => r.c.doc \in Doc
<1>1. \A d, i : Row(Nth(d, i)) = [c |-> Nth(d, i), gen |-> doc[d].gen]
  BY DEF Row, Nth
<1>2. r \in ControlRows <=> \E d \in Doc : \E i \in 1..doc[d].rows : r = Row(Nth(d, i))
  BY DEF ControlRows
<1>3. \A d, i : [c |-> Nth(d, i), gen |-> doc[d].gen].c.doc = d
  BY DEF Nth
<1> QED
  BY <1>1, <1>2, <1>3

\* And after a step too.
LEMMA RowOfPrime ==
    ASSUME NEW r
    PROVE  /\ r \in ControlRows' <=>
                \E d \in Doc : \E i \in 1..doc'[d].rows : r = [c |-> Nth(d, i), gen |-> doc'[d].gen]
           /\ r \in ControlRows' => r.c.doc \in Doc
<1>1. \A d, i : Row(Nth(d, i))' = [c |-> Nth(d, i), gen |-> doc'[d].gen]
  BY DEF Row, Nth
<1>2. r \in ControlRows' <=> \E d \in Doc : \E i \in 1..doc'[d].rows : r = Row(Nth(d, i))'
  BY DEF ControlRows, Row
<1>3. \A d, i : [c |-> Nth(d, i), gen |-> doc'[d].gen].c.doc = d
  BY DEF Nth
<1> QED
  BY <1>1, <1>2, <1>3

\* The controls are told by how far their documents are inserted.
LEMMA SameCounts ==
    ASSUME \A d \in Doc : doc'[d].rows = doc[d].rows /\ doc'[d].gen = doc[d].gen
    PROVE  ControlRows' = ControlRows
<1>1. ASSUME NEW r \in ControlRows' PROVE r \in ControlRows
  <2>1. PICK d \in Doc : \E i \in 1..doc'[d].rows : r = [c |-> Nth(d, i), gen |-> doc'[d].gen]
    BY RowOfPrime
  <2>2. PICK i \in 1..doc'[d].rows : r = [c |-> Nth(d, i), gen |-> doc'[d].gen]
    BY <2>1
  <2>3. i \in 1..doc[d].rows /\ r = [c |-> Nth(d, i), gen |-> doc[d].gen]
    BY <2>2
  <2> QED
    BY <2>3, RowOf
<1>2. ASSUME NEW r \in ControlRows PROVE r \in ControlRows'
  <2>1. PICK d \in Doc : \E i \in 1..doc[d].rows : r = [c |-> Nth(d, i), gen |-> doc[d].gen]
    BY RowOf
  <2>2. PICK i \in 1..doc[d].rows : r = [c |-> Nth(d, i), gen |-> doc[d].gen]
    BY <2>1
  <2>3. i \in 1..doc'[d].rows /\ r = [c |-> Nth(d, i), gen |-> doc'[d].gen]
    BY <2>2
  <2> QED
    BY <2>3, RowOfPrime
<1> QED
  BY <1>1, <1>2

\* What is known of a document.
LEMMA DocTypes ==
    ASSUME TypeInv, NEW d \in Doc
    PROVE  /\ doc[d] \in [gen: 0..MaxGen, rows: Nat, fresh: BOOLEAN]
           /\ doc[d].rows <= Len(Tree[d]) /\ (doc[d].fresh => doc[d].gen > 0)
BY DEF TypeInv, TypeOK, InSilver

\* Replacing the target of an edge leaves its other columns.
LEMMA Retarget ==
    ASSUME NEW m, IsEdge(m), NEW r
    PROVE  LET n == [m EXCEPT !.to = r] IN IsEdge(n) /\ SameEdge(n, m) /\ n.to = r
BY DEF IsEdge, SameEdge

\* Columns that are the same mean the same key.
LEMMA SameEdgeSameKey ==
    ASSUME NEW n, NEW m, SameEdge(n, m)
    PROVE  SameKey(n, m) /\ n.from = m.from
BY DEF SameEdge, SameKey

\* The tables are the same, and so is what is read from them.
LEMMA SameRows ==
    ASSUME UNCHANGED doc
    PROVE  /\ ControlRows' = ControlRows /\ loadAnnexControls' = loadAnnexControls
           /\ \A s : Derived(s)' = Derived(s)
           /\ staleMapEdges' = staleMapEdges
           /\ \A m, d : Clause(m, d)' <=> Clause(m, d)
           /\ \A m, r : Right(m, r)' <=> Right(m, r)
<1>1. ControlRows' = ControlRows
  BY DEF ControlRows, Row
<1>2. loadAnnexControls' = loadAnnexControls
  BY <1>1 DEF loadAnnexControls, ControlsOf
<1>3. ASSUME NEW s PROVE Derived(s)' = Derived(s)
  BY <1>1 DEF Derived, ISOForward, ISOReverse, OLIREdges, CISEdges, CuratedEdges,
              loadAnnexControls, load27002Controls, loadCurrentControls, ControlsOf
<1>4. staleMapEdges' = staleMapEdges
  BY DEF staleMapEdges, InSilver
<1>5. ASSUME NEW m, NEW d PROVE Clause(m, d)' <=> Clause(m, d)
  BY <1>1 DEF Clause
<1>6. ASSUME NEW m, NEW r PROVE Right(m, r)' <=> Right(m, r)
  BY <1>5 DEF Right
<1> QED
  BY <1>1, <1>2, <1>3, <1>4, <1>5, <1>6

\* ResolveControlMappings
LEMMA ExactRetargets ==
    ASSUME TypeInv, edge' = ResolveControlMappings
    PROVE  Retargeted
<1> DEFINE new(m) == IF m.to # NULL \/ Exact(m) = {} THEN m
                     ELSE [m EXCEPT !.to = CHOOSE r \in Exact(m) : TRUE]
<1>1. edge' = {new(m) : m \in edge}
  BY DEF ResolveControlMappings, Resolved
<1>2. ASSUME NEW m \in edge
      PROVE  /\ IsEdge(new(m)) /\ SameEdge(new(m), m)
             /\ \/ new(m).to = m.to
                \/ m.to = NULL /\ new(m).to \in ControlRows /\ Right(m, new(m).to)
  <2>1. IsEdge(m) /\ SameEdge(m, m)
    BY DEF TypeInv, SameEdge
  <2>2. CASE m.to # NULL \/ Exact(m) = {}
    BY <2>1, <2>2
  <2>3. CASE ~(m.to # NULL \/ Exact(m) = {})
    <3> DEFINE r == CHOOSE r \in Exact(m) : TRUE
    <3>1. r \in Exact(m)
      BY <2>3
    <3>2. r \in ControlRows /\ Right(m, r)
      BY <3>1 DEF Exact, Right
    <3>3. new(m) = [m EXCEPT !.to = r]
      BY <2>3
    <3> HIDE DEF r, new
    <3> QED
      BY <2>1, <2>3, <3>2, <3>3, Retarget
  <2> QED
    BY <2>2, <2>3
<1> HIDE DEF new
<1> QED
  BY <1>1, <1>2 DEF Retargeted

\* ResolveAnnexPrefix
LEMMA PrefixRetargets ==
    ASSUME TypeInv, edge' = Resolved(Prefixed)
    PROVE  Retargeted
<1> DEFINE new(m) == IF m.to # NULL \/ Prefixed(m) = {} THEN m
                     ELSE [m EXCEPT !.to = CHOOSE r \in Prefixed(m) : TRUE]
<1>1. edge' = {new(m) : m \in edge}
  BY DEF Resolved
<1>2. ASSUME NEW m \in edge
      PROVE  /\ IsEdge(new(m)) /\ SameEdge(new(m), m)
             /\ \/ new(m).to = m.to
                \/ m.to = NULL /\ new(m).to \in ControlRows /\ Right(m, new(m).to)
  <2>1. IsEdge(m) /\ SameEdge(m, m)
    BY DEF TypeInv, SameEdge
  <2>2. CASE m.to # NULL \/ Prefixed(m) = {}
    BY <2>1, <2>2
  <2>3. CASE ~(m.to # NULL \/ Prefixed(m) = {})
    <3> DEFINE r == CHOOSE r \in Prefixed(m) : TRUE
    <3>1. r \in Prefixed(m)
      BY <2>3
    <3>2. r \in ControlRows /\ Right(m, r)
      BY <3>1 DEF Prefixed, Right
    <3>3. new(m) = [m EXCEPT !.to = r]
      BY <2>3
    <3> HIDE DEF r, new
    <3> QED
      BY <2>1, <2>3, <3>2, <3>3, Retarget
  <2> QED
    BY <2>2, <2>3
<1> HIDE DEF new
<1> QED
  BY <1>1, <1>2 DEF Retargeted

\* ResolveViaSupersession, over the version pairs that are recorded.
LEMMA HopRetargets ==
    ASSUME TypeInv, edge' = Resolved(Successor)
    PROVE  Retargeted
<1> DEFINE new(m) == IF m.to # NULL \/ Successor(m) = {} THEN m
                     ELSE [m EXCEPT !.to = CHOOSE r \in Successor(m) : TRUE]
<1>1. edge' = {new(m) : m \in edge}
  BY DEF Resolved
<1>2. ASSUME NEW m \in edge
      PROVE  /\ IsEdge(new(m)) /\ SameEdge(new(m), m)
             /\ \/ new(m).to = m.to
                \/ m.to = NULL /\ new(m).to \in ControlRows /\ Right(m, new(m).to)
  <2>1. IsEdge(m) /\ SameEdge(m, m)
    BY DEF TypeInv, SameEdge
  <2>2. CASE m.to # NULL \/ Successor(m) = {}
    BY <2>1, <2>2
  <2>3. CASE ~(m.to # NULL \/ Successor(m) = {})
    <3> DEFINE r == CHOOSE r \in Successor(m) : TRUE
    <3>1. r \in Successor(m)
      BY <2>3
    <3>2. r \in ControlRows /\ Right(m, r)
      BY <3>1 DEF Successor, Right, TypeInv, TypeOK
    <3>3. new(m) = [m EXCEPT !.to = r]
      BY <2>3
    <3> HIDE DEF r, new
    <3> QED
      BY <2>1, <2>3, <3>2, <3>3, Retarget
  <2> QED
    BY <2>2, <2>3
<1> HIDE DEF new
<1> QED
  BY <1>1, <1>2 DEF Retargeted

\* UpsertControlMapping
LEMMA UpsertStep ==
    ASSUME NEW u, edge' = UpsertControlMapping(u)
    PROVE  Upserted(u)
<1> DEFINE old == {m \in edge : m.from = u.from /\ SameKey(m, u)}
           to == IF old = {} THEN NULL ELSE (CHOOSE m \in old : TRUE).to
           n == [from |-> u.from, fw |-> u.fw, ver |-> u.ver, cite |-> u.cite,
                 source |-> u.source, rel |-> u.rel, to |-> to]
<1>1. edge' = (edge \ old) \cup {n}
  BY DEF UpsertControlMapping
<1>2. IsEdge(n) /\ n.from = u.from /\ SameKey(n, u) /\ n.to = to
  BY DEF IsEdge, SameKey
<1>3. to = NULL \/ \E m \in edge : m.from = u.from /\ SameKey(m, u) /\ to = m.to
  OBVIOUS
<1> HIDE DEF n, to
<1>4. ASSUME NEW m \in edge PROVE \E k \in edge' : k.from = m.from /\ SameKey(k, m)
  <2>1. CASE m \in old
    <3>1. n \in edge' /\ n.from = m.from /\ SameKey(n, m)
      BY <1>1, <1>2, <2>1 DEF SameKey
    <3> QED
      BY <3>1
  <2>2. CASE m \notin old
    <3>1. m \in edge' /\ SameKey(m, m)
      BY <1>1, <2>2 DEF SameKey
    <3> QED
      BY <3>1
  <2> QED
    BY <2>1, <2>2
<1> QED
  BY <1>1, <1>2, <1>3, <1>4 DEF Upserted

-----------------------------------------------------------------------------
(* Types.                                                                  *)

\* There are five sources.
LEMMA Positions == Len(Source) = 5 /\ DOMAIN Source = 1..5
BY DEF Source

\* No document is in silver yet, and no edge.
LEMMA TypeInit == Init => TypeInv
<1> SUFFICES ASSUME Init PROVE TypeInv
  OBVIOUS
<1>1. TypeOK
  BY Positions, MapEdgesAssumption DEF Init, TypeOK, Idle, InSilver
<1>2. IsRun /\ Position
  BY DEF Init, Idle, IsRun, Position
<1> QED
  BY <1>1, <1>2 DEF Init, TypeInv

\* A step of the stage that leaves the edges alone.
LEMMA RunTypes ==
    ASSUME TypeInv, UNCHANGED <<doc, edge, held, norm>>,
           super' \subseteq Supersedes, fails' \in 0..MaxFails,
           run' = [pc |-> run'.pc, at |-> run'.at, todo |-> run'.todo, skipped |-> run'.skipped],
           run'.pc \in {"idle", "load", "emit", "resolve", "annex", "relate", "hop", "mark"},
           run'.at \in 0..6, run'.skipped \subseteq Workbook, Position'
    PROVE  TypeInv'
<1>1. ControlRows' = ControlRows
  BY SameRows
<1>2. TypeOK'
  BY <1>1, Positions DEF TypeInv, TypeOK, InSilver
<1>3. IsRun' /\ \A m \in edge' : IsEdge(m)
  BY DEF TypeInv, IsRun
<1> QED
  BY <1>2, <1>3 DEF TypeInv

\* A step that changes the edges only, to edges between the controls there are.
LEMMA EdgeTypes ==
    ASSUME TypeInv, UNCHANGED <<doc, super, held, fails>>, norm' \in Doc \cup {NULL},
           \A n \in edge' : IsEdge(n) /\ n.from \in ControlRows /\ n.to \in ControlRows \cup {NULL},
           run' = [pc |-> run'.pc, at |-> run'.at, todo |-> run'.todo, skipped |-> run'.skipped],
           run'.pc \in {"idle", "load", "emit", "resolve", "annex", "relate", "hop", "mark"},
           run'.at \in 0..6, run'.skipped \subseteq Workbook, Position'
    PROVE  TypeInv'
<1>1. ControlRows' = ControlRows
  BY SameRows
<1>2. TypeOK'
  BY <1>1, Positions DEF TypeInv, TypeOK, InSilver
<1>3. IsRun' /\ \A m \in edge' : IsEdge(m)
  BY DEF TypeInv, IsRun
<1> QED
  BY <1>2, <1>3 DEF TypeInv

\* A resolution pass resolves to controls that are there.
LEMMA RetargetedTypes ==
    ASSUME TypeInv, Retargeted, NEW n \in edge'
    PROVE  IsEdge(n) /\ n.from \in ControlRows /\ n.to \in ControlRows \cup {NULL}
BY DEF TypeInv, TypeOK, Retargeted, SameEdge

\* So does an upsert, for a control that is there.
LEMMA UpsertedTypes ==
    ASSUME TypeInv, NEW u, u.from \in ControlRows, Upserted(u), NEW n \in edge'
    PROVE  IsEdge(n) /\ n.from \in ControlRows /\ n.to \in ControlRows \cup {NULL}
BY DEF TypeInv, TypeOK, Upserted

\* The stage after a source.
LEMMA NextSourceRun ==
    ASSUME NEW at \in 1..6, NEW skipped
    PROVE  LET r == NextSource(at, skipped)
           IN  /\ r = [pc |-> r.pc, at |-> at, todo |-> {}, skipped |-> skipped]
               /\ r.pc = IF at = 6 THEN "annex" ELSE "load"
               /\ r.at = at /\ r.todo = {} /\ r.skipped = skipped
<1>1. at > Len(Source) <=> at = 6
  BY Positions
<1> QED
  BY <1>1 DEF NextSource, Idle

\* The next source, or the passes after the last one, from a stage that reads src.
LEMMA GoOn ==
    ASSUME TypeInv, NEW at \in 1..6, NEW skipped \in SUBSET Workbook, run' = NextSource(at, skipped)
    PROVE  /\ run' = [pc |-> run'.pc, at |-> run'.at, todo |-> run'.todo, skipped |-> run'.skipped]
           /\ run'.pc \in {"load", "annex"} /\ run'.at = at /\ run'.skipped = skipped
           /\ run'.todo = {} /\ (run'.pc = "load" <=> at \in 1..5) /\ Position'
<1>1. /\ run' = [pc |-> run'.pc, at |-> at, todo |-> {}, skipped |-> skipped]
      /\ run'.pc = IF at = 6 THEN "annex" ELSE "load"
      /\ run'.at = at /\ run'.todo = {} /\ run'.skipped = skipped
  BY NextSourceRun
<1> QED
  BY <1>1 DEF Position

\* What the steps of the stage do to its record.
LEMMA LoadRun ==
    ASSUME TypeInv, Load
    PROVE  /\ run.pc = "load" /\ run.at \in 1..5 /\ UNCHANGED <<doc, edge, super, held, norm, fails>>
           /\ \/ src = "iso" /\ loadAnnexControls = {} /\ run' = NextSource(3, run.skipped)
              \/ src \in Workbook /\ run' = NextSource(run.at + 1, Skip(src)) /\ Skip(src) \in SUBSET Workbook
              \/ /\ run'.pc = "emit" /\ run'.at = run.at /\ run'.todo = Derived(src)
                 /\ run'.skipped = run.skipped
                 /\ run' = [pc |-> run'.pc, at |-> run'.at, todo |-> run'.todo, skipped |-> run'.skipped]
<1>1. run.pc = "load" /\ run.at \in 1..5 /\ run.skipped \in SUBSET Workbook
  BY DEF Load, TypeInv, TypeOK, Position
<1>2. UNCHANGED <<doc, edge, super, held, norm, fails>>
  BY DEF Load, Frame
<1>3. IsRun
  BY DEF TypeInv
<1>4. CASE run' = [run EXCEPT !.pc = "emit", !.todo = Derived(src)]
  BY <1>1, <1>2, <1>3, <1>4 DEF IsRun
<1>5. CASE src = "iso" /\ loadAnnexControls = {} /\ run' = NextSource(3, run.skipped)
  BY <1>1, <1>2, <1>5
<1>6. CASE src \in Workbook \ held /\ run' = NextSource(run.at + 1, Skip(src))
  BY <1>1, <1>2, <1>6 DEF Skip
<1> QED
  BY <1>4, <1>5, <1>6 DEF Load

\* One edge of the source is upserted, and is no longer to do.
LEMMA EmitRun ==
    ASSUME TypeInv, NEW u, Emit(u)
    PROVE  /\ run.pc = "emit" /\ u \in run.todo /\ u.from \in ControlRows /\ Upserted(u)
           /\ UNCHANGED <<doc, super, held, norm, fails>>
           /\ run'.pc = "emit" /\ run'.at = run.at /\ run'.todo = run.todo \ {u}
           /\ run'.skipped = run.skipped
           /\ run' = [pc |-> run'.pc, at |-> run'.at, todo |-> run'.todo, skipped |-> run'.skipped]
<1>1. Upserted(u)
  BY UpsertStep DEF Emit
<1> QED
  BY <1>1 DEF Emit, Frame, TypeInv, IsRun

\* The source has upserted all it derives.
LEMMA EmittedRun ==
    ASSUME TypeInv, Emitted
    PROVE  /\ run.pc = "emit" /\ run.todo = {} /\ UNCHANGED <<doc, edge, super, held, norm, fails>>
           /\ \/ run' = NextSource(run.at + 1, run.skipped)
              \/ /\ run'.pc = "resolve" /\ run'.at = run.at /\ run'.skipped = run.skipped
                 /\ run' = [pc |-> run'.pc, at |-> run'.at, todo |-> run'.todo, skipped |-> run'.skipped]
BY DEF Emitted, Frame, TypeInv, IsRun

\* A pass that is one statement.
PassStep(from, to) ==
    /\ run.pc = from /\ run'.pc = to /\ run'.at = run.at /\ run'.skipped = run.skipped
    /\ run' = [pc |-> run'.pc, at |-> run'.at, todo |-> run'.todo, skipped |-> run'.skipped]

\* The three passes after the last source, one statement each.
LEMMA PassRun ==
    ASSUME TypeInv
    PROVE  /\ ResolveAnnexPrefix => /\ PassStep("annex", "relate") /\ Retargeted
                                    /\ UNCHANGED <<doc, super, held, norm, fails>>
           /\ ResolveViaSupersession => /\ PassStep("hop", "mark") /\ Retargeted
                                        /\ UNCHANGED <<doc, super, held, norm, fails>>
           /\ EmitVersionSupersessions =>
                 /\ run.pc = "relate" /\ (UNCHANGED run \/ PassStep("relate", "hop"))
                 /\ super' \subseteq Supersedes /\ UNCHANGED <<doc, edge, held, norm, fails>>
<1>1. ASSUME ResolveAnnexPrefix
      PROVE  /\ PassStep("annex", "relate") /\ Retargeted
             /\ UNCHANGED <<doc, super, held, norm, fails>>
  <2>1. Retargeted
    BY <1>1, PrefixRetargets DEF ResolveAnnexPrefix
  <2> QED
    BY <1>1, <2>1 DEF ResolveAnnexPrefix, PassStep, Frame, TypeInv, IsRun
<1>2. ASSUME ResolveViaSupersession
      PROVE  /\ PassStep("hop", "mark") /\ Retargeted
             /\ UNCHANGED <<doc, super, held, norm, fails>>
  <2>1. Retargeted
    BY <1>2, HopRetargets DEF ResolveViaSupersession
  <2> QED
    BY <1>2, <2>1 DEF ResolveViaSupersession, PassStep, Frame, TypeInv, IsRun
<1>3. ASSUME EmitVersionSupersessions
      PROVE  /\ run.pc = "relate" /\ (UNCHANGED run \/ PassStep("relate", "hop"))
             /\ super' \subseteq Supersedes /\ UNCHANGED <<doc, edge, held, norm, fails>>
  <2>1. super \subseteq Supersedes /\ IsRun
    BY DEF TypeInv, TypeOK
  <2>2. CASE \E s \in Supersedes \ super : UpsertVersionRelation(s)
    BY <1>3, <2>1, <2>2 DEF EmitVersionSupersessions, UpsertVersionRelation, PassStep, IsRun
  <2>3. CASE ~\E s \in Supersedes \ super : UpsertVersionRelation(s)
    BY <1>3, <2>1, <2>3 DEF EmitVersionSupersessions, PassStep, IsRun
  <2> QED
    BY <2>2, <2>3
<1> QED
  BY <1>1, <1>2, <1>3

\* The stage is over, stamped or not.
LEMMA IdleRun ==
    ASSUME run' = Idle
    PROVE  /\ run' = [pc |-> run'.pc, at |-> run'.at, todo |-> run'.todo, skipped |-> run'.skipped]
           /\ run'.pc = "idle" /\ run'.at = 0 /\ run'.skipped = {} /\ Position'
BY DEF Idle, Position

\* Every step of the stage keeps the types.
LEMMA StageTypes ==
    ASSUME TypeInv, Stage
    PROVE  TypeInv'
<1>0. /\ run.at \in 0..6 /\ run.skipped \subseteq Workbook /\ Position /\ fails \in 0..MaxFails
      /\ super \subseteq Supersedes /\ norm \in Doc \cup {NULL} /\ MaxFails \in Nat
  BY Positions, MapEdgesAssumption DEF TypeInv, TypeOK
<1>1. CASE Load
  <2>1. /\ run.pc = "load" /\ run.at \in 1..5
        /\ UNCHANGED <<doc, edge, super, held, norm, fails>>
    BY <1>1, LoadRun
  <2>2. CASE run'.pc = "emit" /\ run'.at = run.at /\ run'.skipped = run.skipped
             /\ run' = [pc |-> run'.pc, at |-> run'.at, todo |-> run'.todo, skipped |-> run'.skipped]
    <3>1. Position'
      BY <2>1, <2>2 DEF Position
    <3> QED
      BY <1>0, <2>1, <2>2, <3>1, RunTypes
  <2>3. ASSUME NEW at \in 1..6, NEW skipped \in SUBSET Workbook, run' = NextSource(at, skipped)
        PROVE  TypeInv'
    BY <1>0, <2>1, <2>3, GoOn, RunTypes
  <2>4. run.at + 1 \in 1..6 /\ 3 \in 1..6
    BY <2>1
  <2> QED
    BY <1>0, <1>1, <2>2, <2>3, <2>4, LoadRun
<1>2. ASSUME NEW u, Emit(u) PROVE TypeInv'
  <2>1. Position'
    BY <1>0, <1>2, EmitRun DEF Position
  <2> QED
    BY <1>0, <1>2, <2>1, EmitRun, UpsertedTypes, EdgeTypes
<1>3. CASE Emitted
  <2>1. run.pc = "emit" /\ run.at \in 1..5 /\ UNCHANGED <<doc, edge, super, held, norm, fails>>
    BY <1>0, <1>3, EmittedRun DEF Position
  <2>2. CASE run' = NextSource(run.at + 1, run.skipped)
    <3>1. run.at + 1 \in 1..6
      BY <2>1
    <3> QED
      BY <1>0, <2>1, <2>2, <3>1, GoOn, RunTypes
  <2>3. CASE run' # NextSource(run.at + 1, run.skipped)
    <3>1. /\ run'.pc = "resolve" /\ run'.at = run.at /\ run'.skipped = run.skipped
          /\ run' = [pc |-> run'.pc, at |-> run'.at, todo |-> run'.todo, skipped |-> run'.skipped]
      BY <1>3, <2>3, EmittedRun
    <3>2. Position'
      BY <2>1, <3>1 DEF Position
    <3> QED
      BY <1>0, <2>1, <3>1, <3>2, RunTypes
  <2> QED
    BY <2>2, <2>3
<1>4. CASE Resolve
  <2>1. run.at + 1 \in 1..6
    BY <1>0, <1>4 DEF Resolve, Position
  <2>2. Retargeted /\ run' = NextSource(run.at + 1, run.skipped)
    BY <1>4, ExactRetargets DEF Resolve
  <2>3. UNCHANGED <<doc, super, held, norm, fails>>
    BY <1>4 DEF Resolve, Frame
  <2> QED
    BY <1>0, <2>1, <2>2, <2>3, GoOn, RetargetedTypes, EdgeTypes
<1>5. ASSUME NEW from, NEW to, PassStep(from, to),
             from \in {"annex", "relate", "hop"}, to \in {"relate", "hop", "mark"}
      PROVE  /\ run'.pc \in {"idle", "load", "emit", "resolve", "annex", "relate", "hop", "mark"}
             /\ run'.at \in 0..6 /\ run'.skipped \subseteq Workbook /\ Position'
             /\ run' = [pc |-> run'.pc, at |-> run'.at, todo |-> run'.todo, skipped |-> run'.skipped]
  BY <1>0, <1>5 DEF PassStep, Position
<1>6. CASE ResolveAnnexPrefix
  <2>1. PassStep("annex", "relate") /\ Retargeted /\ UNCHANGED <<doc, super, held, norm, fails>>
    BY <1>6, PassRun
  <2> QED
    BY <1>0, <1>5, <2>1, RetargetedTypes, EdgeTypes
<1>7. CASE EmitVersionSupersessions
  <2>1. /\ UNCHANGED run \/ PassStep("relate", "hop")
        /\ super' \subseteq Supersedes /\ UNCHANGED <<doc, edge, held, norm, fails>>
    BY <1>7, PassRun
  <2>2. CASE UNCHANGED run
    BY <1>0, <2>1, <2>2, RunTypes DEF TypeInv, TypeOK, IsRun, Position
  <2>3. CASE PassStep("relate", "hop")
    BY <1>0, <1>5, <2>1, <2>3, RunTypes
  <2> QED
    BY <2>1, <2>2, <2>3
<1>8. CASE ResolveViaSupersession
  <2>1. PassStep("hop", "mark") /\ Retargeted /\ UNCHANGED <<doc, super, held, norm, fails>>
    BY <1>8, PassRun
  <2> QED
    BY <1>0, <1>5, <2>1, RetargetedTypes, EdgeTypes
<1>9. CASE MarkMapEdgesFresh
  <2>1. /\ UNCHANGED <<edge, super, held, norm, fails>> /\ run' = Idle
        /\ doc' = IF run.skipped # {} THEN doc ELSE MarkDocumentsMapEdged
    BY <1>9 DEF MarkMapEdgesFresh
  <2>2. /\ doc' \in [Doc -> [gen: 0..MaxGen, rows: Nat, fresh: BOOLEAN]]
        /\ \A d \in Doc : doc'[d].rows = doc[d].rows /\ doc'[d].gen = doc[d].gen
        /\ \A d \in Doc : doc'[d].fresh => doc'[d].gen > 0
    <3>2. CASE doc' = doc
      BY <3>2, DocTypes DEF TypeInv, TypeOK
    <3>3. CASE doc' = [d \in Doc |-> [doc[d] EXCEPT !.fresh = InSilver(d)]]
      <4>1. ASSUME NEW d \in Doc
            PROVE  /\ doc'[d] \in [gen: 0..MaxGen, rows: Nat, fresh: BOOLEAN]
                   /\ doc'[d].rows = doc[d].rows /\ doc'[d].gen = doc[d].gen
                   /\ doc'[d].fresh = InSilver(d)
        <5>1. doc'[d] = [doc[d] EXCEPT !.fresh = InSilver(d)]
          BY <3>3
        <5>2. doc[d] \in [gen: 0..MaxGen, rows: Nat, fresh: BOOLEAN] /\ InSilver(d) \in BOOLEAN
          BY DocTypes DEF InSilver
        <5> QED
          BY <5>1, <5>2
      <4> QED
        BY <3>3, <4>1 DEF InSilver
    <3> QED
      BY <2>1, <3>2, <3>3 DEF MarkDocumentsMapEdged
  <2>3. ControlRows' = ControlRows
    BY <2>2, SameCounts
  <2>4. IsRun' /\ Position' /\ run'.pc = "idle" /\ run'.at = 0 /\ run'.skipped = {}
    BY <2>1, IdleRun DEF IsRun
  <2>5. \A d \in Doc : doc'[d].rows <= Len(Tree[d])
    BY <2>2, DocTypes
  <2>6. TypeOK'
    BY <1>0, <2>1, <2>2, <2>3, <2>4, <2>5, Positions, SMTT(40) DEF TypeInv, TypeOK, InSilver
  <2> QED
    BY <2>1, <2>4, <2>6 DEF TypeInv
<1>10. CASE StageFails
  <2>1. UNCHANGED <<doc, edge, super, held, norm>> /\ run' = Idle /\ fails' \in 0..MaxFails
    BY <1>0, <1>10 DEF StageFails
  <2> QED
    BY <1>0, <2>1, IdleRun, RunTypes
<1> QED
  BY <1>1, <1>2, <1>3, <1>4, <1>6, <1>7, <1>8, <1>9, <1>10 DEF Stage

\* Deleting the controls of a document leaves those of the others.
LEMMA Deleted ==
    ASSUME TypeInv, NEW d \in Doc, NormalizeDelete(d), NEW r
    PROVE  r \in ControlRows' <=> r \in ControlRows /\ r.c.doc # d
<1>1. /\ doc'[d].rows = 0
      /\ \A d1 \in Doc : d1 # d => doc'[d1].rows = doc[d1].rows /\ doc'[d1].gen = doc[d1].gen
  BY DEF NormalizeDelete, TypeInv, TypeOK
<1>2. ASSUME r \in ControlRows' PROVE r \in ControlRows /\ r.c.doc # d
  <2>1. PICK d1 \in Doc : \E i \in 1..doc'[d1].rows : r = [c |-> Nth(d1, i), gen |-> doc'[d1].gen]
    BY <1>2, RowOfPrime
  <2>2. PICK i \in 1..doc'[d1].rows : r = [c |-> Nth(d1, i), gen |-> doc'[d1].gen]
    BY <2>1
  <2>3. d1 # d
    BY <1>1, <2>2
  <2>4. i \in 1..doc[d1].rows /\ r = [c |-> Nth(d1, i), gen |-> doc[d1].gen]
    BY <1>1, <2>2, <2>3
  <2>5. r \in ControlRows
    BY <2>4, RowOf
  <2>6. r.c.doc = d1
    BY <2>2 DEF Nth
  <2> QED
    BY <2>3, <2>5, <2>6
<1>3. ASSUME r \in ControlRows, r.c.doc # d PROVE r \in ControlRows'
  <2>1. PICK d1 \in Doc : \E i \in 1..doc[d1].rows : r = [c |-> Nth(d1, i), gen |-> doc[d1].gen]
    BY <1>3, RowOf
  <2>2. PICK i \in 1..doc[d1].rows : r = [c |-> Nth(d1, i), gen |-> doc[d1].gen]
    BY <2>1
  <2>3. d1 # d
    BY <1>3, <2>2 DEF Nth
  <2>4. i \in 1..doc'[d1].rows /\ r = [c |-> Nth(d1, i), gen |-> doc'[d1].gen]
    BY <1>1, <2>2, <2>3
  <2> QED
    BY <2>4, RowOfPrime
<1> QED
  BY <1>2, <1>3

\* An insert adds a control of the document that is being rebuilt.
LEMMA Inserted ==
    ASSUME TypeInv, InsertControl, NEW r
    PROVE  /\ r \in ControlRows => r \in ControlRows'
           /\ r \in ControlRows' => r \in ControlRows \/ r.c.doc = norm
<1>1. /\ norm \in Doc /\ doc[norm].rows \in Nat
      /\ doc' = [doc EXCEPT ![norm].rows = @ + 1]
      /\ doc \in [Doc -> [gen: 0..MaxGen, rows: Nat, fresh: BOOLEAN]]
  BY DEF InsertControl, TypeInv, TypeOK
<1>2. \A d \in Doc : /\ doc'[d].gen = doc[d].gen
                    /\ doc'[d].rows = IF d = norm THEN doc[d].rows + 1 ELSE doc[d].rows
  BY <1>1
<1>3. ASSUME r \in ControlRows PROVE r \in ControlRows'
  <2>1. PICK d \in Doc : \E i \in 1..doc[d].rows : r = [c |-> Nth(d, i), gen |-> doc[d].gen]
    BY <1>3, RowOf
  <2>2. PICK i \in 1..doc[d].rows : r = [c |-> Nth(d, i), gen |-> doc[d].gen]
    BY <2>1
  <2>3. i \in 1..doc'[d].rows /\ r = [c |-> Nth(d, i), gen |-> doc'[d].gen]
    BY <1>1, <1>2, <2>2
  <2> QED
    BY <2>3, RowOfPrime
<1>4. ASSUME r \in ControlRows', r.c.doc # norm PROVE r \in ControlRows
  <2>1. PICK d \in Doc : \E i \in 1..doc'[d].rows : r = [c |-> Nth(d, i), gen |-> doc'[d].gen]
    BY <1>4, RowOfPrime
  <2>2. PICK i \in 1..doc'[d].rows : r = [c |-> Nth(d, i), gen |-> doc'[d].gen]
    BY <2>1
  <2>3. d # norm
    BY <1>4, <2>2 DEF Nth
  <2>4. i \in 1..doc[d].rows /\ r = [c |-> Nth(d, i), gen |-> doc[d].gen]
    BY <1>2, <2>2, <2>3
  <2> QED
    BY <2>4, RowOf
<1> QED
  BY <1>3, <1>4

\* The edges that a rebuild leaves, without a target in what it deletes.
Left(d, n, m) == SameEdge(n, m) /\ (n.to = NULL \/ (n.to = m.to /\ m.to.c.doc # d))

\* The edges after a rebuild are those of other documents.
LEMMA LeftEdges ==
    ASSUME TypeInv, NEW d \in Doc, NormalizeDelete(d)
    PROVE  /\ \A n \in edge' :
                 IsEdge(n) /\ n.from.c.doc # d /\ (\E m \in edge : Left(d, n, m))
           /\ \A m \in edge : m.from.c.doc # d => (\E n \in edge' : SameEdge(n, m))
<1>1. edge' = {LoseTarget(d, m) : m \in {m \in edge : m.from.c.doc # d}}
  BY DEF NormalizeDelete
<1>2. ASSUME NEW m \in edge
      PROVE  /\ IsEdge(LoseTarget(d, m)) /\ SameEdge(LoseTarget(d, m), m)
             /\ Left(d, LoseTarget(d, m), m)
  <2>1. LoseTarget(d, m) = [m EXCEPT !.to = IF m.to # NULL /\ m.to.c.doc = d THEN NULL ELSE m.to]
    BY DEF LoseTarget
  <2>2. IsEdge(m)
    BY DEF TypeInv
  <2> QED
    BY <2>1, <2>2, Retarget DEF Left
<1>3. ASSUME NEW n \in edge'
      PROVE  IsEdge(n) /\ n.from.c.doc # d /\ (\E m \in edge : Left(d, n, m))
  <2>1. PICK m \in edge : m.from.c.doc # d /\ n = LoseTarget(d, m)
    BY <1>1
  <2>2. n.from = m.from
    BY <1>2, <2>1 DEF SameEdge
  <2> QED
    BY <1>2, <2>1, <2>2
<1>4. ASSUME NEW m \in edge, m.from.c.doc # d PROVE \E n \in edge' : SameEdge(n, m)
  BY <1>1, <1>2, <1>4
<1> QED
  BY <1>3, <1>4

\* Normalize keeps the types, whether it ends, fails, deletes or inserts.
LEMMA NormalizeTypes ==
    ASSUME TypeInv, NormalizeDone \/ NormalizeFails \/ (\E d \in Doc : NormalizeDelete(d)) \/ InsertControl
    PROVE  TypeInv'
<1>0. /\ run.at \in 0..6 /\ run.skipped \subseteq Workbook /\ Position /\ fails \in 0..MaxFails
      /\ super \subseteq Supersedes /\ norm \in Doc \cup {NULL} /\ MaxFails \in Nat /\ MaxGen \in Nat
      /\ run = [pc |-> run.pc, at |-> run.at, todo |-> run.todo, skipped |-> run.skipped]
      /\ run.pc \in {"idle", "load", "emit", "resolve", "annex", "relate", "hop", "mark"}
      /\ doc \in [Doc -> [gen: 0..MaxGen, rows: Nat, fresh: BOOLEAN]]
  BY Positions, MapEdgesAssumption DEF TypeInv, TypeOK, IsRun
<1>1. CASE NormalizeDone
  <2>1. Retargeted
    BY <1>1, ExactRetargets DEF NormalizeDone
  <2>2. UNCHANGED <<doc, super, held, run, fails>> /\ norm' = NULL /\ Position'
    BY <1>0, <1>1 DEF NormalizeDone, Position
  <2> QED
    BY <1>0, <2>1, <2>2, RetargetedTypes, EdgeTypes
<1>2. CASE NormalizeFails
  <2>1. UNCHANGED <<doc, edge, super, held, run>> /\ norm' = NULL /\ fails' \in 0..MaxFails
    BY <1>0, <1>2 DEF NormalizeFails
  <2>2. ControlRows' = ControlRows
    BY <2>1, SameRows
  <2> QED
    BY <2>1, <2>2 DEF TypeInv, TypeOK, IsRun, Position, InSilver
<1>3. ASSUME NEW d \in Doc, NormalizeDelete(d) PROVE TypeInv'
  <2>1. /\ doc[d].gen < MaxGen /\ norm' = d /\ UNCHANGED <<super, held, run, fails>>
        /\ doc' = [doc EXCEPT ![d] = [gen |-> @.gen + 1, rows |-> 0, fresh |-> FALSE]]
    BY <1>3 DEF NormalizeDelete
  <2>2. /\ doc' \in [Doc -> [gen: 0..MaxGen, rows: Nat, fresh: BOOLEAN]]
        /\ doc'[d].rows = 0 /\ ~doc'[d].fresh
        /\ \A d1 \in Doc : d1 # d => doc'[d1] = doc[d1]
    BY <1>0, <2>1
  <2>3. \A d1 \in Doc : doc'[d1].rows <= Len(Tree[d1]) /\ (doc'[d1].fresh => doc'[d1].gen > 0)
    BY <2>2, DocTypes, MapEdgesAssumption
  <2>4. \A n \in edge' : IsEdge(n) /\ n.from \in ControlRows' /\ n.to \in ControlRows' \cup {NULL}
    <3> SUFFICES ASSUME NEW n \in edge'
                 PROVE  IsEdge(n) /\ n.from \in ControlRows' /\ n.to \in ControlRows' \cup {NULL}
      OBVIOUS
    <3>1. PICK m \in edge : Left(d, n, m)
      BY <1>3, LeftEdges
    <3>2. m.from \in ControlRows /\ m.to \in ControlRows \cup {NULL}
      BY DEF TypeInv, TypeOK
    <3>3. IsEdge(n) /\ n.from.c.doc # d /\ n.from = m.from
      BY <1>3, <3>1, LeftEdges DEF Left, SameEdge
    <3> QED
      BY <1>3, <3>1, <3>2, <3>3, Deleted DEF Left
  <2>5. TypeOK'
    BY <1>0, <2>1, <2>2, <2>3, <2>4, Positions DEF TypeInv, TypeOK, InSilver
  <2> QED
    BY <2>1, <2>4, <2>5 DEF TypeInv, IsRun, Position
<1>4. CASE InsertControl
  <2>1. /\ norm \in Doc /\ doc[norm].rows < Len(Tree[norm]) /\ UNCHANGED <<edge, super, held, norm, run, fails>>
        /\ doc' = [doc EXCEPT ![norm].rows = @ + 1]
    BY <1>0, <1>4 DEF InsertControl
  <2>2. doc[norm].rows \in Nat /\ Len(Tree[norm]) \in Nat
    BY <1>0, <2>1, MapEdgesAssumption
  <2>3. /\ doc' \in [Doc -> [gen: 0..MaxGen, rows: Nat, fresh: BOOLEAN]]
        /\ doc'[norm].rows = doc[norm].rows + 1
        /\ \A d1 \in Doc : doc'[d1].gen = doc[d1].gen /\ doc'[d1].fresh = doc[d1].fresh
        /\ \A d1 \in Doc : d1 # norm => doc'[d1].rows = doc[d1].rows
    BY <1>0, <2>1, <2>2
  <2>4. \A d1 \in Doc : doc'[d1].rows <= Len(Tree[d1]) /\ (doc'[d1].fresh => doc'[d1].gen > 0)
    BY <2>1, <2>2, <2>3, DocTypes
  <2>5. \A m \in edge' : m.from \in ControlRows' /\ m.to \in ControlRows' \cup {NULL}
    BY <1>4, <2>1, Inserted DEF TypeInv, TypeOK
  <2>6. TypeOK'
    BY <1>0, <2>1, <2>3, <2>4, <2>5, Positions DEF TypeInv, TypeOK, InSilver
  <2> QED
    BY <2>1, <2>6 DEF TypeInv, IsRun, Position
<1> QED
  BY <1>1, <1>2, <1>3, <1>4

\* Every step keeps the types.
LEMMA TypeNext == TypeInv /\ [Next]_vars => TypeInv'
<1> SUFFICES ASSUME TypeInv, [Next]_vars PROVE TypeInv'
  OBVIOUS
<1>1. CASE (\E d \in Doc : NormalizeDelete(d)) \/ Normalize \/ NormalizeFails
  BY <1>1, NormalizeTypes DEF Normalize
<1>2. CASE Stage
  BY <1>2, StageTypes
<1>3. ASSUME NEW w \in Workbook, Capture(w) PROVE TypeInv'
  <2>1. UNCHANGED <<doc, edge, super, norm, run, fails>> /\ held' \subseteq Workbook
    BY <1>3 DEF Capture, TypeInv, TypeOK
  <2>2. ControlRows' = ControlRows
    BY <2>1, SameRows
  <2> QED
    BY <2>1, <2>2 DEF TypeInv, TypeOK, IsRun, Position, InSilver
<1>4. CASE Start
  <2>1. UNCHANGED <<doc, edge, super, held, norm, fails>> /\ run' = [Idle EXCEPT !.pc = "load", !.at = 1]
    BY <1>4 DEF Start, Frame
  <2>2. /\ run' = [pc |-> run'.pc, at |-> run'.at, todo |-> run'.todo, skipped |-> run'.skipped]
        /\ run'.pc = "load" /\ run'.at = 1 /\ run'.skipped = {} /\ Position'
    <3>1. run' = [pc |-> "load", at |-> 1, todo |-> {}, skipped |-> {}]
      BY <2>1 DEF Idle
    <3> QED
      BY <3>1 DEF Position
  <2>3. super \subseteq Supersedes /\ fails \in 0..MaxFails
    BY DEF TypeInv, TypeOK
  <2> QED
    BY <2>1, <2>2, <2>3, RunTypes
<1>5. CASE UNCHANGED vars
  <2>1. UNCHANGED <<doc, edge, super, held, norm, run, fails>>
    BY <1>5 DEF vars
  <2>2. ControlRows' = ControlRows
    BY <2>1, SameRows
  <2> QED
    BY <2>1, <2>2 DEF TypeInv, TypeOK, IsRun, Position, InSilver
<1> QED
  BY <1>1, <1>2, <1>3, <1>4, <1>5 DEF Next

-----------------------------------------------------------------------------
(* One stage at a time: a document is rebuilt, or the edges are.           *)

\* A step of the stage is one of a stage that runs, and normalize has no part in it.
LEMMA StageBusy ==
    ASSUME TypeInv, Stage
    PROVE  run.pc # "idle" /\ UNCHANGED norm
<1>1. CASE Load
  BY <1>1, LoadRun
<1>2. ASSUME NEW u, Emit(u) PROVE run.pc # "idle" /\ UNCHANGED norm
  BY <1>2 DEF Emit, Frame
<1>3. CASE Emitted \/ Resolve \/ ResolveAnnexPrefix \/ EmitVersionSupersessions
  BY <1>3 DEF Emitted, Resolve, ResolveAnnexPrefix, EmitVersionSupersessions, Frame
<1>4. CASE ResolveViaSupersession \/ MarkMapEdgesFresh \/ StageFails
  BY <1>4 DEF ResolveViaSupersession, MarkMapEdgesFresh, StageFails, Frame
<1> QED
  BY <1>1, <1>2, <1>3, <1>4 DEF Stage

\* What a rebuild does to its document: it is stale.
LEMMA DeletedIsStale ==
    ASSUME TypeInv, NEW d \in Doc, NormalizeDelete(d)
    PROVE  /\ d \in staleMapEdges' /\ staleMapEdges \subseteq staleMapEdges'
           /\ \A d1 \in Doc : doc'[d1].fresh => doc[d1].fresh
<1>1. /\ doc \in [Doc -> [gen: 0..MaxGen, rows: Nat, fresh: BOOLEAN]]
      /\ doc' = [doc EXCEPT ![d] = [gen |-> doc[d].gen + 1, rows |-> 0, fresh |-> FALSE]]
  BY DEF NormalizeDelete, TypeInv, TypeOK
<1>2. /\ doc'[d].gen > 0 /\ ~doc'[d].fresh
      /\ \A d1 \in Doc : d1 # d => doc'[d1] = doc[d1]
  BY <1>1, MapEdgesAssumption
<1> QED
  BY <1>2 DEF staleMapEdges, InSilver

\* An insert stamps nothing and clears no stamp.
LEMMA InsertedStale ==
    ASSUME TypeInv, InsertControl
    PROVE  staleMapEdges' = staleMapEdges /\ \A d \in Doc : doc'[d].fresh = doc[d].fresh
<1>1. /\ doc \in [Doc -> [gen: 0..MaxGen, rows: Nat, fresh: BOOLEAN]]
      /\ doc' = [doc EXCEPT ![norm].rows = @ + 1]
  BY DEF InsertControl, TypeInv, TypeOK
<1>2. \A d \in Doc : doc'[d].gen = doc[d].gen /\ doc'[d].fresh = doc[d].fresh
  BY <1>1
<1> QED
  BY <1>2 DEF staleMapEdges, InSilver

\* No step starts a second stage, or leads an edge to what is being rebuilt.
LEMMA ExclusiveNext ==
    ASSUME TypeInv, ~Concurrent, Exclusive, [Next]_vars
    PROVE  Exclusive'
<1>1. ASSUME NEW d \in Doc, NormalizeDelete(d) PROVE Exclusive'
  <2>1. norm' = d /\ run' = run /\ run.pc = "idle"
    BY <1>1 DEF NormalizeDelete
  <2>2. d \in staleMapEdges'
    BY <1>1, DeletedIsStale
  <2>3. \A n \in edge' : n.to # NULL => n.to.c.doc # d
    BY <1>1, LeftEdges DEF Left
  <2> QED
    BY <2>1, <2>2, <2>3 DEF Exclusive
<1>2. CASE InsertControl
  BY <1>2, InsertedStale DEF Exclusive, InsertControl
<1>3. CASE NormalizeDone \/ NormalizeFails
  BY <1>3 DEF Exclusive, NormalizeDone, NormalizeFails
<1>4. ASSUME NEW w \in Workbook, Capture(w) PROVE Exclusive'
  <2>1. UNCHANGED <<doc, edge, norm, run>>
    BY <1>4 DEF Capture
  <2> QED
    BY <2>1, SameRows DEF Exclusive
<1>5. CASE Start
  BY <1>5 DEF Start, Frame, Exclusive
<1>6. CASE Stage
  <2>1. norm = NULL /\ norm' = NULL
    BY <1>6, StageBusy DEF Exclusive
  <2> QED
    BY <2>1 DEF Exclusive
<1>7. CASE UNCHANGED vars
  <2>1. UNCHANGED <<doc, edge, norm, run>>
    BY <1>7 DEF vars
  <2> QED
    BY <2>1, SameRows DEF Exclusive
<1> QED
  BY <1>1, <1>2, <1>3, <1>4, <1>5, <1>6, <1>7 DEF Next, Normalize

-----------------------------------------------------------------------------
(* What an edge points at.                                                 *)

\* A target is right for every edge that names the same.
LEMMA RightByKey ==
    ASSUME NEW n, NEW m, NEW r, SameKey(n, m), Right(m, r)
    PROVE  Right(n, r)
<1>1. \A d : Means(n, d) <=> Means(m, d)
  BY DEF SameKey, Means
<1>2. \A d : Clause(n, d) <=> Clause(m, d)
  BY DEF SameKey, Clause
<1> QED
  BY <1>1, <1>2 DEF SameKey, Right

\* It stays right unless a management clause of that number appears.
LEMMA RightStays ==
    ASSUME NEW m, NEW r, Right(m, r),
           Means(m, r.c.doc) /\ m.fw = ISO27001 /\ Clause(m, r.c.doc)' => Clause(m, r.c.doc)
    PROVE  Right(m, r)'
BY DEF Right

\* The targets are right after a step that leaves the controls as they are and
\* that retargets, upserts or leaves the edges.
LEMMA TargetsSame ==
    ASSUME TypeInv, ResolvedRight, UNCHANGED doc,
           UNCHANGED edge \/ Retargeted \/ (\E u : Upserted(u))
    PROVE  ResolvedRight'
<1>1. \A m \in edge : m.to # NULL => Right(m, m.to)
  BY RightTarget
<1>2. ASSUME NEW n \in edge', n.to # NULL PROVE Right(n, n.to)
  <2>1. CASE UNCHANGED edge
    BY <1>1, <1>2, <2>1
  <2>2. CASE Retargeted
    <3>1. PICK m \in edge : /\ SameEdge(n, m)
                            /\ n.to = m.to \/ (m.to = NULL /\ n.to \in ControlRows /\ Right(m, n.to))
      BY <2>2 DEF Retargeted
    <3>2. Right(m, n.to)
      BY <1>1, <1>2, <3>1
    <3> QED
      BY <3>1, <3>2, SameEdgeSameKey, RightByKey
  <2>3. ASSUME NEW u, Upserted(u) PROVE Right(n, n.to)
    <3>1. CASE n \in edge
      BY <1>1, <1>2, <3>1
    <3>2. CASE n \notin edge
      <4>1. SameKey(n, u) /\ \E m \in edge : m.from = u.from /\ SameKey(m, u) /\ n.to = m.to
        BY <1>2, <2>3, <3>2 DEF Upserted
      <4>2. PICK m \in edge : SameKey(m, u) /\ n.to = m.to
        BY <4>1
      <4>3. SameKey(n, m) /\ Right(m, n.to)
        BY <1>1, <1>2, <4>1, <4>2 DEF SameKey
      <4> QED
        BY <4>3, RightByKey
    <3> QED
      BY <3>1, <3>2
  <2> QED
    BY <2>1, <2>2, <2>3
<1>3. \A n \in edge' : n.to # NULL => Right(n, n.to)'
  BY <1>2, SameRows
<1> QED
  BY <1>3 DEF ResolvedRight, Right

\* The steps of the stage leave the controls as they are, up to the stamp.
LEMMA StageSteps ==
    ASSUME TypeInv, Stage
    PROVE  \/ UNCHANGED doc /\ (UNCHANGED edge \/ Retargeted \/ (\E u : Upserted(u)))
           \/ MarkMapEdgesFresh
<1>1. CASE Load
  BY <1>1, LoadRun
<1>2. ASSUME NEW u, Emit(u)
      PROVE  UNCHANGED doc /\ (UNCHANGED edge \/ Retargeted \/ (\E v : Upserted(v)))
  BY <1>2, EmitRun
<1>3. CASE Emitted
  BY <1>3, EmittedRun
<1>4. CASE Resolve
  BY <1>4, ExactRetargets DEF Resolve, Frame
<1>5. CASE ResolveAnnexPrefix \/ EmitVersionSupersessions \/ ResolveViaSupersession
  BY <1>5, PassRun
<1>6. CASE StageFails
  BY <1>6 DEF StageFails
<1> QED
  BY <1>1, <1>2, <1>3, <1>4, <1>5, <1>6 DEF Stage

\* Stamping changes nothing but the stamps.
LEMMA Stamped ==
    ASSUME TypeInv, MarkMapEdgesFresh
    PROVE  /\ ControlRows' = ControlRows /\ UNCHANGED edge
           /\ run.skipped # {} => UNCHANGED doc
<1>1. /\ UNCHANGED edge /\ doc \in [Doc -> [gen: 0..MaxGen, rows: Nat, fresh: BOOLEAN]]
      /\ run.skipped # {} => UNCHANGED doc
      /\ doc' = doc \/ doc' = [d \in Doc |-> [doc[d] EXCEPT !.fresh = InSilver(d)]]
  BY DEF MarkMapEdgesFresh, MarkDocumentsMapEdged, TypeInv, TypeOK
<1>2. ASSUME NEW d \in Doc PROVE doc'[d].rows = doc[d].rows /\ doc'[d].gen = doc[d].gen
  BY <1>1
<1> QED
  BY <1>1, <1>2, SameCounts

\* An edge leads to where it should, after every step.
LEMMA ResolvedNext ==
    ASSUME TypeInv, Exclusive, ResolvedRight, [Next]_vars
    PROVE  ResolvedRight'
<1>0. \A m \in edge : m.to # NULL => Right(m, m.to) /\ m.to \in ControlRows
  BY RightTarget DEF TypeInv, TypeOK
<1>1. ASSUME NEW d \in Doc, NormalizeDelete(d) PROVE ResolvedRight'
  <2>1. ASSUME NEW n \in edge', n.to # NULL PROVE Right(n, n.to)'
    <3>1. PICK m \in edge : Left(d, n, m)
      BY <1>1, LeftEdges
    <3>2. m.to = n.to /\ Right(m, n.to)
      BY <1>0, <2>1, <3>1 DEF Left
    <3>3. Right(n, n.to)
      BY <3>1, <3>2, SameEdgeSameKey, RightByKey DEF Left
    <3>4. \A dd : Clause(n, dd)' => Clause(n, dd)
      BY <1>1, Deleted DEF Clause
    <3> QED
      BY <3>3, <3>4, RightStays
  <2> QED
    BY <2>1 DEF ResolvedRight, Right
<1>2. CASE InsertControl
  <2>1. norm # NULL /\ edge' = edge
    BY <1>2 DEF InsertControl
  <2>2. ASSUME NEW n \in edge', n.to # NULL PROVE Right(n, n.to)'
    <3>1. Right(n, n.to) /\ n.to.c.doc # norm /\ n.to.c.doc \in Doc
      BY <1>0, <2>1, <2>2, RowOf DEF Exclusive
    <3>2. ASSUME Means(n, n.to.c.doc), n.fw = ISO27001, Clause(n, n.to.c.doc)'
          PROVE  Clause(n, n.to.c.doc)
      <4>1. PICK r \in ControlRows' : /\ r.c.doc.fw = ISO27001 /\ r.c.doc.ver = n.to.c.doc.ver
                                      /\ r.c.cite = n.cite /\ r.c.kind = "clause"
        BY <3>2 DEF Clause
      <4>2. n.to.c.doc.fw = ISO27001 /\ r.c.doc \in Doc
        BY <3>2, RowOfPrime DEF Means
      <4>3. r.c.doc = n.to.c.doc
        BY <3>1, <4>1, <4>2, MapEdgesAssumption
      <4>4. r \in ControlRows
        BY <1>2, <3>1, <4>3, Inserted
      <4> QED
        BY <4>1, <4>4 DEF Clause
    <3> QED
      BY <3>1, <3>2, RightStays
  <2> QED
    BY <2>2 DEF ResolvedRight, Right
<1>3. CASE NormalizeDone \/ NormalizeFails
  BY <1>3, ExactRetargets, TargetsSame DEF NormalizeDone, NormalizeFails
<1>4. CASE (\E w \in Workbook : Capture(w)) \/ Start \/ UNCHANGED vars
  BY <1>4, TargetsSame DEF Capture, Start, Frame, vars
<1>5. CASE Stage
  <2>1. CASE MarkMapEdgesFresh
    <3>1. ControlRows' = ControlRows /\ UNCHANGED edge
      BY <2>1, Stamped
    <3>2. \A m, d : Clause(m, d)' <=> Clause(m, d)
      BY <3>1 DEF Clause
    <3>3. ASSUME NEW n \in edge', n.to # NULL PROVE Right(n, n.to)'
      BY <1>0, <3>1, <3>2, <3>3, RightStays
    <3> QED
      BY <3>3 DEF ResolvedRight, Right
  <2> QED
    BY <1>5, <2>1, StageSteps, TargetsSame
<1> QED
  BY <1>1, <1>2, <1>3, <1>4, <1>5 DEF Next, Normalize

-----------------------------------------------------------------------------
(* What the controls derive, and which of it is built.                     *)

\* What a control derives is told by the control alone.
LEMMA DerivedLocal ==
    ASSUME NEW i \in 1..5, NEW e \in Derived(Source[i])'
    PROVE  /\ e.from \in ControlRows'
           /\ e.from \in ControlRows => e \in Derived(Source[i])
<1>1. CASE i = 1
  <2>1. e \in ISOForward' /\ Derived(Source[i]) = ISOForward
    BY <1>1 DEF Derived, Source
  <2> QED
    BY <2>1 DEF ISOForward, EdgeOf, loadAnnexControls, ControlsOf
<1>2. CASE i = 2
  <2>1. e \in ISOReverse' /\ Derived(Source[i]) = ISOReverse
    BY <1>2 DEF Derived, Source
  <2> QED
    BY <2>1 DEF ISOReverse, EdgeOf, load27002Controls, ControlsOf
<1>3. CASE i = 3
  <2>1. e \in OLIREdges' /\ Derived(Source[i]) = OLIREdges
    BY <1>3 DEF Derived, Source
  <2> QED
    BY <2>1 DEF OLIREdges, EdgeOf, loadCurrentControls
<1>4. CASE i = 4
  <2>1. e \in CISEdges' /\ Derived(Source[i]) = CISEdges
    BY <1>4 DEF Derived, Source
  <2> QED
    BY <2>1 DEF CISEdges, EdgeOf, loadCurrentControls
<1>5. CASE i = 5
  <2>1. e \in CuratedEdges' /\ Derived(Source[i]) = CuratedEdges
    BY <1>5 DEF Derived, Source
  <2> QED
    BY <2>1 DEF CuratedEdges, EdgeOf
<1> QED
  BY <1>1, <1>2, <1>3, <1>4, <1>5

\* Without Annex A controls, 27001 derives nothing for 27002; and only the second
\* source derives edges back.
LEMMA NoAnnex ==
    /\ loadAnnexControls = {} => Derived(Source[1]) = {}
    /\ \A e \in Derived(Source[2]) : e.source = "iso-reverse"
    /\ \A i \in 1..5 : Source[i] = "iso" => i = 1
<1>1. loadAnnexControls = {} => ISOForward = {}
  BY DEF ISOForward
<1>2. \A e \in ISOReverse : e.source = "iso-reverse"
  BY DEF ISOReverse, EdgeOf
<1>3. Derived(Source[1]) = ISOForward /\ Derived(Source[2]) = ISOReverse
  BY DEF Derived, Source
<1>4. \A i \in 1..5 : Source[i] = "iso" => i = 1
  BY DEF Source
<1> QED
  BY <1>1, <1>2, <1>3, <1>4

\* All that is derived is derived from one source.
LEMMA DerivableFrom ==
    /\ \A e : e \in Derivable <=> \E i \in 1..5 : e \in Derived(Source[i])
    /\ \A e : e \in Derivable' <=> \E i \in 1..5 : e \in Derived(Source[i])'
<1>1. Derivable = UNION {Derived(Source[i]) : i \in 1..5}
  BY Positions DEF Derivable
<1>2. Derivable' = UNION {Derived(Source[i])' : i \in 1..5}
  BY Positions DEF Derivable
<1> QED
  BY <1>1, <1>2

\* The keys of the edges stay.
KeysStay == \A m \in edge : \E n \in edge' : n.from = m.from /\ SameKey(n, m)

\* The passes, the upserts and the steps that leave the edges keep all keys.
LEMMA KeepKeys ==
    ASSUME UNCHANGED edge \/ Retargeted \/ (\E u : Upserted(u))
    PROVE  KeysStay
<1>1. CASE UNCHANGED edge
  BY <1>1 DEF KeysStay, SameKey
<1>2. CASE Retargeted
  BY <1>2, SameEdgeSameKey DEF Retargeted, KeysStay
<1>3. CASE \E u : Upserted(u)
  BY <1>3 DEF Upserted, KeysStay
<1> QED
  BY <1>1, <1>2, <1>3

\* So an edge that is built stays built.
LEMMA BuiltStays ==
    ASSUME KeysStay, NEW e, Built(e)
    PROVE  Built(e)'
<1>1. PICK m \in edge : m.from = e.from /\ SameKey(m, e)
  BY DEF Built
<1>2. PICK n \in edge' : n.from = m.from /\ SameKey(n, m)
  BY DEF KeysStay
<1>3. n.from = e.from /\ SameKey(n, e)
  BY <1>1, <1>2 DEF SameKey
<1> QED
  BY <1>3 DEF Built

\* And a source that is built, or passed over, stays so.
LEMMA SourceStays ==
    ASSUME UNCHANGED doc, KeysStay, NEW i, SourceBuilt(i), run.skipped # {} => run'.skipped # {}
    PROVE  SourceBuilt(i)'
<1>1. Derived(Source[i])' = Derived(Source[i]) /\ loadAnnexControls' = loadAnnexControls
  BY SameRows
<1>2. \A e \in Derived(Source[i]) : Built(e) => Built(e)'
  BY BuiltStays
<1> QED
  BY <1>1, <1>2 DEF SourceBuilt

\* The next source follows when all before it are built.
LEMMA GoesOn ==
    ASSUME TypeInv, NEW at \in 1..6, NEW skipped \in SUBSET Workbook, run' = NextSource(at, skipped),
           \A i \in 1..5 : i < at => SourceBuilt(i)'
    PROVE  Progress'
BY GoOn DEF Progress

-----------------------------------------------------------------------------
(* How far the stage is.                                                   *)

\* What the source the stage is at derives.
LEMMA SrcStays ==
    ASSUME UNCHANGED doc, run'.at = run.at
    PROVE  Derived(src)' = Derived(src)
<1>1. ControlRows' = ControlRows
  BY SameRows
<1>2. src' = src
  BY DEF src
<1> QED
  BY <1>1, <1>2 DEF Derived, ISOForward, ISOReverse, OLIREdges, CISEdges, CuratedEdges,
              loadAnnexControls, load27002Controls, loadCurrentControls, ControlsOf

\* The stage has built every source before the one it is at.
LEMMA StageProgress ==
    ASSUME TypeInv, Progress, Stage
    PROVE  Progress'
<1>0. /\ run.at \in 0..6 /\ run.skipped \in SUBSET Workbook /\ Position
      /\ run.pc # "idle" => \A i \in 1..5 : i < run.at => SourceBuilt(i)
  BY Positions DEF TypeInv, TypeOK, Progress
<1>1. CASE Load
  <2>1. /\ run.pc = "load" /\ run.at \in 1..5 /\ UNCHANGED <<doc, edge>> /\ KeysStay
    BY <1>1, LoadRun, KeepKeys
  <2>2. CASE src = "iso" /\ loadAnnexControls = {} /\ run' = NextSource(3, run.skipped)
    <3>1. run'.skipped = run.skipped
      BY <1>0, <2>2, GoOn
    <3>2. ASSUME NEW i \in 1..5, i < 3 PROVE SourceBuilt(i)
      BY <2>2, <3>2, NoAnnex DEF SourceBuilt
    <3>3. ASSUME NEW i \in 1..5, i < 3 PROVE SourceBuilt(i)'
      BY <2>1, <3>1, <3>2, <3>3, SourceStays
    <3> QED
      BY <1>0, <2>2, <3>3, GoesOn
  <2>3. CASE src \in Workbook /\ run' = NextSource(run.at + 1, Skip(src)) /\ Skip(src) \in SUBSET Workbook
    <3>1. run.at + 1 \in 1..6 /\ Skip(src) # {}
      BY <2>1 DEF Skip
    <3>2. run'.skipped # {}
      BY <2>3, <3>1, GoOn
    <3> QED
      BY <2>3, <3>1, <3>2, GoesOn DEF SourceBuilt
  <2>4. CASE /\ run'.pc = "emit" /\ run'.at = run.at /\ run'.todo = Derived(src)
             /\ run'.skipped = run.skipped
    <3>1. \A i \in 1..5 : i < run.at => SourceBuilt(i)'
      BY <1>0, <2>1, <2>4, SourceStays
    <3>2. Derived(src)' = Derived(src)
      BY <2>1, <2>4, SrcStays
    <3> QED
      BY <2>4, <3>1, <3>2 DEF Progress
  <2> QED
    BY <1>1, <2>2, <2>3, <2>4, LoadRun
<1>2. ASSUME NEW u, Emit(u) PROVE Progress'
  <2>1. /\ run.pc = "emit" /\ Upserted(u) /\ UNCHANGED doc /\ run'.pc = "emit" /\ run'.at = run.at
        /\ run'.todo = run.todo \ {u} /\ run'.skipped = run.skipped
    BY <1>2, EmitRun
  <2>2. KeysStay
    BY <2>1, KeepKeys
  <2>3. \A i \in 1..5 : i < run.at => SourceBuilt(i)'
    BY <1>0, <2>1, <2>2, SourceStays
  <2>4. Derived(src)' = Derived(src)
    BY <2>1, SrcStays
  <2>5. Built(u)'
    BY <2>1 DEF Upserted, Built
  <2>6. ASSUME NEW e \in Derived(src) PROVE e \in run'.todo \/ Built(e)'
    BY <2>1, <2>2, <2>5, BuiltStays DEF Progress
  <2> QED
    BY <2>1, <2>3, <2>4, <2>6 DEF Progress
<1>3. CASE Emitted
  <2>1. /\ run.pc = "emit" /\ run.todo = {} /\ UNCHANGED <<doc, edge>> /\ KeysStay /\ run.at \in 1..5
    BY <1>0, <1>3, EmittedRun, KeepKeys DEF Position
  <2>2. \A e \in Derived(src) : Built(e)
    BY <2>1 DEF Progress
  <2>3. SourceBuilt(run.at)
    BY <2>2 DEF SourceBuilt, src
  <2>4. CASE run' = NextSource(run.at + 1, run.skipped)
    <3>1. run.at + 1 \in 1..6
      BY <2>1
    <3>2. run'.skipped = run.skipped
      BY <1>0, <2>4, <3>1, GoOn
    <3>3. ASSUME NEW i \in 1..5, i < run.at + 1 PROVE SourceBuilt(i)'
      <4>1. SourceBuilt(i)
        BY <1>0, <2>1, <2>3, <3>3
      <4> QED
        BY <2>1, <3>2, <4>1, SourceStays
    <3> QED
      BY <1>0, <2>4, <3>1, <3>3, GoesOn
  <2>5. CASE run'.pc = "resolve" /\ run'.at = run.at /\ run'.skipped = run.skipped
    <3>1. \A i \in 1..5 : i < run.at => SourceBuilt(i)'
      BY <1>0, <2>1, <2>5, SourceStays
    <3>2. Derived(src)' = Derived(src)
      BY <2>1, <2>5, SrcStays
    <3>3. \A e \in Derived(src) : Built(e)'
      BY <2>1, <2>2, BuiltStays
    <3> QED
      BY <2>5, <3>1, <3>2, <3>3 DEF Progress
  <2> QED
    BY <1>3, <2>4, <2>5, EmittedRun
<1>4. CASE Resolve
  <2>1. /\ run.pc = "resolve" /\ UNCHANGED doc /\ Retargeted /\ run.at \in 1..5
        /\ run' = NextSource(run.at + 1, run.skipped)
    BY <1>0, <1>4, ExactRetargets DEF Resolve, Frame, Position
  <2>2. KeysStay /\ run.at + 1 \in 1..6
    BY <2>1, KeepKeys
  <2>3. SourceBuilt(run.at)
    BY <2>1 DEF Progress, SourceBuilt, src
  <2>4. run'.skipped = run.skipped
    BY <1>0, <2>1, <2>2, GoOn
  <2>5. ASSUME NEW i \in 1..5, i < run.at + 1 PROVE SourceBuilt(i)'
    <3>1. SourceBuilt(i)
      BY <1>0, <2>1, <2>3, <2>5
    <3> QED
      BY <2>1, <2>2, <2>4, <3>1, SourceStays
  <2> QED
    BY <1>0, <2>1, <2>2, <2>5, GoesOn
<1>5. CASE ResolveAnnexPrefix \/ EmitVersionSupersessions \/ ResolveViaSupersession
  <2>1. /\ UNCHANGED doc /\ KeysStay
        /\ run.pc \in {"annex", "relate", "hop"} /\ run'.pc \in {"relate", "hop", "mark"}
        /\ run'.at = run.at /\ run'.skipped = run.skipped
    BY <1>5, PassRun, KeepKeys DEF PassStep
  <2>2. \A i \in 1..5 : i < run.at => SourceBuilt(i)'
    BY <1>0, <2>1, SourceStays
  <2> QED
    BY <2>1, <2>2 DEF Progress
<1>6. CASE MarkMapEdgesFresh \/ StageFails
  <2>1. run'.pc = "idle"
    BY <1>6, IdleRun DEF MarkMapEdgesFresh, StageFails
  <2> QED
    BY <2>1 DEF Progress
<1> QED
  BY <1>1, <1>2, <1>3, <1>4, <1>5, <1>6 DEF Stage

\* Nothing else moves the stage, and normalize waits for it.
LEMMA ProgressNext ==
    ASSUME TypeInv, ~Concurrent, Exclusive, Progress, [Next]_vars
    PROVE  Progress'
<1>1. CASE (\E d \in Doc : NormalizeDelete(d)) \/ Normalize \/ NormalizeFails
  <2>1. run'.pc = "idle"
    BY <1>1 DEF NormalizeDelete, Normalize, InsertControl, NormalizeDone, NormalizeFails, Exclusive
  <2> QED
    BY <2>1 DEF Progress
<1>2. CASE (\E w \in Workbook : Capture(w)) \/ UNCHANGED vars
  <2>1. UNCHANGED <<doc, edge, run>> /\ KeysStay
    BY <1>2, KeepKeys DEF Capture, vars
  <2>2. ASSUME NEW i \in 1..5, i < run.at, run.pc # "idle" PROVE SourceBuilt(i)'
    BY <2>1, <2>2, SourceStays DEF Progress
  <2>3. Derived(src)' = Derived(src) /\ \A e : Built(e) => Built(e)'
    BY <2>1, SrcStays, BuiltStays
  <2> QED
    BY <2>1, <2>2, <2>3 DEF Progress
<1>3. CASE Start
  <2>1. run'.pc = "load" /\ run'.at = 1
    <3>1. run' = [pc |-> "load", at |-> 1, todo |-> {}, skipped |-> {}]
      BY <1>3 DEF Start, Idle
    <3> QED
      BY <3>1
  <2> QED
    BY <2>1 DEF Progress
<1>4. CASE Stage
  BY <1>4, StageProgress
<1> QED
  BY <1>1, <1>2, <1>3, <1>4 DEF Next

-----------------------------------------------------------------------------
(* What a stamp says.                                                      *)

\* The edge is there, or the gap is one that quality_gaps shows or that 27001 closes.
Accounted(e) ==
    \/ e.from.c.doc \in staleMapEdges
    \/ Built(e)
    \/ /\ e.source = "iso-reverse"
       /\ loadAnnexControls = {} \/ \E d1 \in staleMapEdges : d1.fw = ISO27001

\* The property in terms of the edges that are accounted for.
LEMMA FreshAccounts ==
    /\ FreshMeansBuilt <=> ((\E d \in Doc : doc[d].fresh) => \A e \in Derivable : Accounted(e))
    /\ FreshMeansBuilt' <=> ((\E d \in Doc : doc'[d].fresh) => \A e \in Derivable' : Accounted(e)')
BY DEF FreshMeansBuilt, Accounted

\* The stamps stay honest while the controls and the keys of the edges stay.
LEMMA FreshSame ==
    ASSUME FreshMeansBuilt, UNCHANGED doc, KeysStay
    PROVE  FreshMeansBuilt'
<1>1. Derivable' = Derivable
  BY SameRows, DerivableFrom
<1>2. \A e : Accounted(e) => Accounted(e)'
  BY SameRows, BuiltStays DEF Accounted
<1> QED
  BY <1>1, <1>2, FreshAccounts

\* An edge that a rebuild leaves derivable was derivable, and is accounted for.
LEMMA DeleteAccounts ==
    ASSUME TypeInv, FreshMeansBuilt, NEW d \in Doc, NormalizeDelete(d)
    PROVE  FreshMeansBuilt'
<1> SUFFICES ASSUME \E d1 \in Doc : doc'[d1].fresh, NEW e \in Derivable'
             PROVE  Accounted(e)'
  BY FreshAccounts
<1>1. PICK i \in 1..5 : e \in Derived(Source[i])'
  BY DerivableFrom
<1>2. e.from \in ControlRows /\ e.from.c.doc # d
  BY <1>1, DerivedLocal, Deleted
<1>3. e \in Derivable
  BY <1>1, <1>2, DerivedLocal, DerivableFrom
<1>4. d \in staleMapEdges' /\ staleMapEdges \subseteq staleMapEdges' /\ \E d1 \in Doc : doc[d1].fresh
  BY DeletedIsStale
<1>5. Accounted(e)
  BY <1>3, <1>4, FreshAccounts
<1>6. loadAnnexControls' \subseteq loadAnnexControls
  BY Deleted DEF loadAnnexControls, ControlsOf
<1>7. ASSUME Built(e) PROVE Built(e)'
  <2>1. PICK m \in edge : m.from = e.from /\ SameKey(m, e)
    BY <1>7 DEF Built
  <2>2. PICK n \in edge' : SameEdge(n, m)
    BY <1>2, <2>1, LeftEdges
  <2>3. n.from = e.from /\ SameKey(n, e)
    BY <2>1, <2>2 DEF SameEdge, SameKey
  <2> QED
    BY <2>3 DEF Built
<1> QED
  BY <1>4, <1>5, <1>6, <1>7 DEF Accounted

\* A control that is inserted belongs to a document that is stale.
LEMMA InsertAccounts ==
    ASSUME TypeInv, Exclusive, FreshMeansBuilt, InsertControl
    PROVE  FreshMeansBuilt'
<1> SUFFICES ASSUME \E d1 \in Doc : doc'[d1].fresh, NEW e \in Derivable'
             PROVE  Accounted(e)'
  BY FreshAccounts
<1>0. norm \in staleMapEdges' /\ staleMapEdges' = staleMapEdges /\ \E d1 \in Doc : doc[d1].fresh
  BY InsertedStale DEF InsertControl, Exclusive
<1>1. PICK i \in 1..5 : e \in Derived(Source[i])'
  BY DerivableFrom
<1>2. e.from \in ControlRows'
  BY <1>1, DerivedLocal
<1>3. CASE e.from.c.doc = norm
  BY <1>0, <1>3 DEF Accounted
<1>4. CASE e.from.c.doc # norm
  <2>1. e \in Derivable
    BY <1>1, <1>2, <1>4, DerivedLocal, DerivableFrom, Inserted
  <2>2. Accounted(e)
    BY <1>0, <2>1, FreshAccounts
  <2>3. KeysStay
    BY KeepKeys DEF InsertControl
  <2>4. ASSUME loadAnnexControls = {}, loadAnnexControls' # {} PROVE norm.fw = ISO27001
    <3>1. PICK r \in loadAnnexControls' : r \notin loadAnnexControls
      BY <2>4
    <3>2. r \in ControlRows' /\ r \notin ControlRows /\ r.c.doc.fw = ISO27001
      BY <3>1 DEF loadAnnexControls, ControlsOf
    <3> QED
      BY <3>2, Inserted
  <2> QED
    BY <1>0, <2>2, <2>3, <2>4, BuiltStays DEF Accounted
<1> QED
  BY <1>3, <1>4

\* What is stamped is built, for the stage has been at every source.
LEMMA MarkAccounts ==
    ASSUME TypeInv, Progress, FreshMeansBuilt, MarkMapEdgesFresh
    PROVE  FreshMeansBuilt'
<1>1. CASE run.skipped # {}
  BY <1>1, Stamped, KeepKeys, FreshSame
<1>2. CASE run.skipped = {}
  <2>1. run.pc = "mark" /\ run.at = 6 /\ UNCHANGED edge /\ ControlRows' = ControlRows
    BY Stamped DEF MarkMapEdgesFresh, TypeInv, Position
  <2>2. \A i \in 1..5 : SourceBuilt(i)
    BY <2>1 DEF Progress
  <2>3. ASSUME NEW e \in Derivable' PROVE Accounted(e)'
    <3>1. PICK i \in 1..5 : e \in Derived(Source[i])'
      BY DerivableFrom
    <3>2. e \in Derived(Source[i])
      BY <2>1, <3>1, DerivedLocal
    <3>3. loadAnnexControls' = loadAnnexControls
      BY <2>1 DEF loadAnnexControls, ControlsOf
    <3>4. Built(e) => Built(e)'
      BY <2>1, KeepKeys, BuiltStays
    <3>5. Built(e) \/ (e.source = "iso-reverse" /\ loadAnnexControls = {})
      BY <1>2, <2>2, <3>2, NoAnnex DEF SourceBuilt
    <3> QED
      BY <3>3, <3>4, <3>5 DEF Accounted
  <2> QED
    BY <2>3, FreshAccounts
<1> QED
  BY <1>1, <1>2

\* The stamps stay honest.
LEMMA FreshNext ==
    ASSUME TypeInv, Exclusive, Progress, FreshMeansBuilt, [Next]_vars
    PROVE  FreshMeansBuilt'
<1>1. ASSUME NEW d \in Doc, NormalizeDelete(d) PROVE FreshMeansBuilt'
  BY <1>1, DeleteAccounts
<1>2. CASE InsertControl
  BY <1>2, InsertAccounts
<1>3. CASE NormalizeDone \/ NormalizeFails
  BY <1>3, ExactRetargets, KeepKeys, FreshSame DEF NormalizeDone, NormalizeFails
<1>4. CASE (\E w \in Workbook : Capture(w)) \/ Start \/ UNCHANGED vars
  BY <1>4, KeepKeys, FreshSame DEF Capture, Start, Frame, vars
<1>5. CASE Stage
  BY <1>5, StageSteps, KeepKeys, FreshSame, MarkAccounts
<1> QED
  BY <1>1, <1>2, <1>3, <1>4, <1>5 DEF Next, Normalize

\* The stage and normalize, one at a time, keep the whole invariant.
THEOREM EdgeInvariant == Spec => []EdgeInv
<1>1. Init => EdgeInv
  <2>1. Init => Exclusive /\ ResolvedRight
    BY DEF Init, Exclusive, ResolvedRight
  <2>2. Init => Progress /\ FreshMeansBuilt
    BY DEF Init, Idle, Progress, FreshMeansBuilt
  <2> QED
    BY <2>1, <2>2, TypeInit DEF EdgeInv, ResolvedInv, FreshInv
<1>2. EdgeInv /\ [Next]_vars => EdgeInv'
  BY TypeNext, ExclusiveNext, ResolvedNext, ProgressNext, FreshNext
     DEF EdgeInv, ResolvedInv, FreshInv
<1> QED
  BY <1>1, <1>2, PTL DEF Spec

\* The types hold, whatever runs beside the stage.
THEOREM EdgeTypesHold == Spec => []TypeOK
<1>1. EdgeInv => TypeOK
  BY DEF EdgeInv, TypeInv
<1> QED
  BY <1>1, EdgeInvariant, PTL

\* An edge that has a target has the one it names, when one stage runs at a time.
THEOREM TargetsAreRight == ~Concurrent => (Spec => []ResolvedRight)
<1> SUFFICES ASSUME ~Concurrent PROVE Spec => []ResolvedRight
  OBVIOUS
<1>1. EdgeInv => ResolvedRight
  BY DEF EdgeInv, ResolvedInv
<1> QED
  BY <1>1, EdgeInvariant, PTL

\* The marker is honest when one stage runs at a time: what quality_gaps does not
\* list as stale has all the edges its controls derive.
THEOREM StampsAreHonest == ~Concurrent => (Spec => []FreshMeansBuilt)
<1> SUFFICES ASSUME ~Concurrent PROVE Spec => []FreshMeansBuilt
  OBVIOUS
<1>1. EdgeInv => FreshMeansBuilt
  BY DEF EdgeInv, FreshInv
<1> QED
  BY <1>1, EdgeInvariant, PTL
=============================================================================
