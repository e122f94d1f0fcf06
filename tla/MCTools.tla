------------------------------ MODULE MCTools -------------------------------
(* A small corpus: two versions of a framework, an amendment of the current
   one, a second framework that uses the same citation, and a version of that
   one which config.framework_version does not list. *)
EXTENDS Tools, TLC

D(id, fw, ver, role) == [id |-> id, fw |-> fw, ver |-> ver, role |-> role]
Old == D(1, 1, 1, "main")
Main == D(2, 1, 2, "main")
Patch == D(3, 1, 2, "amendment")
Other == D(4, 2, 1, "main")
Draft == D(5, 2, 2, "main")
MCDoc == {Old, Main, Patch, Other, Draft}

E(cite, parent, status, amends, sim, lex) ==
    [cite |-> cite, parent |-> parent, status |-> status, amends |-> amends,
     sim |-> sim, lex |-> lex]
MCTree == Old :> <<E(1, 0, "active", 0, 6, 2)>>
       @@ Main :> <<E(1, 0, "active", 0, 7, 0), E(2, 1, "active", 0, 3, 5),
                    E(3, 1, "withdrawn", 0, 8, 6)>>
       @@ Patch :> <<E(1, 0, "active", 1, 2, 1)>>
       @@ Other :> <<E(1, 0, "active", 0, 5, 3)>>
       @@ Draft :> <<E(1, 0, "active", 0, 9, 9)>>
MCMapping == {[from |-> <<Main, 1>>, to |-> <<Other, 1>>],
              [from |-> <<Other, 1>>, to |-> <<Main, 2>>],
              [from |-> <<Draft, 1>>, to |-> <<Main, 1>>]}
MCListed == {[fw |-> 1, ver |-> 1], [fw |-> 1, ver |-> 2], [fw |-> 2, ver |-> 1]}
MCRelations == {<<[fw |-> 1, ver |-> 2], [fw |-> 1, ver |-> 1]>>,
                <<[fw |-> 2, ver |-> 1], [fw |-> 2, ver |-> 7]>>}
MCRebuilt == {Main}
MCScheme == 1 :> "iso" @@ 2 :> "pci"

S(embedder, floor, reduced) == [embedder |-> embedder, floor |-> floor, reduced |-> reduced]
\* The model "older" has vectors in some of the initial corpora only.
MCServers == {S("stored", 6, FALSE), S("older", 6, TRUE), S("none", 6, FALSE)}
MCFloorServers == {S("stored", 7, FALSE)}

Q(cites, fw, ver, topK, mode) ==
    [fw |-> fw, ver |-> ver, matches |-> {[cite |-> c, scheme |-> "iso"] : c \in cites},
     topK |-> topK, mode |-> mode, withdrawn |-> FALSE, docCap |-> 0, compact |-> FALSE]
MCQueries ==
    {Q({1}, 0, 0, 2, ""), Q({2}, 1, 0, 3, "hybrid"),
     Q({}, 1, 1, 1, "vector"), Q({1}, 2, 2, 2, ""), Q({}, 3, 0, 2, "bm25"),
     [Q({3}, 1, 0, 3, "") EXCEPT !.withdrawn = TRUE],
     [Q({}, 0, 0, 3, "bm25") EXCEPT !.docCap = 1, !.compact = TRUE]}

L(form, fw, ver, include) == [forms |-> {form}, fw |-> fw, ver |-> ver, include |-> include]
MCLookups ==
    {L(1, 0, 0, Sections), L(2, 1, 0, {"mappings", "lineage"}), L(2, 1, 1, Sections), L(2, 2, 0, {}),
     L(1, 2, 2, {}), L(1, 0, 2, {"chunks"})}
=============================================================================
