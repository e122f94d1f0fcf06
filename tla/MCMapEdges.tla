----------------------------- MODULE MCMapEdges -----------------------------
(* A small corpus for MapEdges: ISO 27001 and 27002, NIST 800-53, CIS v8.1. *)
EXTENDS MapEdges, TLC

Iso1 == [fw |-> "iso27001", ver |-> "2022", current |-> TRUE]
Iso2 == [fw |-> "iso27002", ver |-> "2022", current |-> TRUE]
Nist == [fw |-> "nist80053", ver |-> "r5", current |-> TRUE]
Cis == [fw |-> "ciscontrols", ver |-> "v8.1", current |-> TRUE]

\* 6 is a management clause of 27001, 5 an Annex A control.
N(cite, kind) == [cite |-> cite, kind |-> kind, title |-> NULL]
Trees == [d \in Doc |->
    CASE d = Iso1 -> <<N(<<"6">>, "clause"), N(<<"A", "5">>, "annex-control")>>
      [] d = Iso2 -> <<N(<<"5">>, "control")>>
      [] d = Nist -> <<N(<<"AC-01">>, "control")>>
      [] d = Cis -> <<[cite |-> <<"1.1">>, kind |-> "safeguard", title |-> "inventory"]>>]

\* The crosswalk cites bare numbers: one means the Annex A control, one the clause.
Olir == {[focal |-> NULL, ref |-> NULL],
         [focal |-> <<"AC-01">>, ref |-> <<"5">>], [focal |-> <<"AC-01">>, ref |-> <<"6">>]}

\* A row without a relationship, one with an unknown one, and a title nobody has.
CisMap == {[title |-> "inventory", rel |-> "", target |-> [annex |-> TRUE, num |-> <<"5">>]],
           [title |-> "inventory", rel |-> "see", target |-> [annex |-> FALSE, num |-> <<"6">>]],
           [title |-> "backup", rel |-> "subset", target |-> [annex |-> TRUE, num |-> <<"6">>]]}

\* The curated rows cite CIS v8, 800-53 without a version, and a revision of it
\* that nobody ingested.
Key(d, cite) == [fw |-> d.fw, ver |-> d.ver, cite |-> cite]
Curated == {[key |-> Key(Nist, <<"AC-01">>), fw |-> "ciscontrols", ver |-> "v8",
             cite |-> <<"1.1">>, rel |-> "related"],
            [key |-> Key(Iso2, <<"5">>), fw |-> "nist80053", ver |-> NULL,
             cite |-> <<"AC-01">>, rel |-> "related"],
            [key |-> Key(Iso2, <<"5">>), fw |-> "nist80053", ver |-> "r4",
             cite |-> <<"AC-01">>, rel |-> "related"]}

Docs == {Iso1, Iso2, Nist, Cis}
Hops == {[fw |-> "ciscontrols", ver |-> "v8.1", old |-> "v8"]}
=============================================================================
