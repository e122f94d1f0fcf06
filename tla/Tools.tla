------------------------------- MODULE Tools --------------------------------
(***************************************************************************)
(* The MCP tools over a corpus that the pipeline rewrites: one call at a   *)
(* time - the calls share nothing but the corpus, which they only read -   *)
(* and the writers' statements in between.                                 *)
(***************************************************************************)
EXTENDS Search, Document

TypeOK ==
    /\ CorpusTypeOK
    /\ call # NULL => call.tool \in {"search", "document", "corpus_status"}
    /\ Searching => /\ call.at \in 1..Len(Steps)
                    /\ \A k \in Chunks(call.hits) : k.build \in 0..jobs
    /\ Looking => call.at \in 1..Len(DocSteps)

Init == CorpusInit /\ call = NULL

Next == Write \/ SearchNext \/ DocumentNext

Spec == Init /\ [][Next]_cvars
=============================================================================
