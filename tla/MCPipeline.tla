----------------------------- MODULE MCPipeline -----------------------------
(* Small corpora for TLC. *)
EXTENDS Pipeline, TLC

CONSTANTS f1, f2, d1, d2, x, y

\* Two files of one version: a standard and its amendment.
SiblingDocs == f1 :> d1 @@ f2 :> d2
SiblingRoles == d1 :> "main" @@ d2 :> "amendment"
OneVersion == [d \in Doc |-> "2022"]
OneFormat == [f \in File |-> "pdf"]

\* One document.
OneDoc == [f \in File |-> d1]
MainRoles == [d \in Doc |-> "main"]

\* What the operator may put where: anything; files that turn unreadable.
Anything == [f \in File |-> Content \cup {NULL, Unreadable}]
TurnUnreadable == [f \in File |-> Content \cup {Unreadable}]

\* A document that goes by two names, with other bytes under each.
TwoNames == f1 :> {x, NULL} @@ f2 :> {y, NULL}

EveryCommand == {DefaultStages} \cup {<<stage>> : stage \in Stage}
MainCommands == {DefaultStages, <<"index">>}

Bytes == Permutations(Content)
=============================================================================
