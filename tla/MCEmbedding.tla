----------------------------- MODULE MCEmbedding -----------------------------
(* Small instances of Embedding for TLC. *)
EXTENDS Embedding, TLC

\* One process uploads two or more chunks to Kaggle and embeds one itself, the
\* other embeds locally.
Configured == [p \in Proc |-> IF p = 1 THEN {"auto"} ELSE {"local"}]
TwoControls == [f \in File |-> {"c1", "c2"}]

\* One process that embeds few chunks itself and more at Kaggle, a control per file.
Either == [p \in Proc |-> {"auto"}]
SmallFiles == [f \in File |-> {f}]

\* All files are of one version.
OneVersion == [f \in File |-> "v1"]

\* One file is alone in its version, the others share one.
Loner == CHOOSE f \in File : TRUE
TwoVersions == [f \in File |-> IF f = Loner THEN "v2" ELSE "v1"]
=============================================================================
