------------------------------ MODULE MCServer ------------------------------
(* Small instances of Server. *)
EXTENDS Server, TLC

MCAddr == {"a", "b", "edge"}
MCBurst == [global |-> 1, gate |-> 1]
MCRate == [global |-> 1, gate |-> 1]

\* Every combination of credentials, without the edge; and the deployed
\* environment.
Deployed == [url |-> TRUE, secret |-> TRUE, token |-> FALSE, public |-> FALSE,
             origin |-> TRUE, proxy |-> TRUE]
MCConfigs == {c \in Config : ~c.origin /\ ~c.proxy} \cup {Deployed}

K(path, spoof, edge, cred) ==
    [path |-> path, addr |-> "a", spoof |-> spoof, edge |-> edge, cred |-> cred]

\* At the deployed server: two requests at a time, guesses through the edge and
\* past it, with and without a header of the client's own.  Elsewhere: one request at a
\* time, the tools with every credential.
MCKinds(c, r) ==
    CASE c = Deployed /\ r = 1 ->
           {K("authorize", <<"b">>, TRUE, "none"),
            K("authorize", <<"b">>, FALSE, "none"), K("healthz", <<>>, FALSE, "none")}
      [] c = Deployed /\ r # 1 -> {K("authorize", <<>>, TRUE, "none")}
      [] c # Deployed /\ r = 1 ->
           {K("mcp", <<>>, FALSE, cred) : cred \in Credential}
           \cup {K("authorize", <<>>, FALSE, "none"), K("public", <<>>, FALSE, "none")}
      [] OTHER -> {}
=============================================================================
