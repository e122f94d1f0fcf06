------------------------------- MODULE Server -------------------------------
(***************************************************************************)
(* cmd/server: the HTTP requests on their way through the middleware, the  *)
(* two per-address rate limiters with their evictors, the connection pool, *)
(* and the shutdown that runs beside them.  Middleware runs in the order   *)
(* of the stack: global limiter, origin check, brute-force gate of the     *)
(* OAuth POSTs, authentication, router, handler, reply.  Time is counted   *)
(* in ticks; only ages matter, so a bucket keeps how long it was not       *)
(* looked up instead of a time stamp.                                      *)
(***************************************************************************)
EXTENDS Integers, Sequences, FiniteSets

CONSTANTS Req,          \* slots for requests in flight
          Addr,         \* addresses, Edge among them
          Edge,         \* the address of the last proxy before the server
          Hops,         \* COMPLIARY_TRUSTED_PROXY_HOPS
          Burst, Rate,  \* [Limiter -> Nat]: bucket size, tokens per tick
          TTL,          \* ticks between evictions, and idle time before one
          Stall,        \* ticks a request may spend between its lookup and Allow
          Configs,      \* environments the server may be started in
          Kinds(_, _),  \* requests an environment and a slot are explored with
          MaxStatements,\* bound: statements of a handler
          NULL

Limiter == {"global", "gate"}
Verdict == {"none", "allowed", "refused"}
Path == {"mcp", "authorize", "healthz", "public"}
Credential == {"none", "static", "oauth", "wrong"}

\* url, secret, token, public, origin, proxy: the variable is set.
Config == [url: BOOLEAN, secret: BOOLEAN, token: BOOLEAN, public: BOOLEAN,
           origin: BOOLEAN, proxy: BOOLEAN]

\* "authorize" is a POST to /oauth/authorize or /oauth/token.  spoof: what the
\* client itself put into X-Forwarded-For; edge: it came through our distribution.
Kind == [path: Path, addr: Addr, spoof: Seq(Addr), edge: BOOLEAN, cred: Credential]

\* An entry of a clients map.
Entry == [level: Nat, idle: 0..TTL + 1]

ASSUME ServerAssumption ==
    /\ Edge \in Addr /\ {Hops, MaxStatements} \subseteq Nat \ {0} /\ {TTL, Stall} \subseteq Nat
    /\ Configs \subseteq Config
    /\ \A c \in Configs, r \in Req : \A k \in Kinds(c, r) : k \in Kind
    \* A bucket that was not looked up for a TTL is full again.
    /\ Burst \in [Limiter -> Nat \ {0}] /\ Rate \in [Limiter -> Nat]
    /\ \A l \in Limiter : Rate[l] * (TTL - Stall) >= Burst[l]

\* NULL is no value that a field may hold.
ASSUME NullAssumption ==
    NULL \notin Nat /\ NULL \notin Limiter /\ NULL \notin Addr /\ NULL \notin Entry

VARIABLES cfg,     \* the environment; read once
          bucket,  \* [Limiter -> [Addr -> [level, idle] or NULL]]: the clients maps
          req,     \* the requests in flight
          srv      \* the process: up, closing, returned, poolclosed, exited

vars == <<cfg, bucket, req, srv>>

\* limiter: the limiter in use; lim: the level of a bucket that left the map while
\* the request held it; verdict: as in RateLimit;
\* ran: statements of the handler.
Free == [pc |-> "free", kind |-> NULL, limiter |-> NULL, lim |-> NULL, stall |-> 0,
         verdict |-> [l \in Limiter |-> "none"], key |-> NULL, ran |-> 0]

Row == [pc: {"free", "lookup", "allow", "origin", "auth", "token", "begin", "renew", "route",
             "work", "query", "reply"},
        kind: Kind \cup {NULL}, limiter: Limiter \cup {NULL}, lim: Nat \cup {NULL},
        stall: 0..Stall, verdict: [Limiter -> Verdict], key: Addr \cup {NULL},
        ran: 0..MaxStatements]

TypeOK ==
    /\ cfg \in Configs
    /\ bucket \in [Limiter -> [Addr -> Entry \cup {NULL}]]
    /\ \A l \in Limiter, a \in Addr : bucket[l][a] # NULL => bucket[l][a].level <= Burst[l]
    /\ req \in [Req -> Row]
    /\ \A r \in Req : req[r].pc # "free" => req[r].kind \in Kinds(cfg, r)
    /\ srv \in {"up", "closing", "returned", "poolclosed", "exited"}

Init ==
    /\ cfg \in Configs
    /\ bucket = [l \in Limiter |-> [a \in Addr |-> NULL]]
    /\ req = [r \in Req |-> Free]
    /\ srv = "up"

-----------------------------------------------------------------------------
(* What run and secure decide at the start, each from the environment.     *)

\* An authorization server is built only with both variables.
OAuthMode(c) == c.url /\ c.secret

\* Full bodies are served unless no authentication is configured.
Projection(c) == IF OAuthMode(c) \/ c.token THEN "full" ELSE "reduced"

\* Mutant: without OAuth every credential is let through.
MutNoBearerAuth(c, cred) ==
    IF OAuthMode(c) THEN cred = "oauth" \/ (c.token /\ cred = "static")
    ELSE c.token \/ c.public

\* BearerFallback or TokenVerifier, else bearerAuth, else mcpReject.
Accepts(c, cred) ==
    CASE OAuthMode(c) -> cred = "oauth" \/ (c.token /\ cred = "static")
      [] ~OAuthMode(c) /\ c.token -> cred = "static"
      [] OTHER -> c.public

\* X-Forwarded-For as it arrives: every proxy appended the address it saw.
Forwarded(k) == IF k.edge THEN k.spoof \o <<k.addr>> \o [i \in 1..Hops - 1 |-> Edge]
                ELSE k.spoof
RemoteAddr(k) == IF k.edge THEN Edge ELSE k.addr

\* clientIP: the entry Hops from the right, if there is one.
ClientIP(k) ==
    IF cfg.proxy /\ Len(Forwarded(k)) >= Hops
    THEN Forwarded(k)[Len(Forwarded(k)) - Hops + 1] ELSE RemoteAddr(k)

-----------------------------------------------------------------------------
(* A request on its way down the stack.                                    *)

At(r, l) == req[r].pc = l
Set(r, row) == req' = [req EXCEPT ![r] = row]
Reply(r) == Set(r, [req[r] EXCEPT !.pc = "reply", !.ran = 0])

Accept(r, k) ==
    /\ srv = "up" /\ At(r, "free")
    /\ Set(r, [Free EXCEPT !.pc = "lookup", !.kind = k, !.limiter = "global"])
    /\ UNCHANGED <<cfg, bucket, srv>>

\* Mutant: a lookup does not count as a use.
MutSeenOnce(l, a) ==
    IF bucket[l][a] = NULL THEN [level |-> Burst[l], idle |-> 0] ELSE bucket[l][a]

\* The entry after a lookup: a new one is full, and the address was just seen.
Seen(l, a) ==
    [level |-> IF bucket[l][a] = NULL THEN Burst[l] ELSE bucket[l][a].level, idle |-> 0]

\* limiter(ip), under the mutex.
Lookup(r) ==
    LET l == req[r].limiter
        a == ClientIP(req[r].kind)
    IN  /\ At(r, "lookup")
        /\ bucket' = [bucket EXCEPT ![l][a] = Seen(l, a)]
        /\ Set(r, [req[r] EXCEPT !.pc = "allow", !.key = a, !.lim = NULL, !.stall = 0])
        /\ UNCHANGED <<cfg, srv>>

\* Where a request that was let through goes on.
After(l) == IF l = "global" THEN "origin" ELSE "auth"

\* Allow, after the mutex was released.
Allow(r) ==
    LET l == req[r].limiter
        a == req[r].key
        orphan == req[r].lim # NULL
        level == IF orphan THEN req[r].lim ELSE bucket[l][a].level
    IN  /\ At(r, "allow")
        /\ bucket' = IF orphan \/ level = 0 THEN bucket
                     ELSE [bucket EXCEPT ![l][a].level = @ - 1]
        /\ IF level >= 1
           THEN Set(r, [req[r] EXCEPT !.pc = After(l), !.verdict[l] = "allowed", !.stall = 0,
                                      !.lim = NULL])
           ELSE Set(r, [req[r] EXCEPT !.pc = "reply", !.verdict[l] = "refused", !.stall = 0,
                                      !.lim = NULL])   \* 429
        /\ UNCHANGED <<cfg, srv>>

\* oauthEndpointLimit is there in OAuth mode only.
Gated(k) == OAuthMode(cfg) /\ k.path = "authorize"

\* Mutant: requests that bypassed the distribution are let through.
MutAnyOrigin(k) == TRUE

\* originVerify: /healthz is exempt; only the distribution knows the secret.
OriginOK(k) == ~cfg.origin \/ k.path = "healthz" \/ k.edge

OriginVerify(r) ==
    /\ At(r, "origin")
    /\ IF ~OriginOK(req[r].kind) THEN Reply(r)   \* 403
       ELSE Set(r, [req[r] EXCEPT !.pc = IF Gated(req[r].kind) THEN "lookup" ELSE "auth",
                                  !.limiter = "gate"])
    /\ UNCHANGED <<cfg, bucket, srv>>

Pass(r) == Set(r, [req[r] EXCEPT !.pc = "route"])

\* BearerFallback: what is no live token of ours may be the static one; an expired
\* or unknown one, and any error of the database, is a 401.
Unverified(r) ==
    IF req[r].kind.cred = "static" /\ Accepts(cfg, "static") THEN Pass(r) ELSE Reply(r)

\* A statement of the verifier takes a connection; a closed pool gives it none.
\* Waiting for a free one counts to the statement.
Ask(r, statement) ==
    IF srv = "poolclosed" THEN Unverified(r) ELSE Set(r, [req[r] EXCEPT !.pc = statement])

\* mcpOnly, bearerAuth and mcpReject look at /mcp only.  With OAuth every bearer
\* token, also the static one, is looked up first.
Authenticate(r) ==
    LET k == req[r].kind
    IN  /\ At(r, "auth")
        /\ CASE k.path # "mcp" -> Pass(r)
             [] k.path = "mcp" /\ OAuthMode(cfg) /\ k.cred # "none" -> Ask(r, "token")
             [] OTHER -> IF Accepts(cfg, k.cred) THEN Pass(r) ELSE Reply(r)   \* 401
        /\ UNCHANGED <<cfg, bucket, srv>>

\* lookupToken: a live token of ours is renewed next.
LookupToken(r) ==
    /\ At(r, "token")
    /\ \/ req[r].kind.cred = "oauth" /\ Set(r, [req[r] EXCEPT !.pc = "begin"])
       \/ Unverified(r)
    /\ UNCHANGED <<cfg, bucket, srv>>

\* Authorize asks nobody; renewToken begins its transaction.
BeginRenewal(r) ==
    /\ At(r, "begin")
    /\ Ask(r, "renew")
    /\ UNCHANGED <<cfg, bucket, srv>>

\* renewToken: the token may have been revoked since it was looked up.
RenewToken(r) ==
    /\ At(r, "renew")
    /\ Pass(r) \/ Unverified(r)
    /\ UNCHANGED <<cfg, bucket, srv>>

\* The mux: OAuth routes exist in OAuth mode; /mcp refuses a cross-origin browser
\* and GET streams; /healthz answers at once.
Route(r) ==
    LET path == req[r].kind.path
    IN  /\ At(r, "route")
        /\ \/ path = "authorize" /\ ~OAuthMode(cfg) /\ Reply(r)   \* 404
           \/ path = "mcp" /\ Reply(r)   \* 403, 405
           \/ path = "healthz" /\ Reply(r)
           \/ /\ path # "healthz" /\ (path = "authorize" => OAuthMode(cfg))
              /\ Set(r, [req[r] EXCEPT !.pc = "work"])
        /\ UNCHANGED <<cfg, bucket, srv>>

\* The handler takes a connection; a closed pool gives it none.
Acquire(r) ==
    /\ At(r, "work")
    /\ IF srv = "poolclosed" THEN Reply(r)
       ELSE Set(r, [req[r] EXCEPT !.pc = "query", !.ran = @ + 1])
    /\ UNCHANGED <<cfg, bucket, srv>>

\* The rows are read and the connection returned before anything is written;
\* more statements may follow.
QueryDone(r) ==
    /\ At(r, "query")
    /\ \/ req[r].ran < MaxStatements /\ Set(r, [req[r] EXCEPT !.pc = "work"])
       \/ Reply(r)
    /\ UNCHANGED <<cfg, bucket, srv>>

\* recoverPanic: the handler unwinds, deferred closes included.
Panic(r) ==
    /\ req[r].pc \in {"token", "renew", "work", "query"}
    /\ Reply(r)
    /\ UNCHANGED <<cfg, bucket, srv>>

\* The client takes the reply in its own time, if ever.
ClientReads(r) ==
    /\ At(r, "reply")
    /\ Set(r, Free)
    /\ UNCHANGED <<cfg, bucket, srv>>

\* Mutant: the streams are cut and the other routes are not.
MutDeadlineOnMcp(k) == k.path = "mcp"

HasDeadline(k) == k.path # "mcp"

WriteDeadline(r) ==
    /\ At(r, "reply") /\ HasDeadline(req[r].kind)
    /\ Set(r, Free)
    /\ UNCHANGED <<cfg, bucket, srv>>

-----------------------------------------------------------------------------
(* Time, the evictors, and the end.                                        *)

\* Mutant: tokens pile up while nobody asks.
MutUncapped(n, max) == n

\* A bucket holds no more than its burst.
Capped(n, max) == IF n > max THEN max ELSE n

Tick ==
    /\ srv # "exited"
    /\ \A r \in Req : At(r, "allow") => req[r].stall < Stall
    /\ bucket' = [l \in Limiter |-> [a \in Addr |->
          IF bucket[l][a] = NULL THEN NULL
          ELSE [level |-> Capped(bucket[l][a].level + Rate[l], Burst[l]),
                idle |-> Capped(bucket[l][a].idle + 1, TTL + 1)]]]
    /\ req' = [r \in Req |-> IF At(r, "allow") THEN [req[r] EXCEPT !.stall = @ + 1] ELSE req[r]]
    /\ UNCHANGED <<cfg, srv>>

\* startEvictor: entries not seen for longer than the TTL go; whoever holds the
\* bucket keeps it.
Evict(l) ==
    LET old == {a \in Addr : bucket[l][a] # NULL /\ bucket[l][a].idle > TTL}
    IN  /\ srv \in {"up", "closing"} /\ old # {}
        /\ bucket' = [bucket EXCEPT ![l] = [a \in Addr |-> IF a \in old THEN NULL ELSE @[a]]]
        /\ req' = [r \in Req |->
              IF At(r, "allow") /\ req[r].limiter = l /\ req[r].key \in old /\ req[r].lim = NULL
              THEN [req[r] EXCEPT !.lim = bucket[l][req[r].key].level] ELSE req[r]]
        /\ UNCHANGED <<cfg, srv>>

\* SIGTERM cancels the context, which starts Shutdown and closes the listener.
Signal ==
    /\ srv = "up"
    /\ srv' = "closing"
    /\ UNCHANGED <<cfg, bucket, req>>

\* ListenAndServe returns as soon as Shutdown begins, not when it is over; serve
\* stops the evictors and returns.
ServeReturns ==
    /\ srv = "closing"
    /\ srv' = "returned"
    /\ UNCHANGED <<cfg, bucket, req>>

\* The deferred pool.Close.
ClosePool ==
    /\ srv = "returned"
    /\ srv' = "poolclosed"
    /\ UNCHANGED <<cfg, bucket, req>>

\* Mutant: a connection is held until the reply is written.
MutHeldWhileWriting == {r \in Req : req[r].pc \in {"token", "renew", "query", "reply"}}

\* The connections Close waits for: of handlers and of the token verifier.
Acquired == {r \in Req : req[r].pc \in {"token", "renew", "query"}}

\* Close has every connection back; main returns and takes the requests with it.
Exit ==
    /\ srv = "poolclosed" /\ Acquired = {}
    /\ srv' = "exited"
    /\ req' = [r \in Req |-> Free]
    /\ UNCHANGED <<cfg, bucket>>

-----------------------------------------------------------------------------
\* What a goroutine does by itself, and what it waits for the database for.
Run(r) ==
    \/ Lookup(r) \/ Allow(r) \/ OriginVerify(r) \/ Authenticate(r) \/ BeginRenewal(r)
    \/ Route(r) \/ Acquire(r) \/ WriteDeadline(r)

Answered(r) == LookupToken(r) \/ RenewToken(r) \/ QueryDone(r)

Work(r) == Run(r) \/ Answered(r) \/ Panic(r)

Shutdown == ServeReturns \/ ClosePool \/ Exit

Next ==
    \/ \E r \in Req : Work(r) \/ ClientReads(r) \/ \E k \in Kinds(cfg, r) : Accept(r, k)
    \/ Tick \/ (\E l \in Limiter : Evict(l)) \/ Signal \/ Shutdown

Spec == Init /\ [][Next]_vars

\* Goroutines are scheduled.  The landing page gives its statements three seconds;
\* nothing is assumed of the other statements, nor of clients.
FairSpec ==
    /\ Spec
    /\ \A r \in Req : /\ WF_vars(Run(r))
                      /\ WF_vars(QueryDone(r) /\ req[r].kind.path = "public")
    /\ WF_vars(Shutdown)

-----------------------------------------------------------------------------
(* Properties.                                                             *)

Level == [l \in Limiter |-> [a \in Addr |->
            IF bucket[l][a] = NULL THEN Burst[l] ELSE bucket[l][a].level]]
Promised == INSTANCE RateLimit WITH level <- Level, verdict <- [r \in Req |-> req[r].verdict]

\* The maps decide as a bucket per address that is never evicted would: the evictor
\* asks when a bucket was last looked up, not whether it is full, and still neither
\* gives an address a token it had spent nor takes one away, as long as a bucket
\* refills within the TTL.  The same assumption keeps the evictor away from a bucket
\* that was looked up and waits for its Allow.
LimitsKept == Promised!Spec

\* Whatever the environment, the two decisions agree: a request that reaches the
\* tools while they serve full bodies carried a credential the server was
\* configured with, and no anonymous one does.
FullNeedsCredential ==
    \A r \in Req : /\ req[r].pc \in {"route", "work", "query"} /\ req[r].kind.path = "mcp"
                   /\ Projection(cfg) = "full"
                   => \/ req[r].kind.cred = "oauth" /\ OAuthMode(cfg) /\ cfg.secret
                      \/ req[r].kind.cred = "static" /\ cfg.token

\* Behind the distribution, a guess at the operator secret is charged to the
\* address the distribution saw: nothing the client writes into X-Forwarded-For,
\* and no way around the distribution, reaches the form under another key.
GuessesCharged ==
    \A r \in Req : /\ req[r].pc \in {"work", "query"} /\ req[r].kind.path = "authorize"
                   /\ cfg.proxy /\ cfg.origin
                   => req[r].verdict["gate"] = "allowed" /\ req[r].key = req[r].kind.addr

\* Every statement answers: the pool sets no statement_timeout, and r.Context() has
\* no deadline and is not cancelled by Shutdown.
StatementsAnswer == \A r \in Req : []<>(req[r].pc \notin {"token", "renew", "query"})

Ends(path) == \A r \in Req :
    (req[r].pc # "free" /\ req[r].kind.path = path) ~> req[r].pc = "free"

\* Every request outside /mcp ends, also when its client never reads the reply; the
\* OAuth handlers, when their statements answer.
PublicRequestsEnd ==
    /\ Ends("healthz") /\ Ends("public")
    /\ StatementsAnswer => Ends("authorize")

\* A signal ends the process when the statements that run answer: no slow reader
\* holds a connection that pool.Close waits for, and none is taken anew.
ShutdownEnds == StatementsAnswer => (srv = "closing" ~> srv = "exited")
=============================================================================
