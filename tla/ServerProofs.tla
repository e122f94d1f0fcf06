---------------------------- MODULE ServerProofs ----------------------------
(* Proofs about Server, for every proxy depth, bucket size, refill rate,   *)
(* environment and set of requests that satisfy its assumptions.           *)
EXTENDS Server, TLAPS

USE NullAssumption

\* How far a request came, and what the stages above have established: the origin
\* was verified, the gate charged the client's address, the credential was taken.
Passed(q) ==
    /\ q.pc \in {"lookup", "allow"} =>
          /\ q.limiter \in Limiter
          /\ q.limiter = "global" => q.verdict["global"] = "none"
          /\ q.limiter = "gate" => OriginOK(q.kind)
          /\ q.verdict["gate"] = "none"
    /\ q.pc = "origin" => q.verdict["gate"] = "none"
    /\ q.pc = "allow" => q.key = ClientIP(q.kind)
    /\ q.pc \in {"auth", "token", "begin", "renew", "route", "work", "query"} =>
          /\ OriginOK(q.kind)
          /\ Gated(q.kind) => q.verdict["gate"] = "allowed" /\ q.key = ClientIP(q.kind)
    /\ q.pc \in {"token", "begin", "renew"} => OAuthMode(cfg)
    /\ q.pc \in {"begin", "renew"} => q.kind.cred = "oauth"
    /\ (q.pc \in {"route", "work", "query"} /\ q.kind.path = "mcp") =>
          Accepts(cfg, q.kind.cred)
    /\ (q.pc \in {"work", "query"} /\ q.kind.path = "authorize") => OAuthMode(cfg)
    /\ q.pc \notin {"work", "query"} => q.ran = 0
    /\ q.pc = "work" => q.ran < MaxStatements

\* The bucket a request holds between its lookup and its Allow is still in the
\* map: nobody has looked it up for at most as long as the request has been stalled.
Held(q) ==
    q.pc = "allow" => /\ q.lim = NULL
                      /\ bucket[q.limiter][q.key] # NULL
                      /\ bucket[q.limiter][q.key].idle <= q.stall

\* A bucket that was not looked up refills, but for the time a request may have
\* been stalled before it took its token.
Refilled(l, a) ==
    bucket[l][a] # NULL =>
        \/ bucket[l][a].level = Burst[l]
        \/ bucket[l][a].level >= Rate[l] * (bucket[l][a].idle - Stall)

ServerInv ==
    /\ TypeOK
    /\ \A r \in Req : Passed(req[r]) /\ Held(req[r])
    /\ \A l \in Limiter, a \in Addr : Refilled(l, a)

\* The counters have the bounds they are assumed to have.
LEMMA Numbers ==
    /\ MaxStatements \in Nat /\ MaxStatements > 0 /\ Hops \in Nat /\ Hops > 0
    /\ TTL \in Nat /\ Stall \in Nat /\ Edge \in Addr
BY ServerAssumption

\* And so have the buckets.
LEMMA Rates ==
    ASSUME NEW l \in Limiter
    PROVE  Burst[l] \in Nat /\ Burst[l] > 0 /\ Rate[l] \in Nat
BY ServerAssumption

\* A slot that is free and one that was just taken.
LEMMA FreeRow == Free \in Row
BY Numbers DEF Free, Row, Limiter, Verdict

\* The kinds the server is explored with are requests.
LEMMA KindsAreKinds ==
    ASSUME TypeOK, NEW r \in Req, NEW k \in Kinds(cfg, r)
    PROVE  k \in Kind
BY ServerAssumption DEF TypeOK

\* Nobody has asked yet.
LEMMA ServerInit == Init => ServerInv
<1> SUFFICES ASSUME Init PROVE ServerInv
  OBVIOUS
<1>1. TypeOK
  BY FreeRow DEF Init, TypeOK, Free
<1>2. \A r \in Req : Passed(req[r]) /\ Held(req[r])
  BY DEF Init, Passed, Held, Free
<1>3. \A l \in Limiter, a \in Addr : Refilled(l, a)
  BY DEF Init, Refilled
<1> QED
  BY <1>1, <1>2, <1>3 DEF ServerInv

-----------------------------------------------------------------------------
\* A stage that moves one request on and looks up no bucket keeps the invariant
\* when the request has passed what its new stage asks for.
LEMMA OneRequest ==
    ASSUME ServerInv, NEW r \in Req, NEW q \in Row, Set(r, q), UNCHANGED <<cfg, bucket, srv>>,
           q.pc # "free" => q.kind \in Kinds(cfg, r), q.pc # "allow", Passed(q)
    PROVE  ServerInv'
<1> USE DEF ServerInv
<1>1. req' = [req EXCEPT ![r] = q] /\ req' \in [Req -> Row]
  BY DEF Set, TypeOK
<1>2. TypeOK'
  BY <1>1 DEF TypeOK
<1>3. ASSUME NEW s \in Req PROVE Passed(req[s])' /\ Held(req[s])'
  <2>1. CASE s = r
    BY <1>1, <2>1 DEF TypeOK, Passed, Held, OriginOK, Gated, ClientIP
  <2>2. CASE s # r
    <3>1. req'[s] = req[s]
      BY <1>1, <2>2 DEF TypeOK
    <3> QED
      BY <3>1 DEF Passed, Held, OriginOK, Gated, ClientIP
  <2> QED
    BY <2>1, <2>2
<1>4. \A l \in Limiter, a \in Addr : Refilled(l, a)'
  BY DEF Refilled
<1> QED
  BY <1>2, <1>3, <1>4


\* A request that starts.
LEMMA AcceptKeeps ==
    ASSUME ServerInv, NEW r \in Req, NEW k \in Kinds(cfg, r), Accept(r, k)
    PROVE  ServerInv'
<1> DEFINE q == [Free EXCEPT !.pc = "lookup", !.kind = k, !.limiter = "global"]
<1>1. k \in Kind
  BY KindsAreKinds DEF ServerInv
<1>2. q \in Row
  BY <1>1, FreeRow DEF Row, Limiter
<1>3. Passed(q)
  BY DEF Passed, Free, Limiter
<1>4. q.kind = k /\ q.pc = "lookup"
  BY DEF Free
<1> QED
  BY <1>2, <1>3, <1>4, OneRequest DEF Accept

\* What a request that is in flight looks like.
LEMMA InFlight ==
    ASSUME ServerInv, NEW r \in Req
    PROVE  /\ req[r] \in Row /\ Passed(req[r]) /\ Held(req[r])
           /\ req[r].pc # "free" => req[r].kind \in Kinds(cfg, r) /\ req[r].kind \in Kind
           /\ DOMAIN req[r] = DOMAIN Free
BY KindsAreKinds DEF ServerInv, TypeOK, Row, Free

\* A request that is answered, from wherever it was.
LEMMA ReplyKeeps ==
    ASSUME ServerInv, NEW r \in Req, req[r].pc # "free", Reply(r), UNCHANGED <<cfg, bucket, srv>>
    PROVE  ServerInv'
<1> DEFINE q == [req[r] EXCEPT !.pc = "reply", !.ran = 0]
<1>1. q \in Row /\ q.pc = "reply" /\ q.kind = req[r].kind /\ q.ran = 0
  <2>1. req[r] \in Row /\ 0 \in 0..MaxStatements
    BY InFlight, Numbers
  <2> QED
    BY <2>1 DEF Row
<1>2. Passed(q)
  BY <1>1 DEF Passed
<1>3. Set(r, q) /\ q.kind \in Kinds(cfg, r)
  BY <1>1, InFlight DEF Reply
<1> QED
  BY <1>1, <1>2, <1>3, OneRequest

\* A reply that is over leaves a free slot.
LEMMA DoneKeeps ==
    ASSUME ServerInv, NEW r \in Req, Set(r, Free), UNCHANGED <<cfg, bucket, srv>>
    PROVE  ServerInv'
<1>1. Passed(Free) /\ Free.pc = "free"
  BY DEF Passed, Free
<1> QED
  BY <1>1, FreeRow, OneRequest

\* The origin check sends a guess to the gate and everything else on.
LEMMA OriginKeeps ==
    ASSUME ServerInv, NEW r \in Req, OriginVerify(r)
    PROVE  ServerInv'
<1>1. At(r, "origin") /\ UNCHANGED <<cfg, bucket, srv>>
  BY DEF OriginVerify
<1>2. CASE ~OriginOK(req[r].kind)
  <2>1. Reply(r)
    BY <1>2 DEF OriginVerify
  <2> QED
    BY <1>1, <2>1, ReplyKeeps DEF At
<1>3. CASE OriginOK(req[r].kind)
  <2> DEFINE q == [req[r] EXCEPT !.pc = IF Gated(req[r].kind) THEN "lookup" ELSE "auth",
                                 !.limiter = "gate"]
  <2>1. /\ q \in Row /\ q.kind = req[r].kind /\ q.limiter = "gate"
        /\ q.verdict = req[r].verdict /\ q.ran = req[r].ran
        /\ q.pc \in {"lookup", "auth"} /\ (q.pc = "auth" => ~Gated(q.kind))
    BY InFlight DEF Row, Limiter
  <2>2. req[r].verdict["gate"] = "none" /\ req[r].ran = 0
    BY <1>1, InFlight DEF Passed, At
  <2>3. Passed(q)
    BY <1>3, <2>1, <2>2 DEF Passed, Limiter
  <2>4. Set(r, q) /\ q.pc # "free" /\ q.kind \in Kinds(cfg, r)
    BY <1>1, <1>3, <2>1, InFlight DEF OriginVerify, At
  <2> QED
    BY <1>1, <2>1, <2>3, <2>4, OneRequest
<1> QED
  BY <1>2, <1>3

\* Where a request may go on to while its credential is checked.
Goes(k, pc) ==
    \/ pc = "token" /\ OAuthMode(cfg)
    \/ pc \in {"begin", "renew"} /\ OAuthMode(cfg) /\ k.cred = "oauth"
    \/ pc = "route" /\ (k.path = "mcp" => Accepts(cfg, k.cred))

\* The steps of the verifier, with and without the database, answer a request or
\* let it go on.
LEMMA VerifierGoes ==
    ASSUME ServerInv, NEW r \in Req,
           Authenticate(r) \/ LookupToken(r) \/ BeginRenewal(r) \/ RenewToken(r)
    PROVE  /\ req[r].pc \in {"auth", "token", "begin", "renew"} /\ UNCHANGED <<cfg, bucket, srv>>
           /\ \/ Reply(r)
              \/ \E pc \in {"token", "begin", "renew", "route"} :
                    Set(r, [req[r] EXCEPT !.pc = pc]) /\ Goes(req[r].kind, pc)
<1> DEFINE Step == \/ Reply(r)
                   \/ \E pc \in {"token", "begin", "renew", "route"} :
                         Set(r, [req[r] EXCEPT !.pc = pc]) /\ Goes(req[r].kind, pc)
<1>1. Passed(req[r])
  BY InFlight
<1>2. ASSUME Pass(r), req[r].kind.path = "mcp" => Accepts(cfg, req[r].kind.cred) PROVE Step
  <2>1. Goes(req[r].kind, "route") /\ Set(r, [req[r] EXCEPT !.pc = "route"])
    BY <1>2 DEF Goes, Pass
  <2> QED
    BY <2>1
<1>3. ASSUME Unverified(r) PROVE Step
  BY <1>2, <1>3 DEF Unverified
<1>4. ASSUME NEW pc \in {"token", "renew"}, Ask(r, pc), Goes(req[r].kind, pc) PROVE Step
  BY <1>3, <1>4 DEF Ask
<1> HIDE DEF Step
<1>5. CASE Authenticate(r)
  <2>1. At(r, "auth") /\ UNCHANGED <<cfg, bucket, srv>>
    BY <1>5 DEF Authenticate
  <2>2. CASE req[r].kind.path # "mcp"
    <3>1. Pass(r)
      BY <1>5, <2>2 DEF Authenticate
    <3>2. Step
      BY <1>2, <2>2, <3>1
    <3> QED
      BY <2>1, <3>2 DEF At, Step
  <2>3. CASE req[r].kind.path = "mcp" /\ OAuthMode(cfg) /\ req[r].kind.cred # "none"
    <3>1. Ask(r, "token")
      BY <1>5, <2>3 DEF Authenticate
    <3>2. Goes(req[r].kind, "token")
      BY <2>3 DEF Goes
    <3> QED
      BY <1>4, <2>1, <3>1, <3>2 DEF At, Step
  <2>4. CASE req[r].kind.path = "mcp" /\ ~(OAuthMode(cfg) /\ req[r].kind.cred # "none")
    <3>1. IF Accepts(cfg, req[r].kind.cred) THEN Pass(r) ELSE Reply(r)
      BY <1>5, <2>4 DEF Authenticate
    <3>2. Step
      BY <1>2, <3>1 DEF Step
    <3> QED
      BY <2>1, <3>2 DEF At, Step
  <2> QED
    BY <2>1, <2>2, <2>3, <2>4 DEF At, Step
<1>6. CASE LookupToken(r)
  <2>1. At(r, "token") /\ UNCHANGED <<cfg, bucket, srv>> /\ OAuthMode(cfg)
    BY <1>1, <1>6 DEF LookupToken, Passed, At
  <2>2. CASE req[r].kind.cred = "oauth" /\ Set(r, [req[r] EXCEPT !.pc = "begin"])
    BY <2>1, <2>2 DEF Goes, At
  <2> QED
    BY <1>3, <1>6, <2>1, <2>2 DEF LookupToken, At, Step
<1>7. CASE BeginRenewal(r)
  <2>1. At(r, "begin") /\ UNCHANGED <<cfg, bucket, srv>> /\ Goes(req[r].kind, "renew")
    BY <1>1, <1>7 DEF BeginRenewal, Passed, At, Goes
  <2> QED
    BY <1>4, <1>7, <2>1 DEF BeginRenewal, At, Step
<1>8. CASE RenewToken(r)
  <2>1. At(r, "renew") /\ UNCHANGED <<cfg, bucket, srv>> /\ Accepts(cfg, req[r].kind.cred)
    BY <1>1, <1>8 DEF RenewToken, Passed, At, Accepts
  <2> QED
    BY <1>2, <1>3, <1>8, <2>1 DEF RenewToken, At, Step
<1> QED
  BY <1>5, <1>6, <1>7, <1>8

\* Only an accepted credential goes on to /mcp.
LEMMA AuthenticateKeeps ==
    ASSUME ServerInv, NEW r \in Req,
           Authenticate(r) \/ LookupToken(r) \/ BeginRenewal(r) \/ RenewToken(r)
    PROVE  ServerInv'
<1>1. /\ req[r].pc \in {"auth", "token", "begin", "renew"} /\ UNCHANGED <<cfg, bucket, srv>>
      /\ \/ Reply(r)
         \/ \E pc \in {"token", "begin", "renew", "route"} :
               Set(r, [req[r] EXCEPT !.pc = pc]) /\ Goes(req[r].kind, pc)
  BY VerifierGoes
<1>2. CASE Reply(r)
  BY <1>1, <1>2, ReplyKeeps
<1>3. ASSUME NEW pc \in {"token", "begin", "renew", "route"},
             Set(r, [req[r] EXCEPT !.pc = pc]), Goes(req[r].kind, pc)
      PROVE  ServerInv'
  <2> DEFINE q == [req[r] EXCEPT !.pc = pc]
  <2>1. /\ q \in Row /\ q.pc = pc /\ q.kind = req[r].kind /\ q.ran = req[r].ran
        /\ q.verdict = req[r].verdict /\ q.key = req[r].key
    BY InFlight DEF Row
  <2>2. Passed(q)
    BY <1>1, <1>3, <2>1, InFlight DEF Passed, Goes
  <2>3. Set(r, q) /\ q.kind \in Kinds(cfg, r)
    BY <1>1, <1>3, <2>1, InFlight
  <2> QED
    BY <1>1, <2>1, <2>2, <2>3, OneRequest
<1> QED
  BY <1>1, <1>2, <1>3

\* The form exists in OAuth mode only.
LEMMA RouteKeeps ==
    ASSUME ServerInv, NEW r \in Req, Route(r)
    PROVE  ServerInv'
<1>1. At(r, "route") /\ UNCHANGED <<cfg, bucket, srv>>
  BY DEF Route
<1>2. CASE Reply(r)
  BY <1>1, <1>2, ReplyKeeps DEF At
<1>3. CASE ~Reply(r)
  <2> DEFINE q == [req[r] EXCEPT !.pc = "work"]
  <2>1. (req[r].kind.path = "authorize" => OAuthMode(cfg)) /\ Set(r, q)
    BY <1>3 DEF Route
  <2>2. /\ q \in Row /\ q.pc = "work" /\ q.kind = req[r].kind /\ q.ran = req[r].ran
        /\ q.verdict = req[r].verdict /\ q.key = req[r].key
    BY InFlight DEF Row
  <2>3. Passed(q)
    BY <1>1, <2>1, <2>2, InFlight, Numbers DEF Passed, At
  <2> QED
    BY <1>1, <2>1, <2>2, <2>3, InFlight, OneRequest DEF At
<1> QED
  BY <1>2, <1>3

\* A handler runs at most MaxStatements statements.
LEMMA AcquireKeeps ==
    ASSUME ServerInv, NEW r \in Req, Acquire(r)
    PROVE  ServerInv'
<1>1. At(r, "work") /\ UNCHANGED <<cfg, bucket, srv>>
  BY DEF Acquire
<1>2. CASE srv = "poolclosed"
  BY <1>1, <1>2, ReplyKeeps DEF Acquire, At
<1>3. CASE srv # "poolclosed"
  <2> DEFINE q == [req[r] EXCEPT !.pc = "query", !.ran = @ + 1]
  <2>1. req[r].ran \in 0..MaxStatements - 1
    BY <1>1, InFlight, Numbers DEF Row, Passed, At
  <2>2. /\ q \in Row /\ q.pc = "query" /\ q.kind = req[r].kind
        /\ q.verdict = req[r].verdict /\ q.key = req[r].key
    <3>1. req[r] \in Row /\ req[r].ran + 1 \in 0..MaxStatements
      BY <2>1, InFlight, Numbers
    <3> QED
      BY <3>1 DEF Row
  <2>3. Passed(q)
    BY <1>1, <2>2, InFlight DEF Passed, At
  <2>4. Set(r, q)
    BY <1>3 DEF Acquire
  <2> QED
    BY <1>1, <2>2, <2>3, <2>4, InFlight, OneRequest DEF At
<1> QED
  BY <1>2, <1>3

\* A statement that ends lets its request go on, or reply.
LEMMA QueryDoneKeeps ==
    ASSUME ServerInv, NEW r \in Req, QueryDone(r)
    PROVE  ServerInv'
<1>1. At(r, "query") /\ UNCHANGED <<cfg, bucket, srv>>
  BY DEF QueryDone
<1>2. CASE Reply(r)
  BY <1>1, <1>2, ReplyKeeps DEF At
<1>3. CASE ~Reply(r)
  <2> DEFINE q == [req[r] EXCEPT !.pc = "work"]
  <2>1. req[r].ran < MaxStatements /\ Set(r, q)
    BY <1>3 DEF QueryDone
  <2>2. /\ q \in Row /\ q.pc = "work" /\ q.kind = req[r].kind /\ q.ran = req[r].ran
        /\ q.verdict = req[r].verdict /\ q.key = req[r].key
    BY InFlight DEF Row
  <2>3. Passed(q)
    BY <1>1, <2>1, <2>2, InFlight DEF Passed, At
  <2> QED
    BY <1>1, <2>1, <2>2, <2>3, InFlight, OneRequest DEF At
<1> QED
  BY <1>2, <1>3

-----------------------------------------------------------------------------
\* The proxies' own entries are a sequence of addresses.
LEMMA Repeated ==
    ASSUME NEW S, NEW n \in Nat, NEW e \in S
    PROVE  [i \in 1..n |-> e] \in Seq(S) /\ Len([i \in 1..n |-> e]) = n
OBVIOUS

\* What a proxy appends is the last entry.
LEMMA Appended ==
    ASSUME NEW S, NEW s \in Seq(S), NEW e \in S
    PROVE  s \o <<e>> \in Seq(S) /\ Len(s \o <<e>>) = Len(s) + 1 /\ (s \o <<e>>)[Len(s) + 1] = e
OBVIOUS

\* The entry that many from the right.
LEMMA AtHop ==
    ASSUME NEW S, NEW h \in Seq(S), NEW t \in Seq(S), Len(h) >= 1,
           NEW n \in Nat, Len(t) = n - 1, NEW w, w = h \o t
    PROVE  Len(w) >= n /\ w[Len(w) - n + 1] = h[Len(h)] /\ w \in Seq(S)
OBVIOUS

\* A rate times a time that has not passed is nothing to wait for.
LEMMA NotPositive ==
    ASSUME NEW n \in Nat, NEW x \in Int, x <= 0
    PROVE  n * x \in Int /\ n * x <= 0
OBVIOUS

\* The longer the time, the more it earns.
LEMMA Longer ==
    ASSUME NEW n \in Nat, NEW x \in Int, NEW y \in Int, x <= y
    PROVE  n * x <= n * y
OBVIOUS

\* One tick more earns at most one rate more.
LEMMA OneMore ==
    ASSUME NEW n \in Nat, NEW x \in Int, NEW y \in Int, y <= x + 1
    PROVE  n * y <= n * x + n
<1>1. n * (x + 1) = n * x + n
  OBVIOUS
<1>2. n * y <= n * (x + 1)
  OBVIOUS
<1> QED
  BY <1>1, <1>2

\* The address a request is charged to.
LEMMA ClientIPIsAddr ==
    ASSUME NEW k \in Kind
    PROVE  ClientIP(k) \in Addr
<1>1. k.spoof \in Seq(Addr) /\ k.addr \in Addr /\ k.edge \in BOOLEAN
  BY DEF Kind
<1>2. [i \in 1..Hops - 1 |-> Edge] \in Seq(Addr)
  <2>1. Hops - 1 \in Nat
    BY Numbers
  <2> QED
    BY <2>1, Repeated, Numbers
<1>3. Forwarded(k) \in Seq(Addr) /\ RemoteAddr(k) \in Addr
  <2> DEFINE s == k.spoof
             e == k.addr
             proxies == [i \in 1..Hops - 1 |-> Edge]
             seen == s \o <<e>>
  <2>1. s \in Seq(Addr) /\ e \in Addr /\ proxies \in Seq(Addr)
    BY <1>1, <1>2
  <2> HIDE DEF s, e, proxies
  <2>2. seen \in Seq(Addr)
    BY <2>1, Appended
  <2> HIDE DEF seen
  <2>3. seen \o proxies \in Seq(Addr)
    BY <2>1, <2>2
  <2>4. Forwarded(k) = IF k.edge THEN seen \o proxies ELSE k.spoof
    BY DEF Forwarded, seen, s, e, proxies
  <2>5. RemoteAddr(k) \in Addr
    BY <1>1, Numbers DEF RemoteAddr
  <2> QED
    BY <1>1, <2>3, <2>4, <2>5
<1>4. CASE Len(Forwarded(k)) >= Hops
  <2>1. Len(Forwarded(k)) - Hops + 1 \in 1..Len(Forwarded(k))
    BY <1>3, <1>4, Numbers
  <2> QED
    BY <1>3, <2>1 DEF ClientIP
<1> QED
  BY <1>3, <1>4 DEF ClientIP

\* Behind the distribution the entry that counts is the one the distribution
\* appended, whatever the client wrote in front of it.
LEMMA EdgeSeesTheClient ==
    ASSUME NEW k \in Kind, k.edge, cfg.proxy
    PROVE  ClientIP(k) = k.addr
<1> DEFINE n == Hops - 1
           proxies == [i \in 1..n |-> Edge]
           seen == k.spoof \o <<k.addr>>
<1>1. k.spoof \in Seq(Addr) /\ k.addr \in Addr
  BY DEF Kind
<1>2. proxies \in Seq(Addr) /\ Len(proxies) = Hops - 1
  <2>1. n \in Nat
    BY Numbers
  <2> QED
    BY <2>1, Repeated, Numbers
<1>3. seen \in Seq(Addr) /\ Len(seen) >= 1 /\ seen[Len(seen)] = k.addr
  <2> DEFINE s == k.spoof
             e == k.addr
  <2> HIDE DEF s, e
  <2>1. s \in Seq(Addr) /\ e \in Addr
    BY <1>1 DEF s, e
  <2>2. s \o <<e>> \in Seq(Addr) /\ Len(s \o <<e>>) >= 1 /\ (s \o <<e>>)[Len(s \o <<e>>)] = e
    BY <2>1, Appended
  <2> QED
    BY <2>2 DEF s, e
<1>4. Forwarded(k) = seen \o proxies
  BY DEF Forwarded
<1> HIDE DEF proxies, seen
<1>5. Len(Forwarded(k)) >= Hops /\ Forwarded(k)[Len(Forwarded(k)) - Hops + 1] = k.addr
  BY <1>2, <1>3, <1>4, AtHop, Numbers
<1> QED
  BY <1>5 DEF ClientIP

\* A lookup leaves its bucket in the map, just seen, and everybody else's as it was.
LEMMA LookupKeeps ==
    ASSUME ServerInv, NEW r \in Req, Lookup(r)
    PROVE  ServerInv'
<1> DEFINE l == req[r].limiter
           a == ClientIP(req[r].kind)
           q == [req[r] EXCEPT !.pc = "allow", !.key = a, !.lim = NULL, !.stall = 0]
<1>1. /\ req[r].pc = "lookup" /\ bucket' = [bucket EXCEPT ![l][a] = Seen(l, a)]
      /\ req' = [req EXCEPT ![r] = q] /\ UNCHANGED <<cfg, srv>>
  BY DEF Lookup, At, Set
<1>2. l \in Limiter /\ a \in Addr /\ req[r] \in Row
  BY <1>1, InFlight, ClientIPIsAddr DEF Passed
<1>3. Seen(l, a) \in Entry /\ Seen(l, a).level <= Burst[l] /\ Seen(l, a).idle = 0
  BY <1>2, Numbers, Rates DEF ServerInv, TypeOK, Seen, Entry
<1>4. /\ q \in Row /\ q.pc = "allow" /\ q.key = a /\ q.lim = NULL /\ q.stall = 0
      /\ q.kind = req[r].kind /\ q.limiter = l /\ q.verdict = req[r].verdict
      /\ q.ran = req[r].ran
  <2>1. 0 \in 0..Stall
    BY Numbers
  <2> QED
    BY <1>2, <2>1 DEF Row
<1>5. TypeOK'
  <2>1. bucket' \in [Limiter -> [Addr -> Entry \cup {NULL}]]
    BY <1>1, <1>2, <1>3 DEF ServerInv, TypeOK
  <2>2. \A m \in Limiter, b \in Addr : bucket'[m][b] # NULL => bucket'[m][b].level <= Burst[m]
    BY <1>1, <1>2, <1>3 DEF ServerInv, TypeOK
  <2>3. req' \in [Req -> Row]
    BY <1>1, <1>4 DEF ServerInv, TypeOK
  <2>4. \A s \in Req : req'[s].pc # "free" => req'[s].kind \in Kinds(cfg, s)
    BY <1>1, <1>4, InFlight DEF ServerInv, TypeOK
  <2> QED
    BY <1>1, <2>1, <2>2, <2>3, <2>4 DEF ServerInv, TypeOK
<1> HIDE DEF q
<1>6. ASSUME NEW s \in Req PROVE Passed(req[s])'
  <2>1. Passed(req'[s])
    <3>1. CASE s = r
      BY <1>1, <1>4, <3>1, InFlight DEF Passed, ServerInv, TypeOK
    <3>2. CASE s # r
      BY <1>1, <3>2, InFlight DEF ServerInv, TypeOK
    <3> QED
      BY <3>1, <3>2
  <2> QED
    BY <1>1, <2>1 DEF Passed, OriginOK, Gated, ClientIP
<1>7. ASSUME NEW s \in Req PROVE Held(req[s])'
  <2>1. CASE s = r
    BY <1>1, <1>2, <1>3, <1>4, <2>1 DEF Held, ServerInv, TypeOK
  <2>2. CASE s # r
    <3>1. req'[s] = req[s] /\ Held(req[s]) /\ req[s] \in Row
      BY <1>1, <2>2, InFlight DEF ServerInv, TypeOK
    <3> QED
      BY <1>1, <1>2, <1>3, <3>1 DEF Held, ServerInv, TypeOK, Row
  <2> QED
    BY <2>1, <2>2
<1>8. ASSUME NEW m \in Limiter, NEW b \in Addr PROVE Refilled(m, b)'
  <2>1. CASE m = l /\ b = a
    <3>1. Rate[l] * (0 - Stall) \in Int /\ Rate[l] * (0 - Stall) <= 0
      BY <1>2, NotPositive, Numbers, Rates
    <3>2. bucket'[l][a] = Seen(l, a)
      BY <1>1, <1>2 DEF ServerInv, TypeOK
    <3>3. Seen(l, a).level \in Nat
      BY <1>3 DEF Entry
    <3> QED
      BY <1>3, <2>1, <3>1, <3>2, <3>3 DEF Refilled
  <2>2. CASE ~(m = l /\ b = a)
    <3>1. bucket'[m][b] = bucket[m][b]
      BY <1>1, <1>2, <2>2 DEF ServerInv, TypeOK
    <3> QED
      BY <3>1 DEF ServerInv, Refilled
  <2> QED
    BY <2>1, <2>2
<1> QED
  BY <1>5, <1>6, <1>7, <1>8 DEF ServerInv

\* A token is taken from the bucket in the map: the one that was looked up.
LEMMA AllowStep ==
    ASSUME ServerInv, NEW r \in Req, Allow(r)
    PROVE  LET l == req[r].limiter
               a == req[r].key
               pc == IF bucket[l][a].level >= 1 THEN After(l) ELSE "reply"
               v == IF bucket[l][a].level >= 1 THEN "allowed" ELSE "refused"
           IN  /\ req[r].pc = "allow" /\ l \in Limiter /\ a \in Addr /\ req[r] \in Row
               /\ bucket[l][a] \in Entry /\ bucket[l][a].idle <= Stall
               /\ bucket' = IF bucket[l][a].level = 0 THEN bucket
                            ELSE [bucket EXCEPT ![l][a].level = @ - 1]
               /\ req' = [req EXCEPT ![r] = [req[r] EXCEPT !.pc = pc, !.verdict[l] = v,
                                                           !.stall = 0, !.lim = NULL]]
               /\ UNCHANGED <<cfg, srv>>
<1> DEFINE l == req[r].limiter
           a == req[r].key
<1>1. At(r, "allow") /\ req[r].pc = "allow" /\ UNCHANGED <<cfg, srv>>
  BY DEF Allow, At
<1>2. req[r] \in Row /\ Passed(req[r]) /\ Held(req[r]) /\ req[r].kind \in Kind
  BY <1>1, InFlight
<1>3. l \in Limiter /\ a \in Addr /\ req[r].lim = NULL
  BY <1>1, <1>2, ClientIPIsAddr DEF Passed, Held
<1>4. bucket[l][a] \in Entry
  BY <1>1, <1>2, <1>3 DEF Held, ServerInv, TypeOK
<1>5. bucket[l][a].idle <= Stall
  BY <1>1, <1>2, <1>4, Numbers DEF Held, Row, Entry
<1>6. bucket[l][a].level \in Nat
  BY <1>4 DEF Entry
<1>7. bucket' = IF bucket[l][a].level = 0 THEN bucket
                ELSE [bucket EXCEPT ![l][a].level = @ - 1]
  BY <1>3 DEF Allow
<1>8. CASE bucket[l][a].level >= 1
  BY <1>1, <1>2, <1>3, <1>4, <1>5, <1>7, <1>8 DEF Allow, Set
<1>9. CASE ~(bucket[l][a].level >= 1)
  BY <1>1, <1>2, <1>3, <1>4, <1>5, <1>7, <1>9 DEF Allow, Set
<1> QED
  BY <1>8, <1>9

\* What is left of a bucket after a token was taken.
LEMMA Taken ==
    ASSUME NEW e \in Entry, NEW f,
           f = IF e.level = 0 THEN e ELSE [e EXCEPT !.level = @ - 1]
    PROVE  f \in Entry /\ f.idle = e.idle /\ f.level <= e.level /\ f # NULL
<1>1. e.level \in Nat /\ e = [level |-> e.level, idle |-> e.idle]
  BY DEF Entry
<1>2. CASE e.level = 0
  BY <1>1, <1>2
<1>3. CASE e.level # 0
  BY <1>1, <1>3 DEF Entry
<1> QED
  BY <1>2, <1>3

\* A request spends a token, or is refused for want of one.
LEMMA AllowKeeps ==
    ASSUME ServerInv, NEW r \in Req, Allow(r)
    PROVE  ServerInv'
<1> DEFINE l == req[r].limiter
           a == req[r].key
           e == bucket[l][a]
           pc == IF e.level >= 1 THEN After(l) ELSE "reply"
           v == IF e.level >= 1 THEN "allowed" ELSE "refused"
           q == [req[r] EXCEPT !.pc = pc, !.verdict[l] = v, !.stall = 0, !.lim = NULL]
           f == IF e.level = 0 THEN e ELSE [e EXCEPT !.level = @ - 1]
<1>1. /\ req[r].pc = "allow" /\ l \in Limiter /\ a \in Addr /\ req[r] \in Row
      /\ e \in Entry /\ e.idle <= Stall
      /\ bucket' = IF e.level = 0 THEN bucket ELSE [bucket EXCEPT ![l][a].level = @ - 1]
      /\ req' = [req EXCEPT ![r] = q] /\ UNCHANGED <<cfg, srv>>
  BY AllowStep
<1>2. f \in Entry /\ f.idle = e.idle /\ f.level <= e.level /\ f # NULL
  BY <1>1, Taken
<1>3. /\ bucket'[l][a] = f
      /\ \A m \in Limiter, b \in Addr : ~(m = l /\ b = a) => bucket'[m][b] = bucket[m][b]
      /\ bucket' \in [Limiter -> [Addr -> Entry \cup {NULL}]]
  <2>1. CASE e.level = 0
    BY <1>1, <2>1 DEF ServerInv, TypeOK
  <2>2. CASE e.level # 0
    <3>1. bucket' = [bucket EXCEPT ![l][a] = f]
      BY <1>1, <2>2
    <3>2. bucket \in [Limiter -> [Addr -> Entry \cup {NULL}]] /\ l \in Limiter /\ a \in Addr
      BY <1>1 DEF ServerInv, TypeOK
    <3> HIDE DEF f, l, a
    <3> QED
      BY <1>2, <3>1, <3>2
  <2> QED
    BY <2>1, <2>2
<1> HIDE DEF f
<1>4. /\ q \in Row /\ q.pc = pc /\ q.kind = req[r].kind /\ q.limiter = l
      /\ q.key = a /\ q.ran = req[r].ran /\ q.lim = NULL
      /\ q.verdict = [req[r].verdict EXCEPT ![l] = v]
  <2>1. pc \in {"origin", "auth", "reply"} /\ v \in Verdict /\ 0 \in 0..Stall
    BY Numbers DEF After, Verdict
  <2> HIDE DEF pc, v
  <2>2. [req[r].verdict EXCEPT ![l] = v] \in [Limiter -> Verdict]
    BY <1>1, <2>1 DEF Row
  <2> QED
    BY <1>1, <2>1, <2>2 DEF Row
<1> HIDE DEF q
<1>5. TypeOK'
  <2>1. \A m \in Limiter, b \in Addr : bucket'[m][b] # NULL => bucket'[m][b].level <= Burst[m]
    <3>1. e.level \in Nat /\ f.level \in Nat /\ Burst[l] \in Nat /\ e # NULL
      BY <1>1, <1>2, Rates DEF Entry
    <3>2. e.level <= Burst[l]
      BY <1>1, <3>1 DEF ServerInv, TypeOK
    <3> QED
      BY <1>2, <1>3, <3>1, <3>2 DEF ServerInv, TypeOK
  <2>2. req' \in [Req -> Row]
    BY <1>1, <1>4 DEF ServerInv, TypeOK
  <2>3. \A s \in Req : req'[s].pc # "free" => req'[s].kind \in Kinds(cfg, s)
    BY <1>1, <1>4, InFlight DEF ServerInv, TypeOK
  <2> QED
    BY <1>1, <1>3, <2>1, <2>2, <2>3 DEF ServerInv, TypeOK
<1>6. Passed(q)
  <2>1. Passed(req[r]) /\ req[r].verdict \in [Limiter -> Verdict]
    BY <1>1, InFlight DEF Row
  <2>2. CASE l = "global"
    BY <1>1, <1>4, <2>1, <2>2 DEF Passed, After, Limiter
  <2>3. CASE l = "gate"
    BY <1>1, <1>4, <2>1, <2>3 DEF Passed, After, Limiter
  <2> QED
    BY <1>1, <2>2, <2>3 DEF Limiter
<1>7. ASSUME NEW s \in Req PROVE Passed(req[s])'
  <2>1. Passed(req'[s])
    BY <1>1, <1>6, InFlight DEF ServerInv, TypeOK
  <2> QED
    BY <1>1, <2>1 DEF Passed, OriginOK, Gated, ClientIP
<1>8. ASSUME NEW s \in Req PROVE Held(req[s])'
  <2>1. CASE s = r
    BY <1>1, <1>4, <2>1 DEF Held, ServerInv, TypeOK, After
  <2>2. CASE s # r
    <3>1. req'[s] = req[s] /\ Held(req[s])
      BY <1>1, <2>2, InFlight DEF ServerInv, TypeOK
    <3>2. CASE req[s].pc = "allow"
      <4>1. req[s].limiter \in Limiter /\ req[s].key \in Addr
        BY <3>2, InFlight, ClientIPIsAddr DEF Passed
      <4>2. bucket'[req[s].limiter][req[s].key] # NULL
        BY <1>2, <1>3, <3>1, <3>2, <4>1 DEF Held
      <4>3. bucket'[req[s].limiter][req[s].key].idle = bucket[req[s].limiter][req[s].key].idle
        BY <1>2, <1>3, <4>1
      <4> QED
        BY <3>1, <3>2, <4>2, <4>3 DEF Held
    <3> QED
      BY <3>1, <3>2 DEF Held
  <2> QED
    BY <2>1, <2>2
<1>9. ASSUME NEW m \in Limiter, NEW b \in Addr PROVE Refilled(m, b)'
  <2>1. CASE m = l /\ b = a
    <3>1. e.idle - Stall \in Int /\ e.idle - Stall <= 0 /\ f.level \in Nat
      BY <1>1, <1>2, Numbers DEF Entry
    <3>2. Rate[l] * (e.idle - Stall) \in Int /\ Rate[l] * (e.idle - Stall) <= 0
      BY <1>1, <3>1, NotPositive, Rates
    <3> QED
      BY <1>2, <1>3, <2>1, <3>1, <3>2 DEF Refilled
  <2>2. CASE ~(m = l /\ b = a)
    BY <1>3, <2>2 DEF ServerInv, Refilled
  <2> QED
    BY <2>1, <2>2
<1> QED
  BY <1>5, <1>7, <1>8, <1>9 DEF ServerInv

-----------------------------------------------------------------------------
\* A tick ages what was not looked up and refills it; a stalled request is still
\* within its time.
LEMMA TickKeeps ==
    ASSUME ServerInv, Tick
    PROVE  ServerInv'
<1> DEFINE q(r) == IF At(r, "allow") THEN [req[r] EXCEPT !.stall = @ + 1] ELSE req[r]
           f(l, a) == IF bucket[l][a] = NULL THEN NULL
                      ELSE [level |-> Capped(bucket[l][a].level + Rate[l], Burst[l]),
                            idle |-> Capped(bucket[l][a].idle + 1, TTL + 1)]
<1>1. /\ bucket' = [l \in Limiter |-> [a \in Addr |-> f(l, a)]]
      /\ req' = [r \in Req |-> q(r)] /\ UNCHANGED <<cfg, srv>>
      /\ \A r \in Req : At(r, "allow") => req[r].stall < Stall
  BY DEF Tick
<1>2. ASSUME NEW l \in Limiter, NEW a \in Addr, bucket[l][a] # NULL
      PROVE  /\ f(l, a) \in Entry /\ f(l, a) # NULL
             /\ f(l, a).level = Capped(bucket[l][a].level + Rate[l], Burst[l])
             /\ f(l, a).level <= Burst[l] /\ bucket[l][a].level \in Nat
             /\ bucket[l][a].idle \in 0..TTL + 1
             /\ f(l, a).idle = Capped(bucket[l][a].idle + 1, TTL + 1)
  <2>1. bucket[l][a] \in Entry
    BY <1>2 DEF ServerInv, TypeOK
  <2>2. bucket[l][a].level \in Nat /\ bucket[l][a].idle \in 0..TTL + 1
    BY <2>1 DEF Entry
  <2>3. /\ Capped(bucket[l][a].level + Rate[l], Burst[l]) \in 0..Burst[l]
        /\ Capped(bucket[l][a].idle + 1, TTL + 1) \in 0..TTL + 1
    BY <2>2, Numbers, Rates DEF Capped
  <2>4. Burst[l] \in Nat
    BY Rates
  <2>5. f(l, a) = [level |-> Capped(bucket[l][a].level + Rate[l], Burst[l]),
                   idle |-> Capped(bucket[l][a].idle + 1, TTL + 1)]
    BY <1>2
  <2> HIDE DEF f
  <2>6. f(l, a) \in Entry
    BY <2>3, <2>4, <2>5 DEF Entry
  <2> QED
    BY <2>2, <2>3, <2>4, <2>5, <2>6
<1>3. ASSUME NEW r \in Req
      PROVE  /\ q(r) \in Row /\ q(r).pc = req[r].pc /\ q(r).kind = req[r].kind
             /\ q(r).limiter = req[r].limiter /\ q(r).verdict = req[r].verdict
             /\ q(r).lim = req[r].lim /\ q(r).key = req[r].key /\ q(r).ran = req[r].ran
             /\ req[r].pc = "allow" => q(r).stall = req[r].stall + 1
  <2>1. req[r] \in Row /\ req[r].stall \in 0..Stall
    BY InFlight DEF Row
  <2>2. CASE At(r, "allow")
    <3>1. req[r].stall + 1 \in 0..Stall
      BY <1>1, <2>1, <2>2, Numbers
    <3>2. q(r) = [req[r] EXCEPT !.stall = @ + 1]
      BY <2>2
    <3> QED
      BY <2>1, <3>1, <3>2 DEF Row
  <2>3. CASE ~At(r, "allow")
    BY <2>1, <2>3 DEF At
  <2> QED
    BY <2>2, <2>3
<1>4. \A l \in Limiter, a \in Addr : bucket[l][a] = NULL => f(l, a) = NULL
  OBVIOUS
<1> HIDE DEF f, q
<1>5. TypeOK'
  <2>1. bucket' \in [Limiter -> [Addr -> Entry \cup {NULL}]]
    BY <1>1, <1>2, <1>4
  <2>2. \A l \in Limiter, a \in Addr : bucket'[l][a] # NULL => bucket'[l][a].level <= Burst[l]
    BY <1>1, <1>2, <1>4
  <2>3. req' \in [Req -> Row] /\ \A r \in Req : req'[r].pc # "free" => req'[r].kind \in Kinds(cfg, r)
    BY <1>1, <1>3, InFlight
  <2> QED
    BY <1>1, <2>1, <2>2, <2>3 DEF ServerInv, TypeOK
<1>6. ASSUME NEW r \in Req PROVE Passed(req[r])'
  <2>1. Passed(q(r))
    BY <1>3, InFlight DEF Passed
  <2> QED
    BY <1>1, <2>1 DEF Passed, OriginOK, Gated, ClientIP
<1>7. ASSUME NEW r \in Req PROVE Held(req[r])'
  <2>1. CASE req[r].pc = "allow"
    <3> DEFINE l == req[r].limiter
               a == req[r].key
    <3>1. Held(req[r]) /\ l \in Limiter /\ a \in Addr /\ req[r].stall \in 0..Stall
      BY <2>1, InFlight, ClientIPIsAddr DEF Passed, Row
    <3>2. bucket[l][a] # NULL /\ bucket[l][a].idle <= req[r].stall /\ req[r].lim = NULL
      BY <2>1, <3>1 DEF Held
    <3>3. f(l, a).idle <= req[r].stall + 1
      <4>1. bucket[l][a].idle \in 0..TTL + 1 /\ f(l, a).idle = Capped(bucket[l][a].idle + 1, TTL + 1)
        BY <1>2, <3>1, <3>2
      <4> QED
        BY <3>1, <3>2, <4>1, Numbers DEF Capped
    <3>4. bucket'[l][a] = f(l, a) /\ req'[r] = q(r) /\ f(l, a) # NULL
      BY <1>1, <1>2, <3>1, <3>2
    <3> QED
      BY <1>3, <2>1, <3>2, <3>3, <3>4 DEF Held
  <2>2. CASE req[r].pc # "allow"
    BY <1>1, <1>3, <2>2 DEF Held
  <2> QED
    BY <2>1, <2>2
<1>8. ASSUME NEW l \in Limiter, NEW a \in Addr PROVE Refilled(l, a)'
  <2>1. CASE bucket[l][a] # NULL
    <3> DEFINE e == bucket[l][a]
    <3>1. /\ e.level \in Nat /\ e.idle \in 0..TTL + 1 /\ Burst[l] \in Nat /\ Rate[l] \in Nat
          /\ f(l, a).level = Capped(e.level + Rate[l], Burst[l])
          /\ f(l, a).idle = Capped(e.idle + 1, TTL + 1)
      BY <1>2, <2>1, Rates
    <3>2. e.level = Burst[l] \/ e.level >= Rate[l] * (e.idle - Stall)
      BY <2>1 DEF ServerInv, Refilled
    <3>3. CASE f(l, a).level = Burst[l]
      BY <1>1, <3>3 DEF Refilled
    <3>4. CASE f(l, a).level # Burst[l]
      <4>1. f(l, a).level = e.level + Rate[l] /\ e.level # Burst[l]
        BY <3>1, <3>4 DEF Capped
      <4>2. f(l, a).idle - Stall \in Int /\ f(l, a).idle - Stall <= (e.idle - Stall) + 1
        BY <3>1, Numbers DEF Capped
      <4>3. Rate[l] * (f(l, a).idle - Stall) <= Rate[l] * (e.idle - Stall) + Rate[l]
        BY <3>1, <4>2, OneMore, Numbers
      <4>4. f(l, a).level >= Rate[l] * (f(l, a).idle - Stall)
        <5>1. /\ Rate[l] * (e.idle - Stall) \in Int /\ Rate[l] * (f(l, a).idle - Stall) \in Int
              /\ e.level >= Rate[l] * (e.idle - Stall)
          BY <3>1, <3>2, <4>1, <4>2, Numbers
        <5> QED
          BY <3>1, <4>1, <4>3, <5>1
      <4> QED
        BY <1>1, <4>4 DEF Refilled
    <3> QED
      BY <3>3, <3>4
  <2>2. CASE bucket[l][a] = NULL
    BY <1>1, <1>4, <2>2 DEF Refilled
  <2> QED
    BY <2>1, <2>2
<1> QED
  BY <1>5, <1>6, <1>7, <1>8 DEF ServerInv

\* No request is stalled for as long as a bucket is kept.
LEMMA StallShort == Stall < TTL
<1>1. "global" \in Limiter
  BY DEF Limiter
<1>2. Rate["global"] * (TTL - Stall) >= Burst["global"]
  BY <1>1, ServerAssumption
<1>3. Burst["global"] \in Nat /\ Burst["global"] > 0 /\ Rate["global"] \in Nat
  BY <1>1, Rates
<1>4. TTL \in Nat /\ Stall \in Nat
  BY Numbers
<1>5. CASE TTL - Stall <= 0
  <2>1. Rate["global"] * (TTL - Stall) \in Int /\ Rate["global"] * (TTL - Stall) <= 0
    BY <1>3, <1>4, <1>5, NotPositive
  <2> QED
    BY <1>2, <1>3, <2>1
<1>6. CASE ~(TTL - Stall <= 0)
  BY <1>4, <1>6
<1> QED
  BY <1>5, <1>6

\* A bucket that is old enough to be evicted is full.
LEMMA OldIsFull ==
    ASSUME ServerInv, NEW l \in Limiter, NEW a \in Addr, bucket[l][a] # NULL,
           bucket[l][a].idle > TTL
    PROVE  bucket[l][a].level = Burst[l]
<1> DEFINE e == bucket[l][a]
<1>1. e \in Entry /\ e.level <= Burst[l] /\ Refilled(l, a)
  BY DEF ServerInv, TypeOK
<1>2. e.level \in Nat /\ e.idle = TTL + 1
  BY <1>1, Numbers DEF Entry
<1>3. CASE e.level >= Rate[l] * (e.idle - Stall)
  <2>1. Rate[l] * (TTL - Stall) >= Burst[l]
    BY ServerAssumption
  <2>2. /\ Rate[l] \in Nat /\ Burst[l] \in Nat /\ TTL - Stall \in Int /\ e.idle - Stall \in Int
        /\ TTL - Stall <= e.idle - Stall
    BY <1>2, Numbers, Rates
  <2>3. Rate[l] * (TTL - Stall) <= Rate[l] * (e.idle - Stall)
    BY <2>2, Longer
  <2>4. Rate[l] * (TTL - Stall) \in Int /\ Rate[l] * (e.idle - Stall) \in Int
    BY <2>2
  <2> QED
    BY <1>1, <1>2, <1>3, <2>1, <2>2, <2>3, <2>4
<1> QED
  BY <1>1, <1>3 DEF Refilled

\* No bucket that a request holds is evicted.
LEMMA EvictStep ==
    ASSUME ServerInv, NEW l \in Limiter, Evict(l)
    PROVE  /\ req' = req /\ UNCHANGED <<cfg, srv>>
           /\ bucket' \in [Limiter -> [Addr -> Entry \cup {NULL}]]
           /\ \A m \in Limiter, a \in Addr :
                 \/ bucket'[m][a] = bucket[m][a]
                 \/ /\ bucket'[m][a] = NULL /\ bucket[m][a] # NULL
                    /\ bucket[m][a].idle > TTL
<1> DEFINE old == {a \in Addr : bucket[l][a] # NULL /\ bucket[l][a].idle > TTL}
<1>1. /\ bucket' = [bucket EXCEPT ![l] = [a \in Addr |-> IF a \in old THEN NULL ELSE @[a]]]
      /\ UNCHANGED <<cfg, srv>>
      /\ req' = [r \in Req |->
            IF At(r, "allow") /\ req[r].limiter = l /\ req[r].key \in old /\ req[r].lim = NULL
            THEN [req[r] EXCEPT !.lim = bucket[l][req[r].key].level] ELSE req[r]]
  BY DEF Evict
<1>2. ASSUME NEW r \in Req, At(r, "allow"), req[r].limiter = l
      PROVE  req[r].key \notin old
  <2>1. Held(req[r]) /\ req[r].stall \in 0..Stall /\ req[r].key \in Addr
    BY <1>2, InFlight, ClientIPIsAddr DEF Passed, Row, At
  <2>2. /\ bucket[l][req[r].key] # NULL /\ bucket[l][req[r].key].idle <= req[r].stall
        /\ bucket[l][req[r].key] \in Entry
    BY <1>2, <2>1 DEF Held, At, ServerInv, TypeOK
  <2>3. bucket[l][req[r].key].idle \in Nat
    BY <2>2, Numbers DEF Entry
  <2>4. ~(bucket[l][req[r].key].idle > TTL)
    BY <2>1, <2>2, <2>3, StallShort, Numbers
  <2> QED
    BY <2>4
<1>3. req' = req
  <2>1. req' = [r \in Req |-> req[r]]
    BY <1>1, <1>2
  <2> QED
    BY <2>1 DEF ServerInv, TypeOK
<1>4. bucket \in [Limiter -> [Addr -> Entry \cup {NULL}]]
  BY DEF ServerInv, TypeOK
<1>5. bucket' \in [Limiter -> [Addr -> Entry \cup {NULL}]]
  BY <1>1, <1>4
<1>6. \A m \in Limiter, a \in Addr :
          bucket'[m][a] = IF m = l /\ a \in old THEN NULL ELSE bucket[m][a]
  BY <1>1, <1>4
<1> QED
  BY <1>1, <1>3, <1>5, <1>6

\* The sweep drops idle entries only; a request that holds one keeps its level.
LEMMA EvictKeeps ==
    ASSUME ServerInv, NEW l \in Limiter, Evict(l)
    PROVE  ServerInv'
<1>1. /\ req' = req /\ UNCHANGED <<cfg, srv>>
      /\ bucket' \in [Limiter -> [Addr -> Entry \cup {NULL}]]
  BY EvictStep
<1>2. \A m \in Limiter, a \in Addr : bucket'[m][a] = bucket[m][a] \/ bucket'[m][a] = NULL
  BY EvictStep
<1>3. TypeOK'
  BY <1>1, <1>2 DEF ServerInv, TypeOK
<1>4. ASSUME NEW r \in Req PROVE Passed(req[r])'
  BY <1>1, InFlight DEF Passed, OriginOK, Gated, ClientIP
<1>5. ASSUME NEW r \in Req PROVE Held(req[r])'
  <2>1. CASE req[r].pc = "allow"
    <3> DEFINE m == req[r].limiter
               a == req[r].key
    <3>1. Held(req[r]) /\ m \in Limiter /\ a \in Addr /\ req[r].stall \in 0..Stall
      BY <2>1, InFlight, ClientIPIsAddr DEF Passed, Row
    <3>2. bucket[m][a] # NULL /\ bucket[m][a].idle <= req[r].stall
      BY <2>1, <3>1 DEF Held
    <3>3. bucket[m][a].idle \in Nat
      BY <3>1, <3>2, Numbers DEF ServerInv, TypeOK, Entry
    <3>4. ~(bucket[m][a].idle > TTL)
      BY <3>1, <3>2, <3>3, StallShort, Numbers
    <3>5. bucket'[m][a] = bucket[m][a]
      BY <3>1, <3>4, EvictStep
    <3> QED
      BY <1>1, <3>1, <3>5 DEF Held
  <2>2. CASE req[r].pc # "allow"
    BY <1>1, <2>2 DEF Held
  <2> QED
    BY <2>1, <2>2
<1>6. ASSUME NEW m \in Limiter, NEW a \in Addr PROVE Refilled(m, a)'
  BY <1>2 DEF ServerInv, Refilled
<1> QED
  BY <1>3, <1>4, <1>5, <1>6 DEF ServerInv

\* The process ends and takes its requests with it.
LEMMA ExitKeeps ==
    ASSUME ServerInv, Exit
    PROVE  ServerInv'
<1>1. UNCHANGED <<cfg, bucket>> /\ req' = [r \in Req |-> Free] /\ srv' = "exited"
  BY DEF Exit
<1>2. TypeOK'
  BY <1>1, FreeRow DEF ServerInv, TypeOK, Free
<1>3. \A r \in Req : Passed(req[r])' /\ Held(req[r])'
  BY <1>1 DEF Passed, Held, Free
<1>4. \A l \in Limiter, a \in Addr : Refilled(l, a)'
  BY <1>1 DEF ServerInv, Refilled
<1> QED
  BY <1>2, <1>3, <1>4 DEF ServerInv

\* A step that changes nothing but how far the shutdown is.
LEMMA ProcessKeeps ==
    ASSUME ServerInv, UNCHANGED <<cfg, bucket, req>>,
           srv' \in {"up", "closing", "returned", "poolclosed", "exited"}
    PROVE  ServerInv'
<1>1. TypeOK'
  BY DEF ServerInv, TypeOK
<1>2. \A r \in Req : Passed(req[r])' /\ Held(req[r])'
  BY DEF ServerInv, Passed, Held, OriginOK, Gated, ClientIP
<1>3. \A l \in Limiter, a \in Addr : Refilled(l, a)'
  BY DEF ServerInv, Refilled
<1> QED
  BY <1>1, <1>2, <1>3 DEF ServerInv

\* Every step keeps the invariant.
LEMMA ServerNext == ServerInv /\ [Next]_vars => ServerInv'
<1> SUFFICES ASSUME ServerInv, [Next]_vars PROVE ServerInv'
  OBVIOUS
<1>1. ASSUME NEW r \in Req, NEW k \in Kinds(cfg, r), Accept(r, k) PROVE ServerInv'
  BY <1>1, AcceptKeeps
<1>2. ASSUME NEW r \in Req, Lookup(r) PROVE ServerInv'
  BY <1>2, LookupKeeps
<1>3. ASSUME NEW r \in Req, Allow(r) PROVE ServerInv'
  BY <1>3, AllowKeeps
<1>4. ASSUME NEW r \in Req, OriginVerify(r) PROVE ServerInv'
  BY <1>4, OriginKeeps
<1>5. ASSUME NEW r \in Req,
             Authenticate(r) \/ LookupToken(r) \/ BeginRenewal(r) \/ RenewToken(r)
      PROVE  ServerInv'
  BY <1>5, AuthenticateKeeps
<1>6. ASSUME NEW r \in Req, Route(r) PROVE ServerInv'
  BY <1>6, RouteKeeps
<1>7. ASSUME NEW r \in Req, Acquire(r) PROVE ServerInv'
  BY <1>7, AcquireKeeps
<1>8. ASSUME NEW r \in Req, QueryDone(r) PROVE ServerInv'
  BY <1>8, QueryDoneKeeps
<1>9. ASSUME NEW r \in Req, Panic(r) PROVE ServerInv'
  BY <1>9, ReplyKeeps DEF Panic, At
<1>10. ASSUME NEW r \in Req, ClientReads(r) \/ WriteDeadline(r) PROVE ServerInv'
  BY <1>10, DoneKeeps DEF ClientReads, WriteDeadline
<1>11. CASE Tick
  BY <1>11, TickKeeps
<1>12. ASSUME NEW l \in Limiter, Evict(l) PROVE ServerInv'
  BY <1>12, EvictKeeps
<1>13. CASE Signal \/ ServeReturns \/ ClosePool
  BY <1>13, ProcessKeeps DEF Signal, ServeReturns, ClosePool
<1>14. CASE Exit
  BY <1>14, ExitKeeps
<1>15. CASE UNCHANGED vars
  <2>1. UNCHANGED <<cfg, bucket, req, srv>>
    BY <1>15 DEF vars
  <2>2. srv' \in {"up", "closing", "returned", "poolclosed", "exited"}
    BY <2>1 DEF ServerInv, TypeOK
  <2> QED
    BY <2>1, <2>2, ProcessKeeps
<1> QED
  BY <1>1, <1>2, <1>3, <1>4, <1>5, <1>6, <1>7, <1>8, <1>9, <1>10, <1>11, <1>12, <1>13, <1>14,
     <1>15 DEF Next, Work, Run, Answered, Shutdown

\* The stages, the buckets and the requests are what the code's types say, and
\* every request has passed what its stage asks for.
THEOREM ServerInvariant == Spec => []ServerInv
<1> QED
  BY ServerInit, ServerNext, PTL DEF Spec

\* The rows of the limiters' maps and the requests have their types: no level
\* exceeds its burst, no stall and no handler its bound.
THEOREM ServerTypes == Spec => []TypeOK
<1>1. ServerInv => TypeOK
  BY DEF ServerInv
<1> QED
  BY <1>1, ServerInvariant, PTL

\* The decision which credentials bearerAuth lets through and the decision which
\* bodies the tools serve agree in every environment.
THEOREM FullBodiesNeedCredential == Spec => []FullNeedsCredential
<1>1. ServerInv => FullNeedsCredential
  <2> SUFFICES ASSUME ServerInv, NEW r \in Req, req[r].pc \in {"route", "work", "query"},
                      req[r].kind.path = "mcp", Projection(cfg) = "full"
               PROVE  \/ req[r].kind.cred = "oauth" /\ OAuthMode(cfg) /\ cfg.secret
                      \/ req[r].kind.cred = "static" /\ cfg.token
    BY DEF FullNeedsCredential
  <2>1. Accepts(cfg, req[r].kind.cred)
    BY InFlight DEF Passed
  <2>2. OAuthMode(cfg) \/ cfg.token
    BY DEF Projection
  <2> QED
    BY <2>1, <2>2 DEF Accepts, OAuthMode
<1> QED
  BY <1>1, ServerInvariant, PTL

\* Behind the distribution, for every number of trusted proxies and every header
\* the client wrote, a guess is charged to the client's own address.
THEOREM GuessesAreCharged == Spec => []GuessesCharged
<1>1. ServerInv => GuessesCharged
  <2> SUFFICES ASSUME ServerInv, NEW r \in Req, req[r].pc \in {"work", "query"},
                      req[r].kind.path = "authorize", cfg.proxy, cfg.origin
               PROVE  req[r].verdict["gate"] = "allowed" /\ req[r].key = req[r].kind.addr
    BY DEF GuessesCharged
  <2>1. Passed(req[r]) /\ req[r].kind \in Kind
    BY InFlight
  <2>2. OAuthMode(cfg) /\ OriginOK(req[r].kind)
    BY <2>1 DEF Passed
  <2>3. req[r].verdict["gate"] = "allowed" /\ req[r].key = ClientIP(req[r].kind)
    BY <2>1, <2>2 DEF Passed, Gated
  <2>4. req[r].kind.edge
    BY <2>2 DEF OriginOK
  <2> QED
    BY <2>1, <2>3, <2>4, EdgeSeesTheClient
<1> QED
  BY <1>1, ServerInvariant, PTL

-----------------------------------------------------------------------------
(* Server implements RateLimit: an evicted bucket and a full one are the   *)
(* same, and nobody holds a bucket that is no longer in the map.           *)

Verdicts == [r \in Req |-> req[r].verdict]

\* No bucket is in the map, and every bucket is full.
LEMMA LimitsInit == Init => Promised!Init
<1> SUFFICES ASSUME Init PROVE Promised!Init
  OBVIOUS
<1>1. Level = [l \in Limiter |-> [a \in Addr |-> Burst[l]]]
  BY DEF Init, Level
<1>2. [r \in Req |-> req[r].verdict] = [r \in Req |-> Promised!Undecided]
  BY DEF Init, Free, Promised!Undecided
<1> QED
  BY <1>1, <1>2 DEF Promised!Init

\* A lookup makes nothing of an address's tokens.
LEMMA LookupStutters ==
    ASSUME ServerInv, NEW r \in Req, Lookup(r)
    PROVE  Level' = Level /\ Verdicts' = Verdicts
<1> DEFINE l == req[r].limiter
           a == ClientIP(req[r].kind)
<1>1. /\ req[r].pc = "lookup" /\ bucket' = [bucket EXCEPT ![l][a] = Seen(l, a)]
      /\ req' = [req EXCEPT ![r] = [req[r] EXCEPT !.pc = "allow", !.key = a, !.lim = NULL,
                                                  !.stall = 0]]
  BY DEF Lookup, At, Set
<1>2. l \in Limiter /\ a \in Addr
  BY <1>1, InFlight, ClientIPIsAddr DEF Passed
<1>3. bucket \in [Limiter -> [Addr -> Entry \cup {NULL}]] /\ req \in [Req -> Row]
  BY DEF ServerInv, TypeOK
<1>4. /\ Seen(l, a) \in Entry /\ Seen(l, a) # NULL
      /\ Seen(l, a).level = IF bucket[l][a] = NULL THEN Burst[l] ELSE bucket[l][a].level
  BY <1>2, <1>3, Numbers, Rates DEF Seen, Entry
<1>5. ASSUME NEW m \in Limiter, NEW b \in Addr
      PROVE  (IF bucket'[m][b] = NULL THEN Burst[m] ELSE bucket'[m][b].level)
             = (IF bucket[m][b] = NULL THEN Burst[m] ELSE bucket[m][b].level)
  <2>1. CASE m = l /\ b = a
    BY <1>1, <1>2, <1>3, <1>4, <2>1
  <2>2. CASE ~(m = l /\ b = a)
    BY <1>1, <1>2, <1>3, <2>2
  <2> QED
    BY <2>1, <2>2
<1>6. Level' = Level
  BY <1>5 DEF Level
<1>7. Verdicts' = Verdicts
  <2>1. \A s \in Req : req'[s].verdict = req[s].verdict
    BY <1>1, <1>3 DEF Row
  <2> QED
    BY <2>1 DEF Verdicts
<1> QED
  BY <1>6, <1>7

\* An eviction gives nobody a token: what it removes was full.
LEMMA EvictStutters ==
    ASSUME ServerInv, NEW l \in Limiter, Evict(l)
    PROVE  Level' = Level /\ Verdicts' = Verdicts
<1>1. ASSUME NEW m \in Limiter, NEW b \in Addr
      PROVE  (IF bucket'[m][b] = NULL THEN Burst[m] ELSE bucket'[m][b].level)
             = (IF bucket[m][b] = NULL THEN Burst[m] ELSE bucket[m][b].level)
  <2>1. CASE bucket'[m][b] = bucket[m][b]
    BY <2>1
  <2>2. CASE bucket'[m][b] # bucket[m][b]
    <3>1. bucket'[m][b] = NULL /\ bucket[m][b] # NULL /\ bucket[m][b].idle > TTL
      BY <2>2, EvictStep
    <3>2. bucket[m][b].level = Burst[m]
      BY <3>1, OldIsFull
    <3> QED
      BY <3>1, <3>2
  <2> QED
    BY <2>1, <2>2
<1>2. Level' = Level
  BY <1>1 DEF Level
<1>3. req' = req
  BY EvictStep
<1> QED
  BY <1>2, <1>3 DEF Verdicts

\* The clock refills every bucket that is in the map; one that is not is full.
LEMMA TickTicks ==
    ASSUME ServerInv, Tick
    PROVE  Promised!Tick
<1>1. ASSUME NEW l \in Limiter, NEW a \in Addr
      PROVE  Level'[l][a] = Promised!Refill(l, Level[l][a])
  <2>1. Burst[l] \in Nat /\ Rate[l] \in Nat
    BY Rates
  <2>2. CASE bucket[l][a] = NULL
    <3>1. bucket'[l][a] = NULL
      BY <2>2 DEF Tick
    <3> QED
      BY <2>1, <2>2, <3>1 DEF Level, Promised!Refill
  <2>3. CASE bucket[l][a] # NULL
    <3> DEFINE f == [level |-> Capped(bucket[l][a].level + Rate[l], Burst[l]),
                     idle |-> Capped(bucket[l][a].idle + 1, TTL + 1)]
    <3>1. bucket'[l][a] = f
      BY <2>3 DEF Tick
    <3>2. f # NULL
      <4>1. bucket[l][a] \in Entry
        BY <2>3 DEF ServerInv, TypeOK
      <4>2. bucket[l][a].level \in Nat /\ bucket[l][a].idle \in 0..TTL + 1
        BY <4>1 DEF Entry
      <4>3. /\ Capped(bucket[l][a].level + Rate[l], Burst[l]) \in Nat
            /\ Capped(bucket[l][a].idle + 1, TTL + 1) \in 0..TTL + 1
        BY <2>1, <4>2, Numbers DEF Capped
      <4>4. f \in Entry
        BY <4>3 DEF Entry
      <4> QED
        BY <4>4
    <3> QED
      BY <2>3, <3>1, <3>2 DEF Level, Promised!Refill, Capped
  <2> QED
    BY <2>2, <2>3
<1>2. Level' = [l \in Limiter |-> [a \in Addr |-> Promised!Refill(l, Level[l][a])]]
  BY <1>1 DEF Level
<1>3. \A r \in Req : req'[r].verdict = req[r].verdict
  BY InFlight DEF Tick, Row
<1>4. [r \in Req |-> req[r].verdict]' = [r \in Req |-> req[r].verdict]
  BY <1>3
<1> QED
  BY <1>2, <1>4 DEF Promised!Tick

\* A function of two arguments with one value replaced.
LEMMA ExceptTwice ==
    ASSUME NEW S, NEW T, NEW f, f = [m \in S |-> [b \in T |-> f[m][b]]],
           NEW l \in S, NEW a \in T, NEW x
    PROVE  [f EXCEPT ![l][a] = x]
           = [m \in S |-> [b \in T |-> IF m = l /\ b = a THEN x ELSE f[m][b]]]
OBVIOUS

\* A bucket with a token is a bucket without it.
LEMMA TakeToken ==
    ASSUME NEW e \in Entry, e.level >= 1
    PROVE  /\ [e EXCEPT !.level = @ - 1] \in Entry
           /\ [e EXCEPT !.level = @ - 1] # NULL
           /\ [e EXCEPT !.level = @ - 1].level = e.level - 1
<1>1. [e EXCEPT !.level = @ - 1] = [level |-> e.level - 1, idle |-> e.idle]
  BY DEF Entry
<1>2. e.level - 1 \in Nat /\ e.idle \in 0..TTL + 1
  BY DEF Entry
<1> QED
  BY <1>1, <1>2 DEF Entry

\* Allow decides a request once, with the tokens of the bucket that is in the map.
LEMMA AllowDecides ==
    ASSUME ServerInv, NEW r \in Req, Allow(r)
    PROVE  \E l \in Limiter, a \in Addr : Promised!Decide(r, l, a)
<1> DEFINE l == req[r].limiter
           a == req[r].key
           e == bucket[l][a]
           pc == IF e.level >= 1 THEN After(l) ELSE "reply"
           v == IF e.level >= 1 THEN "allowed" ELSE "refused"
           V == [s \in Req |-> req[s].verdict]
<1>1. /\ req[r].pc = "allow" /\ l \in Limiter /\ a \in Addr /\ req[r] \in Row
      /\ e \in Entry /\ e.idle <= Stall
      /\ bucket' = IF e.level = 0 THEN bucket ELSE [bucket EXCEPT ![l][a].level = @ - 1]
      /\ req' = [req EXCEPT ![r] = [req[r] EXCEPT !.pc = pc, !.verdict[l] = v, !.stall = 0,
                                                  !.lim = NULL]]
  BY AllowStep
<1>2. bucket \in [Limiter -> [Addr -> Entry \cup {NULL}]] /\ req \in [Req -> Row]
  BY DEF ServerInv, TypeOK
<1>3. req[r].verdict[l] = "none" /\ req[r].verdict \in [Limiter -> Verdict]
  BY <1>1, InFlight DEF Passed, Limiter, Row
<1>4. e.level \in Nat /\ e # NULL /\ Level[l][a] = e.level
  BY <1>1 DEF Entry, Level
<1>5. V' = [V EXCEPT ![r][l] = v]
  <2>1. req'[r].verdict = [req[r].verdict EXCEPT ![l] = v]
    BY <1>1, <1>2, <1>3 DEF Row
  <2>2. \A s \in Req : s # r => req'[s].verdict = req[s].verdict
    BY <1>1, <1>2
  <2> QED
    BY <2>1, <2>2
<1>6. Level' = IF e.level >= 1 THEN [Level EXCEPT ![l][a] = @ - 1] ELSE Level
  <2>1. CASE e.level >= 1
    <3> DEFINE f == [e EXCEPT !.level = @ - 1]
    <3>0. e \in Entry
      BY <1>1
    <3>1. f \in Entry /\ f # NULL /\ f.level = e.level - 1
      BY <2>1, <3>0, TakeToken
    <3>2. bucket' = [bucket EXCEPT ![l][a] = f]
      BY <1>1, <1>4, <2>1, SMTT(40)
    <3> HIDE DEF f
    <3>3. ASSUME NEW m \in Limiter, NEW b \in Addr
          PROVE  Level'[m][b] = IF m = l /\ b = a THEN e.level - 1 ELSE Level[m][b]
      <4>1. CASE m = l /\ b = a
        <5>1. bucket'[m][b] = f
          BY <1>1, <1>2, <3>2, <4>1
        <5> QED
          BY <3>1, <4>1, <5>1 DEF Level
      <4>2. CASE ~(m = l /\ b = a)
        <5>1. bucket'[m][b] = bucket[m][b]
          BY <1>1, <1>2, <3>2, <4>2
        <5> QED
          BY <4>2, <5>1 DEF Level
      <4> QED
        BY <4>1, <4>2
    <3>4. Level' = [m \in Limiter |-> [b \in Addr |->
                      IF m = l /\ b = a THEN e.level - 1 ELSE Level[m][b]]]
      BY <3>3 DEF Level
    <3>5. Level = [m \in Limiter |-> [b \in Addr |-> Level[m][b]]]
      BY DEF Level
    <3>6. [Level EXCEPT ![l][a] = e.level - 1]
          = [m \in Limiter |-> [b \in Addr |->
               IF m = l /\ b = a THEN e.level - 1 ELSE Level[m][b]]]
      BY <1>1, <3>5, ExceptTwice
    <3>7. Level' = [Level EXCEPT ![l][a] = e.level - 1]
      BY <3>4, <3>6
    <3> QED
      BY <1>4, <2>1, <3>7
  <2>2. CASE ~(e.level >= 1)
    <3>1. bucket' = bucket
      BY <1>1, <1>4, <2>2
    <3> QED
      BY <2>2, <3>1 DEF Level
  <2> QED
    BY <2>1, <2>2
<1>7. PICK m \in Limiter, b \in Addr : m = l /\ b = a
  BY <1>1
<1>8. V[r][m] = "none" /\ Level[m][b] = e.level /\ V' = [V EXCEPT ![r][m] = v]
  BY <1>3, <1>4, <1>5, <1>7
<1>9. CASE e.level >= 1
  <2>1. Level' = [Level EXCEPT ![m][b] = @ - 1]
    BY <1>6, <1>7, <1>9
  <2>2. V' = [V EXCEPT ![r][m] = "allowed"]
    BY <1>8, <1>9
  <2>3. Promised!Decide(r, m, b)
    BY <1>8, <1>9, <2>1, <2>2 DEF Promised!Decide
  <2> QED
    BY <2>3
<1>10. CASE ~(e.level >= 1)
  <2>1. Level' = Level
    BY <1>6, <1>10
  <2>2. V' = [V EXCEPT ![r][m] = "refused"]
    BY <1>8, <1>10
  <2>3. Promised!Decide(r, m, b)
    BY <1>8, <1>10, <2>1, <2>2 DEF Promised!Decide
  <2> QED
    BY <2>3
<1> QED
  BY <1>9, <1>10

\* A stage that leaves the verdicts and the buckets alone.
LEMMA StageStutters ==
    ASSUME ServerInv, NEW r \in Req, NEW q, Set(r, q), q.verdict = req[r].verdict, bucket' = bucket
    PROVE  Level' = Level /\ Verdicts' = Verdicts
<1>1. req' = [req EXCEPT ![r] = q] /\ req \in [Req -> Row]
  BY DEF Set, ServerInv, TypeOK
<1>2. \A s \in Req : req'[s].verdict = req[s].verdict
  BY <1>1
<1> QED
  BY <1>2 DEF Level, Verdicts

\* Every row has the verdicts of a row.
LEMMA VerdictKept ==
    ASSUME ServerInv, NEW r \in Req
    PROVE  /\ \A pc : [req[r] EXCEPT !.pc = pc].verdict = req[r].verdict
           /\ \A pc, l : [req[r] EXCEPT !.pc = pc, !.limiter = l].verdict = req[r].verdict
           /\ \A pc, n : [req[r] EXCEPT !.pc = pc, !.ran = n].verdict = req[r].verdict
<1>1. req[r] \in Row
  BY InFlight
<1> QED
  BY <1>1 DEF Row

\* A slot that is free again, or taken by a new request, has no verdict.
LEMMA SlotForgets ==
    ASSUME ServerInv, NEW r \in Req, NEW q, Set(r, q), q.verdict = Free.verdict, bucket' = bucket
    PROVE  Promised!Forget(r)
<1> DEFINE V == [s \in Req |-> req[s].verdict]
<1>1. req' = [req EXCEPT ![r] = q] /\ req \in [Req -> Row]
  BY DEF Set, ServerInv, TypeOK
<1>2. q.verdict = Promised!Undecided
  BY DEF Free, Promised!Undecided
<1>3. V' = [V EXCEPT ![r] = Promised!Undecided]
  BY <1>1, <1>2
<1>4. Level' = Level
  BY DEF Level
<1> QED
  BY <1>3, <1>4 DEF Promised!Forget

\* The process takes all requests with it.
LEMMA ExitForgets ==
    ASSUME Exit
    PROVE  Promised!ForgetAll
<1>1. [r \in Req |-> req[r].verdict]' = [r \in Req |-> Promised!Undecided]
  BY DEF Exit, Free, Promised!Undecided
<1>2. Level' = Level
  BY DEF Exit, Level
<1> QED
  BY <1>1, <1>2 DEF Promised!ForgetAll

\* Every step of the server is a step of the promise, or none.
LEMMA LimitsNext ==
    ASSUME ServerInv, [Next]_vars
    PROVE  [Promised!Next]_(Promised!vars)
<1> DEFINE Stutter == Level' = Level /\ Verdicts' = Verdicts
<1>0. Stutter => UNCHANGED Promised!vars
  BY DEF Verdicts, Promised!vars
<1>1. ASSUME NEW r \in Req, NEW k \in Kinds(cfg, r), Accept(r, k) PROVE Promised!Next
  <2> DEFINE q == [Free EXCEPT !.pc = "lookup", !.kind = k, !.limiter = "global"]
  <2>1. Set(r, q) /\ bucket' = bucket /\ q.verdict = Free.verdict
    BY <1>1 DEF Accept, Free
  <2>2. Promised!Forget(r)
    BY <2>1, SlotForgets
  <2> QED
    BY <2>2 DEF Promised!Next
<1>2. ASSUME NEW r \in Req, Lookup(r) PROVE Stutter
  BY <1>2, LookupStutters
<1>3. ASSUME NEW r \in Req, Allow(r) PROVE Promised!Next
  <2>1. \E l \in Limiter, a \in Addr : Promised!Decide(r, l, a)
    BY <1>3, AllowDecides
  <2> QED
    BY <2>1 DEF Promised!Next
<1>4. ASSUME NEW r \in Req, Reply(r), bucket' = bucket PROVE Stutter
  BY <1>4, StageStutters, VerdictKept, ZenonT(60) DEF Reply
<1>5. ASSUME NEW r \in Req, OriginVerify(r) PROVE Stutter
  <2>1. bucket' = bucket
    BY <1>5 DEF OriginVerify
  <2>2. CASE Reply(r)
    BY <1>4, <2>1, <2>2
  <2>3. CASE ~Reply(r)
    <3> DEFINE q == [req[r] EXCEPT !.pc = IF Gated(req[r].kind) THEN "lookup" ELSE "auth",
                                   !.limiter = "gate"]
    <3>1. Set(r, q)
      BY <1>5, <2>3 DEF OriginVerify
    <3>2. q.verdict = req[r].verdict
      BY VerdictKept
    <3> QED
      BY <2>1, <3>1, <3>2, StageStutters
  <2> QED
    BY <2>2, <2>3
<1>6. ASSUME NEW r \in Req,
             Authenticate(r) \/ LookupToken(r) \/ BeginRenewal(r) \/ RenewToken(r)
      PROVE  Stutter
  <2>1. bucket' = bucket
    BY <1>6, VerifierGoes
  <2>2. CASE Reply(r)
    BY <1>4, <2>1, <2>2
  <2>3. CASE ~Reply(r)
    <3>1. PICK pc : Set(r, [req[r] EXCEPT !.pc = pc])
      BY <1>6, <2>3, VerifierGoes
    <3> QED
      BY <2>1, <3>1, StageStutters, VerdictKept
  <2> QED
    BY <2>2, <2>3
<1>7. ASSUME NEW r \in Req, Route(r) PROVE Stutter
  <2>1. bucket' = bucket
    BY <1>7 DEF Route
  <2>2. CASE Reply(r)
    BY <1>4, <2>1, <2>2
  <2>3. CASE ~Reply(r)
    BY <1>7, <2>1, <2>3, StageStutters, VerdictKept DEF Route
  <2> QED
    BY <2>2, <2>3
<1>8. ASSUME NEW r \in Req, Acquire(r) PROVE Stutter
  <2>1. bucket' = bucket
    BY <1>8 DEF Acquire
  <2>2. CASE Reply(r)
    BY <1>4, <2>1, <2>2
  <2>3. CASE ~Reply(r)
    BY <1>8, <2>1, <2>3, StageStutters, VerdictKept, ZenonT(60) DEF Acquire
  <2> QED
    BY <2>2, <2>3
<1>9. ASSUME NEW r \in Req, QueryDone(r) PROVE Stutter
  <2>1. bucket' = bucket
    BY <1>9 DEF QueryDone
  <2>2. CASE Reply(r)
    BY <1>4, <2>1, <2>2
  <2>3. CASE ~Reply(r)
    BY <1>9, <2>1, <2>3, StageStutters, VerdictKept DEF QueryDone
  <2> QED
    BY <2>2, <2>3
<1>10. ASSUME NEW r \in Req, Panic(r) PROVE Stutter
  BY <1>4, <1>10 DEF Panic
<1>11. ASSUME NEW r \in Req, ClientReads(r) \/ WriteDeadline(r) PROVE Promised!Next
  <2>1. Promised!Forget(r)
    BY <1>11, SlotForgets DEF ClientReads, WriteDeadline
  <2> QED
    BY <2>1 DEF Promised!Next
<1>12. CASE Tick
  BY <1>12, TickTicks DEF Promised!Next
<1>13. ASSUME NEW l \in Limiter, Evict(l) PROVE Stutter
  BY <1>13, EvictStutters
<1>14. ASSUME UNCHANGED <<bucket, req>> PROVE Stutter
  BY <1>14 DEF Level, Verdicts
<1>15. CASE Exit
  BY <1>15, ExitForgets DEF Promised!Next
<1> HIDE DEF Stutter
<1>16. CASE Next
  <2>1. CASE \E r \in Req : Work(r) \/ ClientReads(r) \/ \E k \in Kinds(cfg, r) : Accept(r, k)
    <3> PICK r \in Req : Work(r) \/ ClientReads(r) \/ \E k \in Kinds(cfg, r) : Accept(r, k)
      BY <2>1
    <3> QED
      BY <1>0, <1>1, <1>2, <1>3, <1>5, <1>6, <1>7, <1>8, <1>9, <1>10, <1>11
         DEF Work, Run, Answered
  <2>2. CASE Tick \/ (\E l \in Limiter : Evict(l)) \/ Signal \/ Shutdown
    BY <1>0, <1>12, <1>13, <1>14, <1>15, <2>2 DEF Signal, Shutdown, ServeReturns, ClosePool
  <2> QED
    BY <1>16, <2>1, <2>2 DEF Next
<1>17. CASE UNCHANGED vars
  BY <1>0, <1>14, <1>17 DEF vars
<1> QED
  BY <1>16, <1>17

\* For every bucket size, rate and idle time that the assumption allows, the maps
\* decide as buckets that are never evicted would.
THEOREM LimitsAreKept == Spec => LimitsKept
<1>1. Init => Promised!Init
  BY LimitsInit
<1>2. ServerInv /\ [Next]_vars => [Promised!Next]_(Promised!vars)
  BY LimitsNext
<1> QED
  BY <1>1, <1>2, ServerInvariant, PTL DEF Spec, LimitsKept, Promised!Spec
=============================================================================
