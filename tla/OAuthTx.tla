------------------------------- MODULE OAuthTx -------------------------------
(***************************************************************************)
(* The operations of OAuthStore as PostgreSQL runs them: READ COMMITTED    *)
(* transactions of several server processes, statement by statement, with  *)
(* the row locks each statement takes and holds until commit or rollback.  *)
(* Requests enter through the HTTP handlers and TokenVerifier.             *)
(*                                                                         *)
(* Writes become visible at commit, so a transaction is a sequence of      *)
(* locking reads followed by one step that applies its effect.  The last   *)
(* lock a transaction needs (its client row) and its commit are one step:  *)
(* it waits for nothing in between.                                        *)
(***************************************************************************)
EXTENDS OAuthStore

CONSTANTS Worker,      \* transactions of request handlers
          Evictor,     \* evictor goroutines, one per server process
          MetadataTTL, \* cimdMetadataTTL
          MaxTxAge     \* bound on how long a transaction stays open

ASSUME TxAssumption ==
    /\ MetadataTTL \in Nat
    /\ MaxTxAge \in Nat
    /\ Worker \cap Evictor = {}
    /\ MaxTxAge <= ClientIdleTTL  \* seconds against a day

VARIABLES txn,   \* per process: its open transaction, or Idle
          held   \* row locks: [w, row, mode]

Proc == Worker \cup Evictor
Idle == [pc |-> "idle"]
txVars == <<now, client, code, family, access, refresh, used, txn, held>>

\* "X": FOR UPDATE and DELETE; "U": an UPDATE of non-key columns, and the
\* FOR KEY SHARE of a foreign-key check that precedes it on the same row.
Conflicts(m1, m2) == m1 = "X" \/ m2 = "X" \/ (m1 = "U" /\ m2 = "U")

Free(w, row, mode) ==
    \A l \in held : (l.row = row /\ l.w # w) => ~Conflicts(l.mode, mode)

\* The transaction moves on to x, holding one more lock.
Continue(w, x, row, mode) ==
    /\ txn' = [txn EXCEPT ![w] = x]
    /\ held' = held \cup {[w |-> w, row |-> row, mode |-> mode]}

\* Mutant of Finish: a rollback that is never sent leaves the locks in place.
MutLeakLocks(w) == txn' = [txn EXCEPT ![w] = Idle] /\ UNCHANGED held

\* Commit or rollback.
Finish(w) ==
    /\ txn' = [txn EXCEPT ![w] = Idle]
    /\ held' = {l \in held : l.w # w}

\* Mutant of ClockAfterWait: the clock is read before the family row is locked.
MutEarlyClock(x, row) == x.t

\* clock_timestamp() in the select list of a SELECT ... FOR UPDATE is read when
\* the row is found; after a wait it is read again only if the row changed.
ClockAfterWait(x, row) == IF row = x.seen THEN x.t ELSE now

TxInit == Init /\ txn = [w \in Proc |-> Idle] /\ held = {}

-----------------------------------------------------------------------------
(* TokenVerifier: lookupToken, the authorizer, then renewToken.            *)

\* lookupToken finds the token and the authorizer accepts; renewToken locates
\* the family (a column that never changes) and asks for its row.
BearerRequest(w, a) ==
    /\ txn[w] = Idle
    /\ Usable(a, now)
    /\ LET f == access[a].family
       IN  txn' = [txn EXCEPT ![w] =
                     [pc |-> "renewFamily", a |-> a, f |-> f, start |-> now,
                      t |-> now, seen |-> family[f]]]
    /\ UNCHANGED <<vars, held>>

\* Mutant of RenewFamily: the refresh row is updated before the family is locked.
MutRefreshFirst(w) ==
    LET x == txn[w]
        t == ClockAfterWait(x, family[x.f])
    IN  /\ x.pc = "renewFamily"
        /\ \/ /\ \A r \in LiveRefresh(x.f) : Free(w, r, "U")
              /\ held' = held \cup [w: {w}, row: LiveRefresh(x.f), mode: {"U"}]
              /\ UNCHANGED txn
           \/ /\ Free(w, x.f, "X")
              /\ family[x.f] # NULL /\ family[x.f].state = "live" /\ family[x.f].expires > t
              /\ Continue(w, [x EXCEPT !.pc = "renewAccess", !.t = t], x.f, "X")
        /\ UNCHANGED vars

RenewFamily(w) ==
    LET x == txn[w]
        t == ClockAfterWait(x, family[x.f])
    IN  /\ x.pc = "renewFamily"
        /\ Free(w, x.f, "X")
        /\ IF family[x.f] # NULL /\ family[x.f].state = "live" /\ family[x.f].expires > t
           THEN Continue(w, [x EXCEPT !.pc = "renewAccess", !.t = t], x.f, "X")
           ELSE Finish(w)
        /\ UNCHANGED vars

RenewAccess(w) ==
    LET x == txn[w]
    IN  /\ x.pc = "renewAccess"
        /\ Free(w, x.a, "X")
        /\ IF access[x.a] # NULL /\ access[x.a].expires > x.t
           THEN Continue(w, [x EXCEPT !.pc = "renewRefresh"], x.a, "X")
           ELSE Finish(w)
        /\ UNCHANGED vars

\* The UPDATE of the family's live refresh token waits for its row.
RenewRefresh(w) ==
    LET x == txn[w]
    IN  /\ x.pc = "renewRefresh"
        /\ \A r \in LiveRefresh(x.f) : Free(w, r, "U")
        /\ txn' = [txn EXCEPT ![w].pc = "renewCommit"]
        /\ held' = held \cup [w: {w}, row: LiveRefresh(x.f), mode: {"U"}]
        /\ UNCHANGED vars

RenewCommit(w) ==
    LET x == txn[w]
    IN  /\ x.pc = "renewCommit"
        /\ Free(w, family[x.f].client, "U")
        /\ RenewRows(x.a, x.f, x.t)
        /\ Finish(w)
        /\ UNCHANGED now

-----------------------------------------------------------------------------
(* handleRefreshGrant: authenticateClient, then rotateRefresh.             *)

RefreshGrant(w, r, c) ==
    /\ txn[w] = Idle
    /\ client[c] # NULL
    /\ refresh[r] # NULL
    /\ LET f == refresh[r].family
       IN  txn' = [txn EXCEPT ![w] =
                     [pc |-> "rotateFamily", r |-> r, c |-> c, f |-> f, start |-> now,
                      t |-> now, seen |-> family[f], alive |-> FALSE]]
    /\ UNCHANGED <<vars, held>>

RotateFamily(w) ==
    LET x == txn[w]
        t == ClockAfterWait(x, family[x.f])
    IN  /\ x.pc = "rotateFamily"
        /\ Free(w, x.f, "X")
        /\ IF family[x.f] # NULL /\ family[x.f].client = x.c
           THEN Continue(w, [x EXCEPT !.pc = "rotateToken", !.t = t,
                                !.alive = /\ family[x.f].state = "live"
                                          /\ family[x.f].expires > t],
                         x.f, "X")
           ELSE Finish(w)
        /\ UNCHANGED vars

\* The refresh row decides: a consumed token revokes, a live one rotates when
\* the family is alive and the authorizer, asked under the locks, agrees.
RotateToken(w) ==
    LET x == txn[w]
        row == refresh[x.r]
    IN  /\ x.pc = "rotateToken"
        /\ Free(w, x.r, "X")
        /\ \/ /\ row # NULL /\ row.state = "consumed"
              /\ Continue(w, [x EXCEPT !.pc = "replayCommit"], x.r, "X")
           \/ /\ row # NULL /\ row.state = "live" /\ row.expires > x.t /\ x.alive
              /\ Continue(w, [x EXCEPT !.pc = "rotateCommit"], x.r, "X")
           \/ /\ row = NULL \/ row.state # "consumed"
              /\ Finish(w)
        /\ UNCHANGED vars

RotateCommit(w, a2, r2) ==
    LET x == txn[w]
    IN  /\ x.pc = "rotateCommit"
        /\ Free(w, x.c, "U")
        /\ {a2, r2} \cap used = {}
        /\ RotateRows(x.r, x.f, a2, r2, x.t)
        /\ Finish(w)
        /\ UNCHANGED now

ReplayCommit(w) ==
    /\ txn[w].pc = "replayCommit"
    /\ RevokeFamily(txn[w].f)
    /\ Finish(w)
    /\ UNCHANGED now

-----------------------------------------------------------------------------
(* handleAuthCodeGrant: authenticateClient, then exchangeCode.             *)

CodeGrant(w, k, c, b) ==
    /\ txn[w] = Idle
    /\ client[c] # NULL
    /\ code[k] # NULL
    /\ txn' = [txn EXCEPT ![w] =
                 [pc |-> "exchangeCode", k |-> k, c |-> c, b |-> b, start |-> now,
                  t |-> now, seen |-> code[k]]]
    /\ UNCHANGED <<vars, held>>

\* Mutant of ExchangeLock: the code is judged as it was before the wait.
MutStaleCode(w) ==
    LET x == txn[w]
    IN  /\ x.pc = "exchangeCode"
        /\ Free(w, x.k, "X")
        /\ Continue(w, [x EXCEPT !.pc = IF /\ x.seen.expires > x.t
                                         /\ x.seen.client = x.c /\ x.seen.bind = x.b
                                      THEN "exchangeCommit" ELSE "rejectCommit"],
                    x.k, "X")
        /\ UNCHANGED vars

ExchangeLock(w) ==
    LET x == txn[w]
        t == ClockAfterWait(x, code[x.k])
    IN  /\ x.pc = "exchangeCode"
        /\ Free(w, x.k, "X")
        /\ IF code[x.k] = NULL
           THEN Finish(w)
           ELSE Continue(w, [x EXCEPT !.t = t,
                               !.pc = IF CodeValid(x.k, x.c, x.b, t)
                                      THEN "exchangeCommit" ELSE "rejectCommit"],
                         x.k, "X")
        /\ UNCHANGED vars

\* A client that is gone fails the foreign key and rolls everything back.
ExchangeCommit(w, f, a, r) ==
    LET x == txn[w]
    IN  /\ x.pc = "exchangeCommit"
        /\ Free(w, x.c, "U")
        /\ {f, a, r} \cap used = {}
        /\ IF client[x.c] = NULL
           THEN UNCHANGED <<tables, used>>
           ELSE InsertTokenPair(x.k, x.c, f, a, r, x.t)
        /\ Finish(w)
        /\ UNCHANGED now

RejectCommit(w) ==
    /\ txn[w].pc = "rejectCommit"
    /\ ConsumeCode(txn[w].k)
    /\ Finish(w)
    /\ UNCHANGED now

-----------------------------------------------------------------------------
(* authorizePost: the password, the authorizer and resolveClient accept,   *)
(* then createCode.                                                        *)

MetadataFresh(c) ==
    client[c].public => client[c].meta # NULL /\ now < client[c].meta + MetadataTTL

AuthorizePost(w, c, b) ==
    /\ txn[w] = Idle
    /\ client[c] # NULL
    /\ MetadataFresh(c)
    /\ txn' = [txn EXCEPT ![w] = [pc |-> "createCode", c |-> c, b |-> b, start |-> now]]
    /\ UNCHANGED <<vars, held>>

CreateCodeCommit(w, k) ==
    LET x == txn[w]
    IN  /\ x.pc = "createCode"
        /\ k \notin used
        /\ Free(w, x.c, "U")
        /\ IF client[x.c] = NULL
           THEN UNCHANGED <<tables, used>>
           ELSE InsertCode(k, x.c, x.b, x.start)
        /\ Finish(w)
        /\ UNCHANGED now

-----------------------------------------------------------------------------
(* evictExpired, for the evictor and inside the two registrations.  Each   *)
(* DELETE selects its rows when it starts, then takes them one by one; a   *)
(* row it had to wait for is checked again, but the subqueries of the last *)
(* DELETE are not.  Cascades follow the row that causes them.              *)

Selected(stage, t, gone) ==
    CASE stage = 1 -> ExpiredCodes(t)
      [] stage = 2 -> ExpiredAccess(t)
      [] stage = 3 -> ExpiredFamilies(t)
      [] stage = 4 -> IdleClients(t, gone, gone)

\* Mutant of StillSelected: a client row is deleted without a second look.
MutNoRecheck(row, stage, t) ==
    CASE row \in Code    -> code[row] # NULL /\ (stage = 1 => code[row].expires <= t)
      [] row \in Access  -> access[row] # NULL /\ (stage = 2 => access[row].expires <= t)
      [] row \in Family  -> family[row] # NULL /\ (stage = 3 => family[row].expires <= t)
      [] row \in Refresh -> refresh[row] # NULL
      [] row \in Client  -> client[row] # NULL

StillSelected(row, stage, t) ==
    CASE row \in Code    -> code[row] # NULL /\ (stage = 1 => code[row].expires <= t)
      [] row \in Access  -> access[row] # NULL /\ (stage = 2 => access[row].expires <= t)
      [] row \in Family  -> family[row] # NULL /\ (stage = 3 => family[row].expires <= t)
      [] row \in Refresh -> refresh[row] # NULL
      [] row \in Client  -> /\ client[row] # NULL
                            /\ ~client[row].static
                            /\ client[row].act < t - ClientIdleTTL

Cascaded(row) ==
    CASE row \in Client -> CodesOf({row}) \cup FamiliesOf({row})
      [] row \in Family -> AccessOf({row}) \cup RefreshOf({row})
      [] OTHER -> {}

EvictStart(kind, c, t) ==
    [pc |-> "evict", kind |-> kind, c |-> c, start |-> t, stage |-> 1,
     todo |-> Selected(1, t, {}), gone |-> {}]

EvictBegin(w) ==
    /\ txn[w] = Idle
    /\ txn' = [txn EXCEPT ![w] = EvictStart("evict", NULL, now)]
    /\ UNCHANGED <<vars, held>>

EvictRow(w, row) ==
    LET x == txn[w]
    IN  /\ x.pc = "evict"
        /\ row \in x.todo
        /\ Free(w, row, "X")
        /\ IF StillSelected(row, x.stage, x.start)
           THEN Continue(w, [x EXCEPT !.gone = @ \cup {row},
                                      !.todo = (@ \cup (Cascaded(row) \ x.gone)) \ {row}],
                         row, "X")
           ELSE txn' = [txn EXCEPT ![w].todo = @ \ {row}] /\ UNCHANGED held
        /\ UNCHANGED vars

EvictNext(w) ==
    LET x == txn[w]
    IN  /\ x.pc = "evict" /\ x.todo = {} /\ x.stage < 4
        /\ txn' = [txn EXCEPT ![w].stage = @ + 1,
                     ![w].todo = Selected(x.stage + 1, x.start, x.gone) \ x.gone]
        /\ UNCHANGED <<vars, held>>

DeleteGone(gone) ==
    DeleteCascade(gone \cap Code, gone \cap Access, gone \cap Family, gone \cap Client)

EvictCommit(w) ==
    LET x == txn[w]
    IN  /\ x.pc = "evict" /\ x.todo = {} /\ x.stage = 4 /\ x.kind = "evict"
        /\ DeleteGone(x.gone)
        /\ client' = Without(client, x.gone)
        /\ Finish(w)
        /\ UNCHANGED <<now, used>>

-----------------------------------------------------------------------------
(* registerClient and registerCIMDClient.                                  *)

\* registerHandler, or resolveClient for an unknown or stale CIMD client whose
\* metadata was fetched.  now() is fixed here, before the wait for the lock.
\* The supply of client keys bounds the registrations of an instance.
RegisterBegin(w, kind, c) ==
    /\ txn[w] = Idle
    /\ \/ kind = "dcr" /\ c = NULL /\ Client \ (CimdClient \cup used) # {}
       \/ kind = "cimd" /\ c \in CimdClient /\ (client[c] # NULL => ~MetadataFresh(c))
    /\ txn' = [txn EXCEPT ![w] = [pc |-> "advisory", kind |-> kind, c |-> c, start |-> now]]
    /\ UNCHANGED <<vars, held>>

\* Mutant of RegisterLock: no advisory lock.
MutNoAdvisoryLock(w) ==
    /\ txn[w].pc = "advisory"
    /\ txn' = [txn EXCEPT ![w] = EvictStart(txn[w].kind, txn[w].c, txn[w].start)]
    /\ UNCHANGED <<vars, held>>

RegisterLock(w) ==
    LET x == txn[w]
    IN  /\ x.pc = "advisory"
        /\ Free(w, "registration", "X")
        /\ Continue(w, EvictStart(x.kind, x.c, x.start), "registration", "X")
        /\ UNCHANGED vars

\* The cap rolls the evictions back too.
RegisterCount(w) ==
    LET x == txn[w]
        left == Rows(client) \ x.gone
    IN  /\ x.pc = "evict" /\ x.todo = {} /\ x.stage = 4 /\ x.kind # "evict"
        /\ IF (x.kind = "cimd" /\ x.c \in left) \/ Cardinality(left) < MaxClients
           THEN txn' = [txn EXCEPT ![w].pc = "registerCommit"] /\ UNCHANGED held
           ELSE Finish(w)
        /\ UNCHANGED vars

RegisterCommit(w, c) ==
    LET x == txn[w]
        left == Without(client, x.gone)
    IN  /\ x.pc = "registerCommit"
        /\ IF x.kind = "cimd" THEN c = x.c ELSE c \in Client \ (CimdClient \cup used)
        /\ Free(w, c, "U")
        /\ DeleteGone(x.gone)
        /\ client' = [left EXCEPT ![c] = UpsertClientRow(left[c], c, x.start)]
        /\ used' = IF x.kind = "dcr" THEN used \cup {c} ELSE used
        /\ Finish(w)
        /\ UNCHANGED now

-----------------------------------------------------------------------------
\* Cancelled context, lost connection, server crash or deadlock victim.
Abort(w) == txn[w] # Idle /\ Finish(w) /\ UNCHANGED vars

TxTick ==
    /\ \A w \in Proc : txn[w] # Idle => now < txn[w].start + MaxTxAge
    /\ Tick
    /\ UNCHANGED <<txn, held>>

EvictStep(w) == EvictNext(w) \/ \E row \in txn[w].todo : EvictRow(w, row)

Request(w) ==
    \/ \E a \in Access : BearerRequest(w, a)
    \/ RenewFamily(w) \/ RenewAccess(w) \/ RenewRefresh(w) \/ RenewCommit(w)
    \/ \E r \in Refresh, c \in Client : RefreshGrant(w, r, c)
    \/ RotateFamily(w) \/ RotateToken(w) \/ ReplayCommit(w)
    \/ \E a2 \in Access, r2 \in Refresh : RotateCommit(w, a2, r2)
    \/ \E k \in Code, c \in Client, b \in Binding : CodeGrant(w, k, c, b)
    \/ ExchangeLock(w) \/ RejectCommit(w)
    \/ \E f \in Family, a \in Access, r \in Refresh : ExchangeCommit(w, f, a, r)
    \/ \E c \in Client, b \in Binding : AuthorizePost(w, c, b)
    \/ \E k \in Code : CreateCodeCommit(w, k)
    \/ RegisterBegin(w, "dcr", NULL)
    \/ \E c \in CimdClient : RegisterBegin(w, "cimd", c)
    \/ RegisterLock(w) \/ RegisterCount(w)
    \/ \E c \in Client : RegisterCommit(w, c)
    \/ txn[w].pc = "evict" /\ EvictStep(w)

Evicting(w) ==
    EvictBegin(w) \/ EvictCommit(w) \/ (txn[w].pc = "evict" /\ EvictStep(w))

TxNext ==
    \/ TxTick
    \/ \E w \in Worker : Request(w)
    \/ \E w \in Evictor : Evicting(w)
    \/ \E w \in Proc : Abort(w)

TxSpec == TxInit /\ [][TxNext]_txVars
-----------------------------------------------------------------------------
(* Correctness.  The invariants of OAuthStore, read on committed rows, and: *)

\* The committed rows are well formed, and a lock belongs to an open
\* transaction: commit and rollback leave none behind.
TxTypeOK ==
    /\ TypeOK
    /\ \A l \in held : l.w \in Proc /\ txn[l.w] # Idle /\ l.mode \in {"X", "U"}

\* The row locks the next statement of w asks for.
Wants(w) ==
    LET x == txn[w]
    IN  CASE x.pc \in {"renewFamily", "rotateFamily"} -> {[row |-> x.f, mode |-> "X"]}
          [] x.pc = "renewAccess"  -> {[row |-> x.a, mode |-> "X"]}
          [] x.pc = "renewRefresh" -> [row: LiveRefresh(x.f), mode: {"U"}]
          [] x.pc = "rotateToken"  -> {[row |-> x.r, mode |-> "X"]}
          [] x.pc = "exchangeCode" -> {[row |-> x.k, mode |-> "X"]}
          [] x.pc = "renewCommit"  -> {[row |-> family[x.f].client, mode |-> "U"]}
          [] x.pc \in {"rotateCommit", "exchangeCommit", "createCode"}
                                   -> {[row |-> x.c, mode |-> "U"]}
          [] x.pc = "advisory"     -> {[row |-> "registration", mode |-> "X"]}
          [] x.pc = "evict"        -> [row: x.todo, mode: {"X"}]
          [] OTHER                 -> {}

Blocked(w) == Wants(w) # {} /\ \A n \in Wants(w) : ~Free(w, n.row, n.mode)

WaitsFor(w, v) ==
    /\ Blocked(w)
    /\ \E n \in Wants(w), l \in held :
          l.w = v /\ v # w /\ l.row = n.row /\ Conflicts(l.mode, n.mode)

\* Every member of S waits for another member.
Closed(S) == S # {} /\ \A w \in S : \E v \in S : WaitsFor(w, v)

WaitCycle(procs) == \E S \in SUBSET procs : Closed(S)

Deleting(w) == txn[w] # Idle /\ txn[w].pc \in {"evict", "registerCommit"}

\* Token requests, code requests and renewals never wait for one another in a
\* circle: family before token rows, everything before the client row.
RequestsNeverDeadlock == ~WaitCycle({w \in Proc : ~Deleting(w)})

\* The clock readings of concurrent transactions may be stale, but no commit
\* ever shortens the life of a session or of an access token.  (That the live
\* refresh token expires with its session is part of SessionCover.)
NeverShortened ==
    [][/\ \A f \in Rows(family) :
             family'[f] # NULL => family'[f].expires >= family[f].expires
       /\ \A a \in Rows(access) :
             access'[a] # NULL => access'[a].expires >= access[a].expires]_txVars

\* Deleting a code that is still good is the privilege of an exchange: evict
\* and the cascades of a client deletion never take one, even a code committed
\* after evict had looked for the codes of its client.
GoodCodeKept ==
    [][\A k \in Rows(code) :
          (code[k].expires > now /\ code'[k] = NULL)
          => \E w \in Worker : /\ txn[w].pc \in {"exchangeCommit", "rejectCommit"}
                               /\ txn[w].k = k]_txVars

TxPromise == INSTANCE Sessions WITH
    IdleTTL <- TokenIdleTTL, Slack <- MaxTxAge,
    codeState <- absCode, codeDeadline <- absCodeDeadline,
    session <- absSession, deadline <- absDeadline,
    token <- absToken, holder <- absHolder

\* The interleaved transactions keep the promise of Sessions, on clock readings
\* at most MaxTxAge old: of two exchanges of one code or two rotations of one
\* token at most one succeeds, and a replay racing a rotation revokes.
TxKeepsPromise == TxPromise!Spec
-----------------------------------------------------------------------------
(* Progress.                                                               *)

\* A step of an open transaction: everything Request and Evicting do but start.
Proceed(w) ==
    /\ txn[w] # Idle
    /\ IF w \in Worker THEN Request(w) ELSE Evicting(w)

\* PostgreSQL's deadlock detector rolls back a member of a wait cycle.
DeadlockVictim(w) ==
    /\ \E S \in SUBSET Proc : /\ w \in S /\ Closed(S)
                              /\ \A T \in SUBSET S : Closed(T) => T = S
    /\ Abort(w)

\* The instance has no fresh key left for what w is about to insert.
OutOfKeys(w) ==
    \/ txn[w].pc = "createCode" /\ Code \subseteq used
    \/ txn[w].pc = "exchangeCommit" /\ \E S \in {Family, Access, Refresh} : S \subseteq used
    \/ txn[w].pc = "rotateCommit" /\ \E S \in {Access, Refresh} : S \subseteq used
    \/ txn[w].pc = "registerCommit" /\ Client \subseteq used \cup CimdClient

\* PostgreSQL queues lock requests, so a transaction whose next lock is free
\* again and again gets it; its server keeps sending statements.  A
\* transaction the bounded key supply leaves stuck is rolled back.
TxFairness ==
    /\ \A w \in Proc : SF_txVars(Proceed(w))
    /\ WF_txVars(\E w \in Proc : DeadlockVictim(w))
    /\ \A w \in Proc : WF_txVars(OutOfKeys(w) /\ Abort(w))

TxFairSpec == TxSpec /\ TxFairness

\* No request and no cleanup waits for ever: every transaction commits, is
\* refused or is rolled back, although evict and renewToken can wait for one
\* another.
EveryTransactionEnds ==
    \A w \in Proc : txn[w] # Idle ~> txn[w] = Idle
=============================================================================
