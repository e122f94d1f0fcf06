----------------------------- MODULE OAuthStore -----------------------------
(***************************************************************************)
(* The OAuth persistence of compliary (pkg/oauth/postgres_store.go): the   *)
(* tables of schema auth and the operations of the oauthStore interface,   *)
(* each one atomic.  OAuthTx splits the same operations into the           *)
(* statements of their transactions and lets them interleave.              *)
(*                                                                         *)
(* A table is a function from row keys to rows; NULL marks a key without a *)
(* row and a NULL column.  Secrets drawn by randomHex are members of the   *)
(* key sets that were never drawn before (`used`).                         *)
(***************************************************************************)
EXTENDS Integers, FiniteSets

CONSTANTS Client,        \* client_id values
          CimdClient,    \* the client_ids that are https:// URLs
          StaticClient,  \* clients an operator inserted with is_static = TRUE
          Code, Family, Access, Refresh,   \* code, family and token keys
          Binding,       \* redirect_uri and PKCE pair a code is bound to
          NULL,
          CodeTTL, TokenIdleTTL, ClientIdleTTL, \* authCodeTTL, tokenIdleTTL, 24 h
          MaxClients,    \* maxClients
          MaxNow         \* bound on the clock

ASSUME KeyAssumption ==
    /\ NULL \notin Client \cup Code \cup Family \cup Access \cup Refresh \cup Binding
    /\ CimdClient \subseteq Client
    /\ StaticClient \subseteq Client \ CimdClient
    /\ Code \cap (Client \cup Family \cup Access \cup Refresh) = {}
    /\ Family \cap (Client \cup Access \cup Refresh) = {}
    /\ Refresh \cap (Client \cup Access) = {}
    /\ Access \cap Client = {}

ASSUME TTLAssumption ==
    /\ CodeTTL \in Nat \ {0}
    /\ TokenIdleTTL \in Nat \ {0}
    /\ ClientIdleTTL \in Nat

ASSUME CapAssumption ==
    /\ MaxClients \in Nat
    /\ MaxNow \in Nat
    /\ IsFiniteSet(Client)
    /\ Cardinality(StaticClient) <= MaxClients

VARIABLES now,      \* the database clock
          client, code, family, access, refresh,   \* the tables
          used      \* keys randomHex has already produced

tables == <<client, code, family, access, refresh>>
vars == <<now, client, code, family, access, refresh, used>>

ClientRow  == [public: BOOLEAN, static: BOOLEAN, act: Nat, meta: Nat \cup {NULL}]
CodeRow    == [client: Client, bind: Binding, expires: Nat]
FamilyRow  == [client: Client, expires: Nat, state: {"live", "revoked"}]
AccessRow  == [family: Family, expires: Nat]
RefreshRow == [family: Family, expires: Nat, state: {"live", "consumed"}]

ASSUME NullAssumption ==
    NULL \notin ClientRow \cup CodeRow \cup FamilyRow \cup AccessRow \cup RefreshRow

TypeOK ==
    /\ now \in 0..MaxNow
    /\ client  \in [Client  -> ClientRow  \cup {NULL}]
    /\ code    \in [Code    -> CodeRow    \cup {NULL}]
    /\ family  \in [Family  -> FamilyRow  \cup {NULL}]
    /\ access  \in [Access  -> AccessRow  \cup {NULL}]
    /\ refresh \in [Refresh -> RefreshRow \cup {NULL}]
    /\ used \subseteq Client \cup Code \cup Family \cup Access \cup Refresh

Init ==
    /\ now = 0
    /\ client = [c \in Client |->
                   IF c \in StaticClient
                   THEN [public |-> FALSE, static |-> TRUE, act |-> 0, meta |-> NULL]
                   ELSE NULL]
    /\ code    = [k \in Code    |-> NULL]
    /\ family  = [f \in Family  |-> NULL]
    /\ access  = [a \in Access  |-> NULL]
    /\ refresh = [r \in Refresh |-> NULL]
    /\ used = StaticClient

-----------------------------------------------------------------------------
(* Rows and predicates over the tables.                                    *)

Rows(table) == {k \in DOMAIN table : table[k] # NULL}

Without(table, keys) ==
    [k \in DOMAIN table |-> IF k \in keys THEN NULL ELSE table[k]]

\* Mutant of Touch: activity is not recorded.
MutNoTouch(c, t) == client

\* SET last_activity_at = t WHERE client_id = c.
Touch(c, t) == [x \in Client |-> IF x = c /\ client[x] # NULL
                                 THEN [client[x] EXCEPT !.act = t] ELSE client[x]]

\* The WHERE clause of lookupToken, at clock reading t.
Usable(a, t) ==
    /\ access[a] # NULL
    /\ access[a].expires > t
    /\ family[access[a].family] # NULL
    /\ family[access[a].family].expires > t
    /\ family[access[a].family].state = "live"

ExpiredCodes(t)    == {k \in Rows(code) : code[k].expires <= t}
ExpiredAccess(t)   == {a \in Rows(access) : access[a].expires <= t}
\* Mutant of ExpiredFamilies: only revoked families are ever deleted.
MutOnlyRevoked(t) == {f \in Rows(family) : family[f].expires <= t /\ family[f].state = "revoked"}

ExpiredFamilies(t) == {f \in Rows(family) : family[f].expires <= t}

\* Mutant of IdleClients: sessions do not count as a reason to keep a client.
MutForgetSessions(t, goneCodes, goneFamilies) ==
    {c \in Rows(client) :
        /\ ~client[c].static
        /\ client[c].act < t - ClientIdleTTL
        /\ \A k \in Rows(code) \ goneCodes : code[k].client # c}

\* The clients the last DELETE of evictExpired selects, once the codes in
\* goneCodes and the families in goneFamilies are deleted.
IdleClients(t, goneCodes, goneFamilies) ==
    {c \in Rows(client) :
        /\ ~client[c].static
        /\ client[c].act < t - ClientIdleTTL
        /\ \A k \in Rows(code) \ goneCodes : code[k].client # c
        /\ \A f \in Rows(family) \ goneFamilies :
              ~(/\ family[f].client = c
                /\ family[f].state = "live"
                /\ family[f].expires > t)}

CodesOf(clients)     == {k \in Rows(code)    : code[k].client \in clients}
FamiliesOf(clients)  == {f \in Rows(family)  : family[f].client \in clients}
AccessOf(families)   == {a \in Rows(access)  : access[a].family \in families}
RefreshOf(families)  == {r \in Rows(refresh) : refresh[r].family \in families}

-----------------------------------------------------------------------------
(* Effects: the tables a committed transaction leaves.  They take the clock *)
(* reading of their transaction, which OAuthTx lets grow stale.            *)

\* Mutant of DeleteCascade: refresh tokens reference their family without
\* ON DELETE CASCADE.
MutNoCascade(goneCodes, goneAccess, goneFamilies, goneClients) ==
    LET fams == goneFamilies \cup FamiliesOf(goneClients)
    IN  /\ code'    = Without(code, goneCodes \cup CodesOf(goneClients))
        /\ family'  = Without(family, fams)
        /\ access'  = Without(access, goneAccess \cup AccessOf(fams))
        /\ refresh' = refresh

\* Deletes of codes, access tokens, families and clients with their
\* ON DELETE CASCADE; the client table is left to the caller.
DeleteCascade(goneCodes, goneAccess, goneFamilies, goneClients) ==
    LET fams == goneFamilies \cup FamiliesOf(goneClients)
    IN  /\ code'    = Without(code, goneCodes \cup CodesOf(goneClients))
        /\ family'  = Without(family, fams)
        /\ access'  = Without(access, goneAccess \cup AccessOf(fams))
        /\ refresh' = Without(refresh, RefreshOf(fams))

NewClientRow(c, t) ==
    [public |-> c \in CimdClient, static |-> FALSE, act |-> t,
     meta |-> IF c \in CimdClient THEN t ELSE NULL]

\* ON CONFLICT (client_id) DO UPDATE keeps is_static.
UpsertClientRow(old, c, t) ==
    IF old = NULL THEN NewClientRow(c, t)
                  ELSE [old EXCEPT !.public = TRUE, !.meta = t, !.act = t]

InsertCode(k, c, b, t) ==
    /\ code' = [code EXCEPT ![k] = [client |-> c, bind |-> b, expires |-> t + CodeTTL]]
    /\ client' = Touch(c, t)
    /\ used' = used \cup {k}
    /\ UNCHANGED <<family, access, refresh>>

\* insertTokenPair, with the deletion of the code it answers.
InsertTokenPair(k, c, f, a, r, t) ==
    /\ code' = [code EXCEPT ![k] = NULL]
    /\ family' = [family EXCEPT ![f] =
                    [client |-> c, expires |-> t + TokenIdleTTL, state |-> "live"]]
    /\ access' = [access EXCEPT ![a] = [family |-> f, expires |-> t + TokenIdleTTL]]
    /\ refresh' = [refresh EXCEPT ![r] =
                    [family |-> f, expires |-> t + TokenIdleTTL, state |-> "live"]]
    /\ client' = Touch(c, t)
    /\ used' = used \cup {f, a, r}

ConsumeCode(k) ==
    /\ code' = [code EXCEPT ![k] = NULL]
    /\ UNCHANGED <<client, family, access, refresh, used>>

\* Mutant of RenewRows: the refresh token keeps its old expiry.
MutRenewNoRefresh(a, f, t) ==
    /\ access' = [access EXCEPT ![a].expires = t + TokenIdleTTL]
    /\ family' = [family EXCEPT ![f].expires = t + TokenIdleTTL]
    /\ client' = Touch(family[f].client, t)
    /\ UNCHANGED <<code, refresh, used>>

\* Mutant of RenewRows: only the access token is extended.
MutRenewNoFamily(a, f, t) ==
    /\ access' = [access EXCEPT ![a].expires = t + TokenIdleTTL]
    /\ client' = Touch(family[f].client, t)
    /\ UNCHANGED <<code, family, refresh, used>>

RenewRows(a, f, t) ==
    /\ access' = [access EXCEPT ![a].expires = t + TokenIdleTTL]
    /\ family' = [family EXCEPT ![f].expires = t + TokenIdleTTL]
    /\ refresh' = [r \in Refresh |->
                     IF /\ refresh[r] # NULL
                        /\ refresh[r].family = f
                        /\ refresh[r].state = "live"
                        /\ refresh[r].expires > t
                     THEN [refresh[r] EXCEPT !.expires = t + TokenIdleTTL]
                     ELSE refresh[r]]
    /\ client' = Touch(family[f].client, t)
    /\ UNCHANGED <<code, used>>

RotateRows(r, f, a2, r2, t) ==
    /\ refresh' = [refresh EXCEPT
                     ![r].state = "consumed",
                     ![r2] = [family |-> f, expires |-> t + TokenIdleTTL,
                              state |-> "live"]]
    /\ access' = [access EXCEPT ![a2] = [family |-> f, expires |-> t + TokenIdleTTL]]
    /\ family' = [family EXCEPT ![f].expires = t + TokenIdleTTL]
    /\ client' = Touch(family[f].client, t)
    /\ used' = used \cup {a2, r2}
    /\ UNCHANGED code

\* Mutant of RevokeFamily: the state of a refresh token, not of a family.
MutConsumeFamily(f) ==
    /\ family' = [family EXCEPT ![f].state = "consumed"]
    /\ UNCHANGED <<client, code, access, refresh, used>>

RevokeFamily(f) ==
    /\ family' = [family EXCEPT ![f].state = "revoked"]
    /\ UNCHANGED <<client, code, access, refresh, used>>

-----------------------------------------------------------------------------
(* The operations.  A refused operation leaves the tables alone.           *)

Tick == now < MaxNow /\ now' = now + 1 /\ UNCHANGED <<tables, used>>

\* What the four DELETEs of evictExpired leave of the clients at time t.
EvictedClients(t) == IdleClients(t, ExpiredCodes(t), ExpiredFamilies(t))
EvictRows(t) == DeleteCascade(ExpiredCodes(t), ExpiredAccess(t),
                              ExpiredFamilies(t), EvictedClients(t))

Evict ==
    /\ EvictRows(now)
    /\ client' = Without(client, EvictedClients(now))
    /\ UNCHANGED <<now, used>>

RegisterClient(c) ==
    /\ c \in Client \ (CimdClient \cup used)
    /\ Cardinality(Rows(client) \ EvictedClients(now)) < MaxClients
    /\ EvictRows(now)
    /\ client' = [Without(client, EvictedClients(now)) EXCEPT ![c] = NewClientRow(c, now)]
    /\ used' = used \cup {c}
    /\ UNCHANGED now

RegisterCIMDClient(c) ==
    LET kept == Without(client, EvictedClients(now))
    IN  /\ c \in CimdClient
        /\ kept[c] # NULL \/ Cardinality(Rows(kept)) < MaxClients
        /\ EvictRows(now)
        /\ client' = [kept EXCEPT ![c] = UpsertClientRow(kept[c], c, now)]
        /\ UNCHANGED <<now, used>>

CreateCode(k, c, b) ==
    /\ k \notin used
    /\ client[c] # NULL
    /\ InsertCode(k, c, b, now)
    /\ UNCHANGED now

\* Mutant of CodeValid: an expired code that evict has not met yet is accepted.
MutNoExpiry(k, c, b, t) == code[k].client = c /\ code[k].bind = b

CodeValid(k, c, b, t) ==
    code[k].expires > t /\ code[k].client = c /\ code[k].bind = b

ExchangeCode(k, c, b, f, a, r) ==
    /\ code[k] # NULL
    /\ CodeValid(k, c, b, now)
    /\ {f, a, r} \cap used = {}
    /\ InsertTokenPair(k, c, f, a, r, now)
    /\ UNCHANGED now

\* Every exchange attempt consumes the code, the invalid ones too.
ExchangeRejected(k, c, b) ==
    /\ code[k] # NULL
    /\ ~CodeValid(k, c, b, now)
    /\ ConsumeCode(k)
    /\ UNCHANGED now

RenewToken(a) ==
    /\ Usable(a, now)
    /\ RenewRows(a, access[a].family, now)
    /\ UNCHANGED now

RotateRefresh(r, c, a2, r2) ==
    LET f == refresh[r].family
    IN  /\ refresh[r] # NULL
        /\ family[f] # NULL
        /\ family[f].client = c
        /\ refresh[r].state = "live"
        /\ family[f].state = "live"
        /\ refresh[r].expires > now
        /\ family[f].expires > now
        /\ {a2, r2} \cap used = {}
        /\ RotateRows(r, f, a2, r2, now)
        /\ UNCHANGED now

\* A consumed refresh token is presented again: the family is revoked.
ReplayRefresh(r, c) ==
    /\ refresh[r] # NULL
    /\ family[refresh[r].family] # NULL
    /\ family[refresh[r].family].client = c
    /\ refresh[r].state = "consumed"
    /\ RevokeFamily(refresh[r].family)
    /\ UNCHANGED now

Next ==
    \/ Tick
    \/ Evict
    \/ \E c \in Client : RegisterClient(c) \/ RegisterCIMDClient(c)
    \/ \E k \in Code, c \in Client, b \in Binding :
          \/ CreateCode(k, c, b)
          \/ ExchangeRejected(k, c, b)
          \/ \E f \in Family, a \in Access, r \in Refresh : ExchangeCode(k, c, b, f, a, r)
    \/ \E a \in Access : RenewToken(a)
    \/ \E r \in Refresh, c \in Client :
          \/ ReplayRefresh(r, c)
          \/ \E a2 \in Access, r2 \in Refresh : RotateRefresh(r, c, a2, r2)

Spec == Init /\ [][Next]_vars

\* startEvictor runs evict on a ticker for as long as the server lives.
Fairness == WF_vars(Tick) /\ WF_vars(Evict)
FairSpec == Spec /\ Fairness
-----------------------------------------------------------------------------
(* Correctness.                                                            *)

LiveRefresh(f) == {r \in Rows(refresh) : refresh[r].family = f /\ refresh[r].state = "live"}

\* Foreign keys as ON DELETE CASCADE and the inserts keep them: a code or a
\* family names a client that has a row, a token names a family that has one.
\* lookupToken, renewToken and rotateRefresh join on it.
ReferentialIntegrity ==
    /\ \A k \in Rows(code) : client[code[k].client] # NULL
    /\ \A f \in Rows(family) : client[family[f].client] # NULL
    /\ \A a \in Rows(access) : family[access[a].family] # NULL
    /\ \A r \in Rows(refresh) : family[refresh[r].family] # NULL

\* A family always has exactly one unconsumed refresh token (the partial
\* unique index of auth.refresh_token can never fire), and it lives exactly as
\* long as the family: renewToken's "expires_at > $3" never skips it, so a
\* session that can still be used can always be refreshed.
SessionCover ==
    \A f \in Rows(family) :
        /\ \E r \in LiveRefresh(f) : refresh[r].expires = family[f].expires
        /\ \A r1, r2 \in LiveRefresh(f) : r1 = r2

\* No access token outlives its family, and no family outlives the idle
\* window: evicting an expired family never cuts off a token in use, and an
\* unused session dies within tokenIdleTTL.
IdleWindow ==
    /\ \A a \in Rows(access) : access[a].expires <= family[access[a].family].expires
    /\ \A f \in Rows(family) : family[f].expires <= now + TokenIdleTTL
    /\ \A k \in Rows(code) : code[k].expires <= now + CodeTTL

\* A key that was never drawn has no row: what randomHex returns collides with
\* nothing.  With the invariants above it is inductive.
FreshKeys ==
    /\ Rows(code) \cup Rows(family) \cup Rows(access) \cup Rows(refresh) \subseteq used
    /\ Rows(client) \subseteq used \cup CimdClient

\* Registration never takes the table past maxClients, whatever evict and the
\* other registrations delete or insert meanwhile.
ClientCap == Cardinality(Rows(client)) <= MaxClients

\* A client is never deleted while a code or a session of it is still good:
\* the NOT EXISTS clauses of evictExpired.
KeepsGrantedClients ==
    \A c \in Rows(client) :
        (\/ \E k \in CodesOf({c}) : code[k].expires > now
         \/ \E f \in FamiliesOf({c}) : family[f].state = "live" /\ family[f].expires > now)
        => client'[c] # NULL
GrantKeepsClient == [][KeepsGrantedClients]_vars

\* Expired rows do not pile up: the evictor deletes every code and family
\* that expires, however many renewals and rotations happen meanwhile.
ExpiredRowsGo ==
    /\ \A k \in Code : (code[k] # NULL /\ code[k].expires <= now) ~> code[k] = NULL
    /\ \A f \in Family : (family[f] # NULL /\ family[f].expires <= now) ~> family[f] = NULL

-----------------------------------------------------------------------------
(* The promise of Sessions, read off the tables.                           *)

absCode == [k \in Code |-> IF code[k] # NULL THEN "open"
                           ELSE IF k \in used THEN "spent" ELSE "unborn"]
absCodeDeadline == [k \in Code |-> IF code[k] = NULL THEN 0 ELSE code[k].expires]
absSession == [f \in Family |-> IF family[f] # NULL THEN family[f].state
                                ELSE IF f \in used THEN "ended" ELSE "unborn"]
absDeadline == [f \in Family |-> IF family[f] = NULL THEN 0 ELSE family[f].expires]
absToken == [r \in Refresh |->
               IF refresh[r] # NULL
               THEN IF refresh[r].state = "live" THEN "current" ELSE "spent"
               ELSE IF r \in used THEN "void" ELSE "unborn"]
absHolder == [r \in Refresh |-> IF refresh[r] = NULL THEN NULL ELSE refresh[r].family]

Promise == INSTANCE Sessions WITH
    IdleTTL <- TokenIdleTTL, Slack <- 0,
    codeState <- absCode, codeDeadline <- absCodeDeadline,
    session <- absSession, deadline <- absDeadline,
    token <- absToken, holder <- absHolder

\* Every operation of the store is a step of Sessions or changes nothing the
\* caller can tell: codes are redeemed once, spent refresh tokens revoke,
\* revoked and ended sessions stay so.
KeepsPromise == Promise!Spec
=============================================================================
