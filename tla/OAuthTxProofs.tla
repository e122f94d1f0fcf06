---------------------------- MODULE OAuthTxProofs ----------------------------
(* The properties of OAuthTx, for every value of its constants.  TxInv ties *)
(* the row locks to the positions of the transactions; with it, what a     *)
(* transaction has judged still holds when it commits.                     *)
EXTENDS OAuthTx, OAuthStoreProofs

USE TxAssumption

Key == Client \cup Code \cup Family \cup Access \cup Refresh
LockRow == Key \cup {"registration"}

\* The records of open transactions, by operation.
RenewTx    == [pc: {"renewFamily", "renewAccess", "renewRefresh", "renewCommit"},
               a: Access, f: Family, start: Nat, t: Nat, seen: FamilyRow \cup {NULL}]
RotateTx   == [pc: {"rotateFamily", "rotateToken", "rotateCommit", "replayCommit"},
               r: Refresh, c: Client, f: Family, start: Nat, t: Nat,
               seen: FamilyRow \cup {NULL}, alive: BOOLEAN]
ExchangeTx == [pc: {"exchangeCode", "exchangeCommit", "rejectCommit"}, k: Code, c: Client,
               b: Binding, start: Nat, t: Nat, seen: CodeRow]
CreateTx   == [pc: {"createCode"}, c: Client, b: Binding, start: Nat]
AdvisoryTx == [pc: {"advisory"}, kind: {"dcr", "cimd"}, c: Client \cup {NULL}, start: Nat]
DeleteTx   == [pc: {"evict", "registerCommit"}, kind: {"evict", "dcr", "cimd"},
               c: Client \cup {NULL}, start: Nat, stage: 1..4,
               todo: SUBSET Key, gone: SUBSET Key]
TxRow == {Idle} \cup RenewTx \cup RotateTx \cup ExchangeTx \cup CreateTx \cup AdvisoryTx
         \cup DeleteTx

\* w holds a lock.
Has(w, row, mode) == [w |-> w, row |-> row, mode |-> mode] \in held

\* The locks of a transaction, read off its position.
OnFamily(x) == x.pc \in {"renewAccess", "renewRefresh", "renewCommit",
                         "rotateToken", "rotateCommit", "replayCommit"}
Holds(x, row, mode) ==
    \/ OnFamily(x) /\ row = x.f /\ mode = "X"
    \/ x.pc \in {"renewRefresh", "renewCommit"} /\ row = x.a /\ mode = "X"
    \/ x.pc = "renewCommit" /\ row \in LiveRefresh(x.f) /\ mode = "U"
    \/ x.pc \in {"rotateCommit", "replayCommit"} /\ row = x.r /\ mode = "X"
    \/ x.pc \in {"exchangeCommit", "rejectCommit"} /\ row = x.k /\ mode = "X"
    \/ /\ x.pc \in {"evict", "registerCommit"} /\ mode = "X"
       /\ row \in x.gone \/ (row = "registration" /\ x.kind # "evict")

Locks ==
    /\ held \subseteq [w: Proc, row: LockRow, mode: {"X", "U"}]
    /\ \A w \in Proc, x \in TxRow : txn[w] = x =>
          \A row \in LockRow, mode \in {"X", "U"} : Has(w, row, mode) <=> Holds(x, row, mode)

\* No two transactions hold locks that conflict.
Exclusive == \A l, m \in held : l.row = m.row /\ l.w # m.w => ~Conflicts(l.mode, m.mode)

\* Clock readings are neither from the future nor older than a transaction gets.
Clocks(x) ==
    /\ x.start <= now /\ now <= x.start + MaxTxAge
    /\ x \in RenewTx \cup RotateTx \cup ExchangeTx => x.start <= x.t /\ x.t <= now

\* The family a transaction has locked, as it judged it.
Judged(x) == family[x.f] # NULL /\ family[x.f].expires <= x.t + TokenIdleTTL
Alive(x) == family[x.f].state = "live" /\ family[x.f].expires > x.t

\* The family as it was found before the wait for its lock.
Found(x) == x.t = x.start /\ (x.seen # NULL => x.seen.expires <= x.t + TokenIdleTTL)

Renewing(x) ==
    /\ x.a \in used /\ x.f \in used
    /\ access[x.a] # NULL => access[x.a].family = x.f
    /\ x.pc = "renewFamily" => Found(x)
    /\ OnFamily(x) => Judged(x) /\ Alive(x)
    /\ x.pc \in {"renewRefresh", "renewCommit"} => access[x.a] # NULL

Rotating(x) ==
    /\ x.r \in used /\ x.f \in used
    /\ refresh[x.r] # NULL => refresh[x.r].family = x.f
    /\ x.pc = "rotateFamily" => Found(x)
    /\ OnFamily(x) => Judged(x) /\ family[x.f].client = x.c /\ (x.alive => Alive(x))
    /\ x.pc = "rotateCommit" => x.alive /\ refresh[x.r] # NULL /\ refresh[x.r].state = "live"
    /\ x.pc = "replayCommit" => refresh[x.r] # NULL /\ refresh[x.r].state = "consumed"

Exchanging(x) ==
    /\ x.k \in used
    /\ x.pc \in {"exchangeCommit", "rejectCommit"} => code[x.k] # NULL
    /\ x.pc = "exchangeCommit" => CodeValid(x.k, x.c, x.b, x.t)

\* The rows a DELETE has locked and those it still waits for cover its cascades.
Due(x) == x.gone \cup x.todo
Cascades(x) ==
    /\ Due(x) \subseteq used \cup Client
    /\ \A c \in x.gone \cap Client : CodesOf({c}) \cup FamiliesOf({c}) \subseteq Due(x)
    /\ \A f \in x.gone \cap Family : AccessOf({f}) \cup RefreshOf({f}) \subseteq Due(x)

\* What is waited for in each of the four statements.
Staged(x) ==
    /\ x.stage = 1 => x.todo \subseteq Code /\ x.gone \subseteq Code
    /\ x.stage = 2 => x.todo \subseteq Access /\ x.gone \subseteq Code \cup Access
    /\ x.stage = 3 => x.todo \subseteq Family \cup Access \cup Refresh /\ x.gone \cap Client = {}
    /\ x.stage = 4 =>
          /\ \A k \in x.todo \cap Code : code[k] # NULL => code[k].client \in x.gone
          /\ \A f \in x.todo \cap Family : family[f] # NULL => family[f].client \in x.gone
    /\ x.pc = "registerCommit" => x.todo = {} /\ x.stage = 4 /\ x.kind # "evict"
    /\ x.kind = "cimd" => x.c \in CimdClient

\* No code and no session of the client is good at t.
NoGrant(c, t) ==
    /\ \A k \in CodesOf({c}) : code[k].expires <= t
    /\ \A f \in FamiliesOf({c}) : family[f].state = "revoked" \/ family[f].expires <= t

\* What a DELETE takes is over: codes and families have expired or go with a client
\* that has no grant.  A client that got one since it was chosen was used since.
Over(x) ==
    /\ \A k \in x.gone \cap Code : code[k] # NULL /\ code[k].expires <= x.start
    /\ \A f \in x.gone \cap Family :
          family[f] # NULL /\ (family[f].expires <= x.start \/ family[f].state = "revoked")
    /\ \A c \in x.gone \cap Client : client[c] # NULL /\ ~client[c].static /\ NoGrant(c, x.start)
    /\ \A c \in x.todo \cap Client : client[c] # NULL =>
          NoGrant(c, x.start) \/ client[c].act + MaxTxAge >= x.start

\* A registration has counted the clients it leaves.
Counted(x) == x.pc = "registerCommit" =>
    \/ x.kind = "cimd" /\ x.c \in Rows(client) \ x.gone
    \/ Cardinality(Rows(client) \ x.gone) < MaxClients

TxFacts(x) ==
    /\ x # Idle => Clocks(x)
    /\ x \in RenewTx => Renewing(x)
    /\ x \in RotateTx => Rotating(x)
    /\ x \in ExchangeTx => Exchanging(x)
    /\ x \in AdvisoryTx => (x.kind = "cimd" => x.c \in CimdClient)
    /\ x \in DeleteTx => Cascades(x) /\ Staged(x) /\ Over(x) /\ Counted(x)

TxInv ==
    /\ IndInv /\ ClientCap
    /\ txn \in [Proc -> TxRow]
    /\ Locks /\ Exclusive
    /\ \A w \in Proc, x \in TxRow : txn[w] = x => TxFacts(x)

-----------------------------------------------------------------------------
(* What a step of one transaction does to the others.                      *)

\* A record of a transaction is of the operation its position belongs to.
LEMMA Kinds ==
    ASSUME NEW x \in TxRow
    PROVE  /\ x \in RenewTx <=> x.pc \in {"renewFamily", "renewAccess", "renewRefresh", "renewCommit"}
           /\ x \in RotateTx <=> x.pc \in {"rotateFamily", "rotateToken", "rotateCommit", "replayCommit"}
           /\ x \in ExchangeTx <=> x.pc \in {"exchangeCode", "exchangeCommit", "rejectCommit"}
           /\ x \in CreateTx <=> x.pc = "createCode"
           /\ x \in AdvisoryTx <=> x.pc = "advisory"
           /\ x \in DeleteTx <=> x.pc \in {"evict", "registerCommit"}
           /\ x = Idle <=> x.pc = "idle"
<1>1. CASE x = Idle
  BY <1>1 DEF Idle, RenewTx, RotateTx, ExchangeTx, CreateTx, AdvisoryTx, DeleteTx
<1>2. CASE x \in RenewTx
  BY <1>2 DEF Idle, RenewTx, RotateTx, ExchangeTx, CreateTx, AdvisoryTx, DeleteTx
<1>3. CASE x \in RotateTx
  BY <1>3 DEF Idle, RenewTx, RotateTx, ExchangeTx, CreateTx, AdvisoryTx, DeleteTx
<1>4. CASE x \in ExchangeTx
  BY <1>4 DEF Idle, RenewTx, RotateTx, ExchangeTx, CreateTx, AdvisoryTx, DeleteTx
<1>5. CASE x \in CreateTx
  BY <1>5 DEF Idle, RenewTx, RotateTx, ExchangeTx, CreateTx, AdvisoryTx, DeleteTx
<1>6. CASE x \in AdvisoryTx
  BY <1>6 DEF Idle, RenewTx, RotateTx, ExchangeTx, CreateTx, AdvisoryTx, DeleteTx
<1>7. CASE x \in DeleteTx
  BY <1>7 DEF Idle, RenewTx, RotateTx, ExchangeTx, CreateTx, AdvisoryTx, DeleteTx
<1> QED
  BY <1>1, <1>2, <1>3, <1>4, <1>5, <1>6, <1>7 DEF TxRow

\* What is known of a transaction only depends on its record and on the tables.
LEMMA FactsSame ==
    ASSUME NEW x, UNCHANGED vars
    PROVE  TxFacts(x)' <=> TxFacts(x)
BY DEF vars, TxFacts, Clocks, Renewing, Rotating, Exchanging, Found, Judged, Alive, CodeValid,
   Cascades, Staged, Over, Counted, CodesOf, FamiliesOf, AccessOf, RefreshOf, NoGrant, Due, Rows

\* And so do its locks.
LEMMA HoldsSame ==
    ASSUME NEW x, NEW row, NEW mode, UNCHANGED refresh
    PROVE  Holds(x, row, mode)' <=> Holds(x, row, mode)
BY DEF Holds, LiveRefresh, Rows, OnFamily

\* The invariant of OAuthStore only depends on the tables.
LEMMA IndSame == IndInv /\ ClientCap /\ UNCHANGED vars => (IndInv /\ ClientCap)'
BY DEF vars, IndInv, TypeOK, FreshKeys, ReferentialIntegrity, SessionCover, LiveRefresh,
   IdleWindow, Rows, ClientCap

\* A statement that takes free locks and leaves the tables alone, if it tells the
\* right things of its own transaction.
LEMMA LockStep ==
    ASSUME TxInv, UNCHANGED vars, NEW w \in Proc, NEW y \in TxRow, NEW N,
           txn' = [txn EXCEPT ![w] = y], held' = held \cup N,
           \A l \in N : /\ l \in [w: {w}, row: LockRow, mode: {"X", "U"}]
                        /\ Free(w, l.row, l.mode),
           \A row \in LockRow, mode \in {"X", "U"} :
              Holds(y, row, mode)
              <=> Has(w, row, mode) \/ [w |-> w, row |-> row, mode |-> mode] \in N,
           TxFacts(y)
    PROVE  TxInv'
<1>1. txn' \in [Proc -> TxRow]
  BY DEF TxInv
<1>2. held' \subseteq [w: Proc, row: LockRow, mode: {"X", "U"}]
  BY DEF TxInv, Locks
<1>3. ASSUME NEW v \in Proc, NEW x \in TxRow, txn'[v] = x,
             NEW row \in LockRow, NEW mode \in {"X", "U"}
      PROVE  Has(v, row, mode)' <=> Holds(x, row, mode)'
  <2>0. Holds(x, row, mode)' <=> Holds(x, row, mode)
    BY HoldsSame DEF vars
  <2>1. CASE v = w
    <3>1. x = y
      BY <1>3, <2>1 DEF TxInv
    <3> QED
      BY <2>0, <2>1, <3>1 DEF Has
  <2>2. CASE v # w
    <3>1. txn[v] = x
      BY <1>3, <2>2 DEF TxInv
    <3>2. Has(v, row, mode) <=> Holds(x, row, mode)
      BY <3>1 DEF TxInv, Locks
    <3>3. [w |-> v, row |-> row, mode |-> mode] \notin N
      BY <2>2
    <3> QED
      BY <2>0, <3>2, <3>3 DEF Has
  <2> QED
    BY <2>1, <2>2
<1>4. Exclusive'
  <2> SUFFICES ASSUME NEW l \in held', NEW m \in held', l.row = m.row, l.w # m.w
               PROVE  ~Conflicts(l.mode, m.mode)
    BY DEF Exclusive, Conflicts
  <2>1. CASE l \in held /\ m \in held
    BY <2>1 DEF TxInv, Exclusive
  <2>2. CASE l \in N /\ m \in held
    BY <2>2 DEF Free, Conflicts
  <2>3. CASE l \in held /\ m \in N
    BY <2>3 DEF Free, Conflicts
  <2>4. CASE l \in N /\ m \in N
    BY <2>4
  <2> QED
    BY <2>1, <2>2, <2>3, <2>4
<1>5. ASSUME NEW v \in Proc, NEW x \in TxRow, txn'[v] = x PROVE TxFacts(x)'
  <2>1. TxFacts(x)
    BY <1>5 DEF TxInv
  <2> QED
    BY <2>1, FactsSame
<1>6. Locks'
  BY <1>2, <1>3 DEF Locks
<1> QED
  BY <1>1, <1>4, <1>5, <1>6, IndSame DEF TxInv

-----------------------------------------------------------------------------
(* What a commit may do to the rows others know something about.           *)

\* No other transaction is deleting the client, and the client was used since
\* every open transaction began.
Spared(w, c) == \A v \in Proc \ {w} : ~Has(v, c, "X")
Touched(c) == client'[c] # NULL /\ client'[c].act + MaxTxAge >= now
Granted(w, c) == Spared(w, c) /\ Touched(c)

CodeEffect(w) == \A k \in Code :
    \/ code'[k] = code[k]
    \/ code'[k] = NULL /\ Has(w, k, "X")
    \/ k \notin used /\ code'[k] # NULL /\ Granted(w, code'[k].client)

FamilyEffect(w) == \A f \in Family :
    \/ family'[f] = family[f]
    \/ family'[f] = NULL /\ Has(w, f, "X")
    \/ /\ family[f] # NULL /\ family'[f] # NULL /\ Has(w, f, "X")
       /\ family'[f].client = family[f].client
       /\ family'[f].state = "revoked" \/ Granted(w, family[f].client)
    \/ f \notin used /\ family'[f] # NULL /\ Granted(w, family'[f].client)

AccessEffect(w) == \A a \in Access :
    \/ access'[a] = access[a]
    \/ access'[a] = NULL /\ Has(w, a, "X")
    \/ access[a] # NULL /\ access'[a] # NULL /\ access'[a].family = access[a].family
    \/ /\ a \notin used /\ access'[a] # NULL
       /\ Has(w, access'[a].family, "X") \/ access'[a].family \notin used

RefreshEffect(w) == \A r \in Refresh :
    \/ refresh'[r] = refresh[r]
    \/ refresh[r] # NULL /\ refresh'[r] = NULL /\ Has(w, refresh[r].family, "X")
    \/ /\ refresh[r] # NULL /\ refresh'[r] # NULL /\ Has(w, refresh[r].family, "X")
       /\ refresh'[r].family = refresh[r].family
    \/ /\ r \notin used /\ refresh'[r] # NULL
       /\ Has(w, refresh'[r].family, "X") \/ refresh'[r].family \notin used

ClientEffect(w) == \A c \in Client :
    /\ client'[c] = client[c] \/ (Spared(w, c) /\ (client'[c] = NULL \/ Touched(c)))
    /\ client[c] = NULL /\ client'[c] # NULL => Has(w, "registration", "X")

Effect(w) ==
    /\ now' = now /\ used \subseteq used'
    /\ CodeEffect(w) /\ FamilyEffect(w) /\ AccessEffect(w) /\ RefreshEffect(w)
    /\ ClientEffect(w)

\* Two transactions never hold the same row when one of them holds it exclusively.
LEMMA Apart ==
    ASSUME Exclusive, NEW v, NEW w, v # w, NEW row, NEW mode, Has(v, row, "X")
    PROVE  /\ ~Has(w, row, mode) /\ ~Has(w, row, "X")
           /\ v \in Proc => ~Spared(w, row)
BY DEF Exclusive, Has, Conflicts, Spared

\* A transaction holds what its position says.
LEMMA HoldsHas ==
    ASSUME TxInv, NEW v \in Proc, NEW x \in TxRow, txn[v] = x,
           NEW row \in LockRow, NEW mode \in {"X", "U"}, Holds(x, row, mode)
    PROVE  Has(v, row, mode)
BY DEF TxInv, Locks

\* The locked rows of the operations.
LEMMA OnFamilyKind ==
    ASSUME NEW x \in RenewTx \cup RotateTx
    PROVE  x.f \in Family /\ x.f \in LockRow
BY DEF RenewTx, RotateTx, LockRow, Key

\* A locked family stays as it is, and so do the refresh tokens of it.
LEMMA LockedFamily ==
    ASSUME TxInv, NEW w \in Proc, NEW v \in Proc, v # w, Effect(w),
           NEW f \in Family, f \in used, Has(v, f, "X")
    PROVE  /\ family'[f] = family[f]
           /\ \A r \in Refresh :
                 (refresh[r] # NULL /\ refresh[r].family = f)
                 \/ (refresh'[r] # NULL /\ refresh'[r].family = f)
                 => refresh'[r] = refresh[r]
           /\ \A a \in Access :
                 (access'[a] # NULL /\ access'[a].family = f)
                 => (access[a] # NULL /\ access[a].family = f)
<1>1. ~Has(w, f, "X")
  BY Apart DEF TxInv
<1>2. family'[f] = family[f]
  BY <1>1 DEF Effect, FamilyEffect
<1>3. ASSUME NEW r \in Refresh,
             (refresh[r] # NULL /\ refresh[r].family = f)
             \/ (refresh'[r] # NULL /\ refresh'[r].family = f)
      PROVE  refresh'[r] = refresh[r]
  <2>1. refresh[r] # NULL => r \in used
    BY DEF TxInv, IndInv, FreshKeys, TypeOK, Rows
  <2> QED
    BY <1>1, <1>3, <2>1 DEF Effect, RefreshEffect
<1>4. ASSUME NEW a \in Access, access'[a] # NULL, access'[a].family = f
      PROVE  access[a] # NULL /\ access[a].family = f
  BY <1>1, <1>4 DEF Effect, AccessEffect
<1> QED
  BY <1>2, <1>3, <1>4

\* A locked code stays as it is.
LEMMA LockedCode ==
    ASSUME TxInv, NEW w \in Proc, NEW v \in Proc, v # w, Effect(w),
           NEW k \in Code, k \in used, Has(v, k, "X")
    PROVE  code'[k] = code[k]
<1>1. ~Has(w, k, "X")
  BY Apart DEF TxInv
<1> QED
  BY <1>1 DEF Effect, CodeEffect

\* A transaction that renews keeps what it knows.
LEMMA OtherRenews ==
    ASSUME TxInv, NEW w \in Proc, NEW v \in Proc, v # w, Effect(w),
           NEW x \in RenewTx, x \in TxRow, txn[v] = x
    PROVE  Renewing(x)'
<1>0. /\ Renewing(x) /\ x.a \in Access /\ x.f \in Family
      /\ x.a \in LockRow /\ x.f \in LockRow
  BY DEF TxInv, TxFacts, RenewTx, LockRow, Key
<1>1. x.a \in used' /\ x.f \in used'
  BY <1>0 DEF Renewing, Effect
<1>2. access'[x.a] # NULL => access'[x.a].family = x.f
  BY <1>0 DEF Renewing, Effect, AccessEffect
<1>3. ASSUME OnFamily(x) PROVE family'[x.f] = family[x.f]
  <2>1. Has(v, x.f, "X")
    BY <1>0, <1>3, HoldsHas DEF Holds
  <2> QED
    BY <1>0, <2>1, LockedFamily DEF Renewing
<1>4. ASSUME x.pc \in {"renewRefresh", "renewCommit"} PROVE access'[x.a] # NULL
  <2>1. Has(v, x.a, "X")
    BY <1>0, <1>4, HoldsHas DEF Holds
  <2>2. ~Has(w, x.a, "X")
    BY <2>1, Apart DEF TxInv
  <2> QED
    BY <1>0, <1>4, <2>2 DEF Renewing, Effect, AccessEffect
<1>5. OnFamily(x)' <=> OnFamily(x)
  BY DEF OnFamily
<1> QED
  BY <1>0, <1>1, <1>2, <1>3, <1>4, <1>5 DEF Renewing, Judged, Alive, Found

\* So does one that rotates.
LEMMA OtherRotates ==
    ASSUME TxInv, NEW w \in Proc, NEW v \in Proc, v # w, Effect(w),
           NEW x \in RotateTx, x \in TxRow, txn[v] = x
    PROVE  Rotating(x)'
<1>0. /\ Rotating(x) /\ x.r \in Refresh /\ x.f \in Family
      /\ x.r \in LockRow /\ x.f \in LockRow
  BY DEF TxInv, TxFacts, RotateTx, LockRow, Key
<1>1. x.r \in used' /\ x.f \in used'
  BY <1>0 DEF Rotating, Effect
<1>2. refresh'[x.r] # NULL => refresh'[x.r].family = x.f
  BY <1>0 DEF Rotating, Effect, RefreshEffect
<1>3. ASSUME OnFamily(x)
      PROVE  family'[x.f] = family[x.f] /\ (refresh[x.r] # NULL => refresh'[x.r] = refresh[x.r])
  <2>1. Has(v, x.f, "X")
    BY <1>0, <1>3, HoldsHas DEF Holds
  <2> QED
    BY <1>0, <2>1, LockedFamily DEF Rotating
<1>4. (OnFamily(x)' <=> OnFamily(x)) /\ (x.pc \in {"rotateCommit", "replayCommit"} => OnFamily(x))
  BY DEF OnFamily
<1> QED
  BY <1>0, <1>1, <1>2, <1>3, <1>4 DEF Rotating, Judged, Alive, Found

\* One that exchanges a code.
LEMMA OtherExchanges ==
    ASSUME TxInv, NEW w \in Proc, NEW v \in Proc, v # w, Effect(w),
           NEW x \in ExchangeTx, x \in TxRow, txn[v] = x
    PROVE  Exchanging(x)'
<1>0. Exchanging(x) /\ x.k \in Code /\ x.k \in LockRow
  BY DEF TxInv, TxFacts, ExchangeTx, LockRow, Key
<1>1. x.k \in used'
  BY <1>0 DEF Exchanging, Effect
<1>2. ASSUME x.pc \in {"exchangeCommit", "rejectCommit"} PROVE code'[x.k] = code[x.k]
  <2>1. Has(v, x.k, "X")
    BY <1>0, <1>2, HoldsHas DEF Holds
  <2> QED
    BY <1>0, <2>1, LockedCode DEF Exchanging
<1> QED
  BY <1>0, <1>1, <1>2 DEF Exchanging, CodeValid

\* What one that deletes has locked: it keeps every client it has chosen from
\* getting a code or a session.
LEMMA Gone ==
    ASSUME TxInv, NEW v \in Proc, NEW x \in DeleteTx, x \in TxRow, txn[v] = x,
           NEW row \in x.gone
    PROVE  row \in Key /\ Has(v, row, "X") /\ (row \in used \/ row \in Client)
<1>1. row \in Key /\ row \in LockRow /\ x.pc \in {"evict", "registerCommit"}
  BY DEF DeleteTx, LockRow
<1>2. Has(v, row, "X")
  BY <1>1, HoldsHas DEF Holds
<1> QED
  BY <1>1, <1>2 DEF TxInv, TxFacts, Cascades, Due

\* A client that a DELETE has taken, and every row under it, is out of reach of
\* the other transactions: nothing of it changes, and nothing is added to it.
LEMMA GoneClient ==
    ASSUME TxInv, NEW w \in Proc, NEW v \in Proc, v # w, Effect(w), TypeOK',
           NEW x \in DeleteTx, x \in TxRow, txn[v] = x, NEW c \in x.gone \cap Client
    PROVE  /\ client'[c] = client[c]
           /\ CodesOf({c})' \subseteq CodesOf({c})
           /\ \A k \in CodesOf({c})' : code'[k] = code[k]
           /\ FamiliesOf({c})' \subseteq FamiliesOf({c})
           /\ \A f \in FamiliesOf({c})' :
                 family'[f] = family[f] \/ family'[f].state = "revoked"
<1>1. ~Spared(w, c)
  BY Gone DEF Spared
<1>2. client'[c] = client[c]
  BY <1>1 DEF Effect, ClientEffect
<1>3. TypeOK
  BY DEF TxInv, IndInv
<1>4. DOMAIN code' = Code /\ DOMAIN family' = Family /\ DOMAIN code = Code /\ DOMAIN family = Family
  BY <1>3 DEF TypeOK
<1>5. ASSUME NEW k \in CodesOf({c})' PROVE k \in CodesOf({c}) /\ code'[k] = code[k]
  <2>1. k \in Code /\ code'[k] # NULL /\ code'[k].client = c
    BY <1>4 DEF CodesOf, Rows
  <2>2. code'[k] = code[k]
    BY <1>1, <2>1 DEF Effect, CodeEffect, Granted
  <2> QED
    BY <1>4, <2>1, <2>2 DEF CodesOf, Rows
<1>6. ASSUME NEW f \in FamiliesOf({c})'
      PROVE  /\ f \in FamiliesOf({c})
             /\ family'[f] = family[f] \/ family'[f].state = "revoked"
  <2>1. f \in Family /\ family'[f] # NULL /\ family'[f].client = c
    BY <1>4 DEF FamiliesOf, Rows
  <2>2. \/ family'[f] = family[f]
        \/ family[f] # NULL /\ family[f].client = c /\ family'[f].state = "revoked"
    BY <1>1, <2>1 DEF Effect, FamilyEffect, Granted
  <2> QED
    BY <1>4, <2>1, <2>2 DEF FamiliesOf, Rows
<1> QED
  BY <1>2, <1>5, <1>6

\* Nothing enters the cascades of what is being deleted.
LEMMA OtherCascades ==
    ASSUME TxInv, NEW w \in Proc, NEW v \in Proc, v # w, Effect(w), TypeOK',
           NEW x \in DeleteTx, x \in TxRow, txn[v] = x
    PROVE  Cascades(x)'
<1>1. Cascades(x) /\ TypeOK
  BY DEF TxInv, TxFacts, IndInv
<1>2. Due(x)' \subseteq used' \cup Client
  BY <1>1 DEF Cascades, Due, Effect
<1>3. ASSUME NEW c \in x.gone \cap Client
      PROVE  CodesOf({c})' \cup FamiliesOf({c})' \subseteq Due(x)'
  <2>1. CodesOf({c})' \cup FamiliesOf({c})' \subseteq CodesOf({c}) \cup FamiliesOf({c})
    BY GoneClient
  <2>2. CodesOf({c}) \cup FamiliesOf({c}) \subseteq Due(x)
    BY <1>1 DEF Cascades
  <2> QED
    BY <2>1, <2>2 DEF Due
<1>4. ASSUME NEW f \in x.gone \cap Family
      PROVE  AccessOf({f})' \cup RefreshOf({f})' \subseteq Due(x)'
  <2>1. f \in used /\ Has(v, f, "X")
    BY Gone, KeyAssumption
  <2>2. AccessOf({f})' \subseteq AccessOf({f})
    BY <1>1, <2>1, LockedFamily DEF AccessOf, Rows, TypeOK
  <2>3. RefreshOf({f})' \subseteq RefreshOf({f})
    BY <1>1, <2>1, LockedFamily DEF RefreshOf, Rows, TypeOK
  <2>4. AccessOf({f}) \cup RefreshOf({f}) \subseteq Due(x)
    BY <1>1 DEF Cascades
  <2> QED
    BY <2>2, <2>3, <2>4 DEF Due
<1> QED
  BY <1>2, <1>3, <1>4 DEF Cascades

\* Nor do the rows it waits for change hands.
LEMMA OtherStaged ==
    ASSUME TxInv, NEW w \in Proc, NEW v \in Proc, v # w, Effect(w), TypeOK',
           NEW x \in DeleteTx, x \in TxRow, txn[v] = x
    PROVE  Staged(x)'
<1>1. Staged(x) /\ x.todo \subseteq used \cup Client
  BY DEF TxInv, TxFacts, Cascades, Due
<1>2. ASSUME NEW k \in x.todo \cap Code, code'[k] # NULL
      PROVE  code[k] # NULL /\ code'[k].client = code[k].client
  BY <1>1, <1>2, KeyAssumption DEF Effect, CodeEffect
<1>3. ASSUME NEW f \in x.todo \cap Family, family'[f] # NULL
      PROVE  family[f] # NULL /\ family'[f].client = family[f].client
  BY <1>1, <1>3, KeyAssumption DEF Effect, FamilyEffect
<1> QED
  BY <1>1, <1>2, <1>3 DEF Staged

\* A client without a grant gets none, or is used.
LEMMA NoGrantKept ==
    ASSUME TxInv, NEW w \in Proc, Effect(w), TypeOK', NEW c \in Client, NEW t, NoGrant(c, t)
    PROVE  NoGrant(c, t)' \/ Touched(c)
<1> SUFFICES ASSUME ~Touched(c) PROVE NoGrant(c, t)'
  OBVIOUS
<1>1. TypeOK /\ ~Granted(w, c)
  BY DEF TxInv, IndInv, Granted
<1>2. ASSUME NEW k \in CodesOf({c})' PROVE code'[k].expires <= t
  <2>1. k \in Code /\ code'[k] # NULL /\ code'[k].client = c
    BY DEF CodesOf, Rows, TypeOK
  <2>2. code'[k] = code[k]
    BY <1>1, <2>1 DEF Effect, CodeEffect
  <2>3. k \in CodesOf({c})
    BY <1>1, <2>1, <2>2 DEF CodesOf, Rows, TypeOK
  <2> QED
    BY <2>2, <2>3 DEF NoGrant
<1>3. ASSUME NEW f \in FamiliesOf({c})'
      PROVE  family'[f].state = "revoked" \/ family'[f].expires <= t
  <2>1. f \in Family /\ family'[f] # NULL /\ family'[f].client = c
    BY DEF FamiliesOf, Rows, TypeOK
  <2>2. family'[f] = family[f] \/ family'[f].state = "revoked"
    BY <1>1, <2>1 DEF Effect, FamilyEffect
  <2>3. family'[f] = family[f] => f \in FamiliesOf({c})
    BY <1>1, <2>1 DEF FamiliesOf, Rows, TypeOK
  <2> QED
    BY <2>2, <2>3 DEF NoGrant
<1> QED
  BY <1>2, <1>3 DEF NoGrant

\* What a DELETE takes stays over.
LEMMA OtherOver ==
    ASSUME TxInv, NEW w \in Proc, NEW v \in Proc, v # w, Effect(w), TypeOK',
           NEW x \in DeleteTx, x \in TxRow, txn[v] = x
    PROVE  Over(x)'
<1>1. Over(x) /\ TypeOK /\ x.start \in Nat /\ x.start <= now /\ now \in Nat
  BY Kinds DEF TxInv, TxFacts, IndInv, DeleteTx, Clocks, TypeOK
<1>2. ASSUME NEW k \in x.gone \cap Code PROVE code'[k] = code[k]
  BY Gone, LockedCode, KeyAssumption
<1>3. ASSUME NEW f \in x.gone \cap Family PROVE family'[f] = family[f]
  BY Gone, LockedFamily, KeyAssumption
<1>4. ASSUME NEW c \in x.gone \cap Client
      PROVE  client'[c] = client[c] /\ NoGrant(c, x.start)'
  <2>1. NoGrant(c, x.start)
    BY <1>1 DEF Over
  <2> QED
    <3>1. /\ client'[c] = client[c]
          /\ CodesOf({c})' \subseteq CodesOf({c})
          /\ \A k \in CodesOf({c})' : code'[k] = code[k]
          /\ FamiliesOf({c})' \subseteq FamiliesOf({c})
          /\ \A f \in FamiliesOf({c})' : family'[f] = family[f] \/ family'[f].state = "revoked"
      BY GoneClient
    <3> QED
      BY <2>1, <3>1 DEF NoGrant
<1>5. ASSUME NEW c \in x.todo \cap Client, client'[c] # NULL
      PROVE  NoGrant(c, x.start)' \/ client'[c].act + MaxTxAge >= x.start
  <2>0. client'[c] \in ClientRow
    BY <1>5 DEF TypeOK
  <2>1. Touched(c) => client'[c].act + MaxTxAge >= x.start
    BY <1>1, <2>0 DEF Touched, ClientRow
  <2>2. Touched(c) \/ (client'[c] = client[c] /\ client[c] # NULL)
    BY <1>5 DEF Effect, ClientEffect
  <2>3. CASE client'[c] = client[c] /\ client[c] # NULL
    <3>1. NoGrant(c, x.start) \/ client[c].act + MaxTxAge >= x.start
      BY <1>1, <2>3 DEF Over
    <3>2. NoGrant(c, x.start) => NoGrant(c, x.start)' \/ Touched(c)
      BY NoGrantKept
    <3> QED
      BY <2>1, <2>3, <3>1, <3>2
  <2> QED
    BY <2>1, <2>2, <2>3
<1>6. ASSUME NEW c \in x.gone \cap Client
      PROVE  client'[c] # NULL /\ ~client'[c].static /\ NoGrant(c, x.start)'
  BY <1>1, <1>4 DEF Over
<1> QED
  BY <1>1, <1>2, <1>3, <1>5, <1>6 DEF Over

\* The count of a registration stays true: it holds the lock of registrations, so
\* that no client is inserted meanwhile.
LEMMA OtherCounted ==
    ASSUME TxInv, NEW w \in Proc, NEW v \in Proc, v # w, Effect(w), TypeOK',
           NEW x \in DeleteTx, x \in TxRow, txn[v] = x
    PROVE  Counted(x)'
<1> SUFFICES ASSUME x.pc = "registerCommit" PROVE Counted(x)'
  BY DEF Counted
<1>1. /\ Counted(x) /\ Staged(x) /\ TypeOK /\ ClientCap
      /\ IsFiniteSet(Rows(client)) /\ Cardinality(Rows(client)) \in Nat
  BY RowsOfClient DEF TxInv, TxFacts, IndInv
<1>2. Has(v, "registration", "X")
  <2>1. Holds(x, "registration", "X") /\ "registration" \in LockRow
    BY <1>1 DEF Staged, Holds, LockRow
  <2> QED
    BY <2>1, HoldsHas
<1>3. ~Has(w, "registration", "X")
  BY <1>2, Apart DEF TxInv
<1>4. Rows(client)' \subseteq Rows(client)
  BY <1>1, <1>3 DEF Effect, ClientEffect, Rows, TypeOK
<1>5. ASSUME NEW S, S \subseteq Rows(client)
      PROVE  IsFiniteSet(S) /\ Cardinality(S) \in Nat
  BY <1>1, <1>5, FS_Subset, FS_CardinalityType
<1>6. Cardinality(Rows(client)' \ x.gone) <= Cardinality(Rows(client) \ x.gone)
  <2>1. IsFiniteSet(Rows(client) \ x.gone)
    BY <1>5
  <2> QED
    BY <1>4, <2>1, FS_Subset
<1>7. CASE x.kind = "cimd" /\ x.c \in Rows(client) \ x.gone /\ x.c \notin Rows(client)'
  <2>1. Rows(client)' \ x.gone \subseteq Rows(client) \ {x.c}
    BY <1>4, <1>7
  <2>2. Cardinality(Rows(client) \ {x.c}) = Cardinality(Rows(client)) - 1
    BY <1>1, <1>7, FS_RemoveElement
  <2>3. Cardinality(Rows(client)' \ x.gone) <= Cardinality(Rows(client) \ {x.c})
    BY <1>5, <2>1, FS_Subset
  <2>4. Cardinality(Rows(client)' \ x.gone) \in Nat
    BY <1>4, <1>5
  <2> QED
    BY <1>1, <2>2, <2>3, <2>4, CapAssumption DEF Counted, ClientCap
<1>8. CASE x.kind = "cimd" /\ x.c \in Rows(client)' \ x.gone
  BY <1>8 DEF Counted
<1>9. CASE Cardinality(Rows(client) \ x.gone) < MaxClients
  <2>1. Cardinality(Rows(client)' \ x.gone) \in Nat /\ Cardinality(Rows(client) \ x.gone) \in Nat
    BY <1>4, <1>5
  <2> QED
    BY <1>6, <1>9, <2>1, CapAssumption DEF Counted
<1> QED
  BY <1>1, <1>7, <1>8, <1>9 DEF Counted

\* All that is known of a transaction outlives the end of another one.
LEMMA OtherFacts ==
    ASSUME TxInv, NEW w \in Proc, NEW v \in Proc, v # w, Effect(w), TypeOK',
           NEW x \in TxRow, txn[v] = x
    PROVE  TxFacts(x)'
<1>1. TxFacts(x)
  BY DEF TxInv
<1>2. x # Idle => Clocks(x)'
  BY <1>1 DEF TxFacts, Clocks, Effect
<1>3. x \in RenewTx => Renewing(x)'
  BY OtherRenews
<1>4. x \in RotateTx => Rotating(x)'
  BY OtherRotates
<1>5. x \in ExchangeTx => Exchanging(x)'
  BY OtherExchanges
<1>6. x \in DeleteTx => Cascades(x)' /\ Staged(x)' /\ Over(x)' /\ Counted(x)'
  BY OtherCascades, OtherStaged, OtherOver, OtherCounted
<1> QED
  BY <1>1, <1>2, <1>3, <1>4, <1>5, <1>6 DEF TxFacts

\* And so do its locks.
LEMMA OtherHolds ==
    ASSUME TxInv, NEW w \in Proc, NEW v \in Proc, v # w, Effect(w), TypeOK',
           NEW x \in TxRow, txn[v] = x, NEW row, NEW mode
    PROVE  Holds(x, row, mode)' <=> Holds(x, row, mode)
<1>1. CASE x.pc # "renewCommit"
  BY <1>1 DEF Holds, OnFamily
<1>2. CASE x.pc = "renewCommit"
  <2>1. x \in RenewTx /\ TypeOK
    BY <1>2, Kinds DEF TxInv, IndInv
  <2>2. x.f \in Family /\ x.f \in LockRow /\ x.f \in used
    BY <2>1, OnFamilyKind DEF TxInv, TxFacts, Renewing
  <2>3. Has(v, x.f, "X")
    BY <1>2, <2>2, HoldsHas DEF Holds, OnFamily
  <2>4. \A r \in Refresh :
           (refresh[r] # NULL /\ refresh[r].family = x.f)
           \/ (refresh'[r] # NULL /\ refresh'[r].family = x.f)
           => refresh'[r] = refresh[r]
    BY <2>2, <2>3, LockedFamily
  <2>5. \A r : r \in LiveRefresh(x.f)' <=> r \in LiveRefresh(x.f)
    BY <2>1, <2>4 DEF LiveRefresh, Rows, TypeOK
  <2> QED
    BY <2>5 DEF Holds, OnFamily
<1> QED
  BY <1>1, <1>2

\* Commit and rollback: if the tables change within what others can bear, the
\* invariant is kept.
LEMMA FinishKeeps ==
    ASSUME TxInv, NEW w \in Proc, Finish(w), Effect(w), IndInv', ClientCap'
    PROVE  TxInv'
<1>0. TypeOK'
  BY DEF IndInv
<1>1. Idle \in TxRow /\ txn' = [txn EXCEPT ![w] = Idle] /\ held' = {l \in held : l.w # w}
  BY DEF TxRow, Finish
<1>2. txn' \in [Proc -> TxRow] /\ txn'[w] = Idle
  BY <1>1 DEF TxInv
<1>3. \A v \in Proc : v # w => txn'[v] = txn[v]
  BY <1>1 DEF TxInv
<1>4. held' \subseteq [w: Proc, row: LockRow, mode: {"X", "U"}]
  BY <1>1 DEF TxInv, Locks
<1>5. Idle.pc = "idle"
  BY DEF Idle
<1>6. ASSUME NEW v \in Proc, NEW x \in TxRow, txn'[v] = x,
             NEW row \in LockRow, NEW mode \in {"X", "U"}
      PROVE  Has(v, row, mode)' <=> Holds(x, row, mode)'
  <2>1. CASE v = w
    <3>1. x.pc = "idle"
      BY <1>2, <1>5, <1>6, <2>1
    <3>2. ~Holds(x, row, mode)'
      BY <3>1 DEF Holds, OnFamily
    <3> QED
      BY <1>1, <2>1, <3>2 DEF Has
  <2>2. CASE v # w
    <3>1. txn[v] = x
      BY <1>3, <1>6, <2>2
    <3>2. Holds(x, row, mode)' <=> Holds(x, row, mode)
      BY <1>0, <2>2, <3>1, OtherHolds
    <3>3. Has(v, row, mode) <=> Holds(x, row, mode)
      BY <3>1 DEF TxInv, Locks
    <3> QED
      BY <1>1, <2>2, <3>2, <3>3 DEF Has
  <2> QED
    BY <2>1, <2>2
<1>7. Exclusive'
  BY <1>1 DEF TxInv, Exclusive, Conflicts
<1>8. ASSUME NEW v \in Proc, NEW x \in TxRow, txn'[v] = x PROVE TxFacts(x)'
  <2>1. CASE v = w
    <3>1. x = Idle
      BY <1>2, <1>8, <2>1
    <3> QED
      BY <1>5, <3>1, Kinds DEF TxFacts
  <2>2. CASE v # w
    <3>1. txn[v] = x
      BY <1>3, <1>8, <2>2
    <3> QED
      BY <1>0, <2>2, <3>1, OtherFacts
  <2> QED
    BY <2>1, <2>2
<1>9. Locks'
  BY <1>4, <1>6 DEF Locks
<1> QED
  BY <1>2, <1>7, <1>8, <1>9 DEF TxInv

\* A rollback.
LEMMA RollbackKeeps ==
    ASSUME TxInv, NEW w \in Proc, Finish(w), UNCHANGED vars
    PROVE  TxInv'
<1>1. IndInv' /\ ClientCap'
  BY IndSame DEF TxInv
<1>2. Effect(w)
  BY DEF Effect, CodeEffect, FamilyEffect, AccessEffect, RefreshEffect, ClientEffect, vars
<1> QED
  BY <1>1, <1>2, FinishKeeps

-----------------------------------------------------------------------------
(* The transactions begin.                                                 *)

\* A step that takes no lock.
LEMMA StayKeeps ==
    ASSUME TxInv, NEW w \in Proc, NEW y \in TxRow,
           txn' = [txn EXCEPT ![w] = y], UNCHANGED <<vars, held>>,
           \A row \in LockRow, mode \in {"X", "U"} : Holds(y, row, mode) <=> Has(w, row, mode),
           TxFacts(y)
    PROVE  TxInv'
<1>1. PICK N : N = {}
  OBVIOUS
<1>2. held' = held \cup N
  BY <1>1
<1>3. \A row \in LockRow, mode \in {"X", "U"} :
         Holds(y, row, mode)
         <=> Has(w, row, mode) \/ [w |-> w, row |-> row, mode |-> mode] \in N
  BY <1>1
<1>4. \A l \in N : /\ l \in [w: {w}, row: LockRow, mode: {"X", "U"}]
                  /\ Free(w, l.row, l.mode)
  BY <1>1
<1> QED
  BY <1>2, <1>3, <1>4, LockStep

\* The first record of a transaction, before it has taken a lock.
LEMMA BeginKeeps ==
    ASSUME TxInv, NEW w \in Proc, txn[w] = Idle, NEW y \in TxRow,
           y.pc \in {"renewFamily", "rotateFamily", "exchangeCode", "createCode", "advisory"}
           \/ (y.pc = "evict" /\ y.kind = "evict" /\ y.gone = {}),
           txn' = [txn EXCEPT ![w] = y], UNCHANGED <<vars, held>>, TxFacts(y)
    PROVE  TxInv'
<1>1. Idle \in TxRow /\ Idle.pc = "idle"
  BY DEF TxRow, Idle
<1>2. \A row \in LockRow, mode \in {"X", "U"} : ~Has(w, row, mode)
  BY <1>1 DEF TxInv, Locks, Holds, OnFamily
<1>3. \A row \in LockRow, mode \in {"X", "U"} : ~Holds(y, row, mode)
  BY DEF Holds, OnFamily
<1> QED
  BY <1>2, <1>3, StayKeeps

\* VerifyBearer is one read and leaves the invariant alone.
LEMMA BearerKeeps ==
    ASSUME TxInv, NEW w \in Proc, NEW a \in Access, BearerRequest(w, a)
    PROVE  TxInv'
<1>0. TypeOK /\ IndInv /\ now \in Nat
  BY DEF TxInv, IndInv, TypeOK
<1>1. /\ access[a] # NULL /\ access[a].family \in Family
      /\ family[access[a].family] \in FamilyRow /\ family[access[a].family] # NULL
  BY <1>0 DEF BearerRequest, Usable, TypeOK, AccessRow
<1>2. PICK y : y = [pc |-> "renewFamily", a |-> a, f |-> access[a].family, start |-> now,
                    t |-> now, seen |-> family[access[a].family]]
  OBVIOUS
<1>3. y \in RenewTx /\ y \in TxRow
  BY <1>0, <1>1, <1>2 DEF RenewTx, TxRow
<1>4. Clocks(y)
  BY <1>0, <1>2 DEF Clocks
<1>5. Renewing(y)
  <2>1. a \in used /\ access[a].family \in used
    BY <1>0, <1>1 DEF IndInv, FreshKeys, Rows, TypeOK
  <2>2. family[access[a].family].expires <= now + TokenIdleTTL
    BY <1>0, <1>1 DEF IndInv, IdleWindow, Rows, TypeOK
  <2> QED
    BY <1>2, <2>1, <2>2 DEF Renewing, Found, OnFamily
<1>6. TxFacts(y)
  BY <1>2, <1>3, <1>4, <1>5, Kinds DEF TxFacts
<1> QED
  BY <1>2, <1>3, <1>6, BeginKeeps DEF BearerRequest

\* Starting a renewal or a rotation takes no lock: a session that was read may
\* still be changed by others.
LEMMA RefreshGrantKeeps ==
    ASSUME TxInv, NEW w \in Proc, NEW r \in Refresh, NEW c \in Client, RefreshGrant(w, r, c)
    PROVE  TxInv'
<1>0. TypeOK /\ IndInv /\ now \in Nat
  BY DEF TxInv, IndInv, TypeOK
<1>1. /\ refresh[r] # NULL /\ refresh[r].family \in Family
      /\ family[refresh[r].family] \in FamilyRow /\ family[refresh[r].family] # NULL
  BY <1>0 DEF RefreshGrant, TypeOK, RefreshRow, IndInv, ReferentialIntegrity, Rows
<1>2. PICK y : y = [pc |-> "rotateFamily", r |-> r, c |-> c, f |-> refresh[r].family,
                    start |-> now, t |-> now, seen |-> family[refresh[r].family],
                    alive |-> FALSE]
  OBVIOUS
<1>3. y \in RotateTx /\ y \in TxRow
  BY <1>0, <1>1, <1>2 DEF RotateTx, TxRow
<1>4. Clocks(y)
  BY <1>0, <1>2 DEF Clocks
<1>5. Rotating(y)
  <2>1. r \in used /\ refresh[r].family \in used
    BY <1>0, <1>1 DEF IndInv, FreshKeys, Rows, TypeOK
  <2>2. family[refresh[r].family].expires <= now + TokenIdleTTL
    BY <1>0, <1>1 DEF IndInv, IdleWindow, Rows, TypeOK
  <2> QED
    BY <1>2, <2>1, <2>2 DEF Rotating, Found, OnFamily
<1>6. TxFacts(y)
  BY <1>2, <1>3, <1>4, <1>5, Kinds DEF TxFacts
<1> QED
  BY <1>2, <1>3, <1>6, BeginKeeps DEF RefreshGrant

\* Starting an exchange reads the code and takes no lock.
LEMMA CodeGrantKeeps ==
    ASSUME TxInv, NEW w \in Proc, NEW k \in Code, NEW c \in Client, NEW b \in Binding,
           CodeGrant(w, k, c, b)
    PROVE  TxInv'
<1>0. TypeOK /\ IndInv /\ now \in Nat
  BY DEF TxInv, IndInv, TypeOK
<1>1. code[k] # NULL /\ code[k] \in CodeRow
  BY <1>0 DEF CodeGrant, TypeOK
<1>2. PICK y : y = [pc |-> "exchangeCode", k |-> k, c |-> c, b |-> b, start |-> now,
                    t |-> now, seen |-> code[k]]
  OBVIOUS
<1>3. y \in ExchangeTx /\ y \in TxRow
  BY <1>0, <1>1, <1>2 DEF ExchangeTx, TxRow
<1>4. Clocks(y)
  BY <1>0, <1>2 DEF Clocks
<1>5. Exchanging(y)
  <2>1. k \in used
    BY <1>0, <1>1 DEF IndInv, FreshKeys, Rows, TypeOK
  <2> QED
    BY <1>2, <2>1 DEF Exchanging
<1>6. TxFacts(y)
  BY <1>2, <1>3, <1>4, <1>5, Kinds DEF TxFacts
<1> QED
  BY <1>2, <1>3, <1>6, BeginKeeps DEF CodeGrant

\* Starting to store a code reads the client and takes no lock.
LEMMA AuthorizeKeeps ==
    ASSUME TxInv, NEW w \in Proc, NEW c \in Client, NEW b \in Binding, AuthorizePost(w, c, b)
    PROVE  TxInv'
<1>0. now \in Nat
  BY DEF TxInv, IndInv, TypeOK
<1>1. PICK y : y = [pc |-> "createCode", c |-> c, b |-> b, start |-> now]
  OBVIOUS
<1>2. y \in CreateTx /\ y \in TxRow
  BY <1>0, <1>1 DEF CreateTx, TxRow
<1>3. Clocks(y)
  BY <1>0, <1>1, <1>2, Kinds DEF Clocks
<1>4. TxFacts(y)
  BY <1>1, <1>2, <1>3, Kinds DEF TxFacts
<1> QED
  BY <1>1, <1>2, <1>4, BeginKeeps DEF AuthorizePost

\* Starting a registration takes no lock yet.
LEMMA RegisterBeginKeeps ==
    ASSUME TxInv, NEW w \in Proc, NEW kind, NEW c, RegisterBegin(w, kind, c)
    PROVE  TxInv'
<1>0. now \in Nat
  BY DEF TxInv, IndInv, TypeOK
<1>1. PICK y : y = [pc |-> "advisory", kind |-> kind, c |-> c, start |-> now]
  OBVIOUS
<1>2. y \in AdvisoryTx /\ y \in TxRow /\ (kind = "cimd" => c \in CimdClient)
  BY <1>0, <1>1, KeyAssumption DEF AdvisoryTx, TxRow, RegisterBegin
<1>3. Clocks(y)
  BY <1>0, <1>1, <1>2, Kinds DEF Clocks
<1>4. TxFacts(y)
  BY <1>1, <1>2, <1>3, Kinds DEF TxFacts
<1> QED
  BY <1>1, <1>2, <1>4, BeginKeeps DEF RegisterBegin

\* The first DELETE of evictExpired chooses its codes.
LEMMA EvictStartFacts ==
    ASSUME TxInv, NEW kind \in {"evict", "dcr", "cimd"}, NEW c \in Client \cup {NULL},
           kind = "cimd" => c \in CimdClient,
           NEW t \in Nat, t <= now, now <= t + MaxTxAge, NEW y, y = EvictStart(kind, c, t)
    PROVE  y \in DeleteTx /\ y \in TxRow /\ TxFacts(y)
<1>0. TypeOK /\ IndInv /\ now \in Nat
  BY DEF TxInv, IndInv, TypeOK
<1>1. y = [pc |-> "evict", kind |-> kind, c |-> c, start |-> t, stage |-> 1,
           todo |-> ExpiredCodes(t), gone |-> {}]
  BY DEF EvictStart, Selected
<1>2. ExpiredCodes(t) \subseteq Code /\ ExpiredCodes(t) \subseteq used
  BY <1>0 DEF ExpiredCodes, Rows, TypeOK, IndInv, FreshKeys
<1>3. y \in DeleteTx /\ y \in TxRow
  BY <1>1, <1>2 DEF DeleteTx, TxRow, Key
<1>4. Clocks(y)
  BY <1>1, <1>3, Kinds DEF Clocks
<1>5. Cascades(y)
  BY <1>1, <1>2 DEF Cascades, Due
<1>6. Staged(y) /\ Counted(y)
  BY <1>1, <1>2 DEF Staged, Counted
<1>7. Over(y)
  BY <1>1, <1>2, KeyAssumption DEF Over
<1> QED
  BY <1>1, <1>3, <1>4, <1>5, <1>6, <1>7, Kinds DEF TxFacts

\* A round of eviction starts with the rows its snapshot shows, none locked.
LEMMA EvictBeginKeeps ==
    ASSUME TxInv, NEW w \in Proc, EvictBegin(w)
    PROVE  TxInv'
<1>0. now \in Nat
  BY DEF TxInv, IndInv, TypeOK
<1>1. PICK y : y = EvictStart("evict", NULL, now)
  OBVIOUS
<1>2. y \in TxRow /\ TxFacts(y)
  BY <1>0, <1>1, EvictStartFacts
<1>3. y.pc = "evict" /\ y.kind = "evict" /\ y.gone = {}
  BY <1>1 DEF EvictStart
<1> QED
  BY <1>1, <1>2, <1>3, BeginKeeps DEF EvictBegin

-----------------------------------------------------------------------------
(* They take their locks.                                                  *)

\* One more row is locked.
LEMMA ContinueKeeps ==
    ASSUME TxInv, NEW w \in Proc, NEW x \in TxRow, txn[w] = x, NEW y \in TxRow,
           NEW row \in LockRow, Free(w, row, "X"), Continue(w, y, row, "X"), UNCHANGED vars,
           \A o \in LockRow, mode \in {"X", "U"} :
              Holds(y, o, mode) <=> Holds(x, o, mode) \/ (o = row /\ mode = "X"),
           TxFacts(y)
    PROVE  TxInv'
<1>1. PICK N : N = {[w |-> w, row |-> row, mode |-> "X"]}
  OBVIOUS
<1>2. txn' = [txn EXCEPT ![w] = y] /\ held' = held \cup N
  BY <1>1 DEF Continue
<1>3. \A l \in N : /\ l \in [w: {w}, row: LockRow, mode: {"X", "U"}]
                  /\ Free(w, l.row, l.mode)
  BY <1>1
<1>4. ASSUME NEW o \in LockRow, NEW mode \in {"X", "U"}
      PROVE  Holds(y, o, mode)
             <=> Has(w, o, mode) \/ [w |-> w, row |-> o, mode |-> mode] \in N
  <2>1. Has(w, o, mode) <=> Holds(x, o, mode)
    BY DEF TxInv, Locks
  <2>2. [w |-> w, row |-> o, mode |-> mode] \in N <=> (o = row /\ mode = "X")
    BY <1>1
  <2> QED
    BY <2>1, <2>2
<1> QED
  BY <1>2, <1>3, <1>4, LockStep

\* A clock reading taken again after a wait.
LEMMA Reading ==
    ASSUME NEW x, NEW row, now \in Nat, x.start \in Nat, x.t \in Nat,
           x.start <= x.t, x.t <= now
    PROVE  /\ ClockAfterWait(x, row) \in Nat
           /\ x.start <= ClockAfterWait(x, row) /\ ClockAfterWait(x, row) <= now
           /\ ClockAfterWait(x, row) = now \/ (row = x.seen /\ ClockAfterWait(x, row) = x.t)
BY DEF ClockAfterWait

\* The first UPDATE of a renewal locks the family, if it is still live.
LEMMA RenewFamilyKeeps == ASSUME TxInv, NEW w \in Proc, RenewFamily(w) PROVE TxInv'
<1>0. TypeOK /\ IndInv /\ now \in Nat
  BY DEF TxInv, IndInv, TypeOK
<1>1. PICK x \in TxRow : txn[w] = x
  BY DEF TxInv
<1>2. PICK t : t = ClockAfterWait(x, family[x.f])
  OBVIOUS
<1>3. /\ x.pc = "renewFamily" /\ Free(w, x.f, "X") /\ UNCHANGED vars
      /\ IF family[x.f] # NULL /\ family[x.f].state = "live" /\ family[x.f].expires > t
         THEN Continue(w, [x EXCEPT !.pc = "renewAccess", !.t = t], x.f, "X")
         ELSE Finish(w)
  BY <1>1, <1>2 DEF RenewFamily
<1>4. x \in RenewTx /\ Renewing(x) /\ Clocks(x) /\ x.f \in Family /\ x.f \in LockRow
  BY <1>1, <1>3, Kinds, OnFamilyKind DEF TxInv, TxFacts, RenewTx
<1>5. x.start \in Nat /\ x.t \in Nat /\ x.start <= x.t /\ x.t <= now
  BY <1>4 DEF RenewTx, Clocks
<1>6. t \in Nat /\ x.start <= t /\ t <= now /\ (t = now \/ (family[x.f] = x.seen /\ t = x.t))
  BY <1>0, <1>2, <1>5, Reading
<1>7. CASE Finish(w)
  BY <1>3, <1>7, RollbackKeeps
<1>8. CASE /\ family[x.f] # NULL /\ family[x.f].state = "live" /\ family[x.f].expires > t
           /\ Continue(w, [x EXCEPT !.pc = "renewAccess", !.t = t], x.f, "X")
  <2>1. PICK y : y = [x EXCEPT !.pc = "renewAccess", !.t = t]
    OBVIOUS
  <2>2. /\ y \in RenewTx /\ y \in TxRow /\ y.pc = "renewAccess" /\ y.t = t
        /\ y.a = x.a /\ y.f = x.f /\ y.start = x.start
    BY <1>4, <1>6, <2>1 DEF RenewTx, TxRow
  <2>3. \A o \in LockRow, mode \in {"X", "U"} :
           Holds(y, o, mode) <=> Holds(x, o, mode) \/ (o = x.f /\ mode = "X")
    BY <1>3, <2>2 DEF Holds, OnFamily
  <2>4. Clocks(y)
    BY <1>4, <1>5, <1>6, <2>2 DEF Clocks
  <2>5. family[x.f].expires <= t + TokenIdleTTL
    <3>1. CASE t = now
      BY <1>0, <1>4, <1>8, <3>1 DEF IndInv, IdleWindow, Rows, TypeOK
    <3>2. CASE family[x.f] = x.seen /\ t = x.t
      BY <1>3, <1>4, <1>8, <3>2 DEF Renewing, Found
    <3> QED
      BY <1>6, <3>1, <3>2
  <2>6. Renewing(y)
    BY <1>4, <1>8, <2>2, <2>5 DEF Renewing, Judged, Alive
  <2>7. TxFacts(y)
    BY <2>2, <2>4, <2>6, Kinds DEF TxFacts
  <2> QED
    BY <1>1, <1>3, <1>4, <1>8, <2>1, <2>2, <2>3, <2>7, ContinueKeeps
<1> QED
  BY <1>3, <1>7, <1>8

\* The second UPDATE locks the access token of a family already locked.
LEMMA RenewAccessKeeps == ASSUME TxInv, NEW w \in Proc, RenewAccess(w) PROVE TxInv'
<1>1. PICK x \in TxRow : txn[w] = x
  BY DEF TxInv
<1>3. /\ x.pc = "renewAccess" /\ Free(w, x.a, "X") /\ UNCHANGED vars
      /\ IF access[x.a] # NULL /\ access[x.a].expires > x.t
         THEN Continue(w, [x EXCEPT !.pc = "renewRefresh"], x.a, "X")
         ELSE Finish(w)
  BY <1>1 DEF RenewAccess
<1>4. x \in RenewTx /\ Renewing(x) /\ Clocks(x) /\ x.a \in LockRow
  BY <1>1, <1>3, Kinds DEF TxInv, TxFacts, RenewTx, LockRow, Key
<1>7. CASE Finish(w)
  BY <1>3, <1>7, RollbackKeeps
<1>8. CASE access[x.a] # NULL /\ Continue(w, [x EXCEPT !.pc = "renewRefresh"], x.a, "X")
  <2>1. PICK y : y = [x EXCEPT !.pc = "renewRefresh"]
    OBVIOUS
  <2>2. /\ y \in RenewTx /\ y \in TxRow /\ y.pc = "renewRefresh" /\ y.t = x.t
        /\ y.a = x.a /\ y.f = x.f /\ y.start = x.start
    BY <1>4, <2>1 DEF RenewTx, TxRow
  <2>3. \A o \in LockRow, mode \in {"X", "U"} :
           Holds(y, o, mode) <=> Holds(x, o, mode) \/ (o = x.a /\ mode = "X")
    BY <1>3, <2>2 DEF Holds, OnFamily
  <2>4. Clocks(y)
    BY <1>4, <2>2 DEF Clocks
  <2>6. Renewing(y)
    BY <1>3, <1>4, <1>8, <2>2 DEF Renewing, Judged, Alive, OnFamily
  <2>7. TxFacts(y)
    BY <2>2, <2>4, <2>6, Kinds DEF TxFacts
  <2> QED
    BY <1>1, <1>3, <1>4, <1>8, <2>1, <2>2, <2>3, <2>7, ContinueKeeps
<1> QED
  BY <1>3, <1>7, <1>8

\* The third UPDATE locks the refresh token of a family already locked.
LEMMA RenewRefreshKeeps == ASSUME TxInv, NEW w \in Proc, RenewRefresh(w) PROVE TxInv'
<1>1. PICK x \in TxRow : txn[w] = x
  BY DEF TxInv
<1>2. PICK N : N = [w: {w}, row: LiveRefresh(x.f), mode: {"U"}]
  OBVIOUS
<1>3. /\ x.pc = "renewRefresh" /\ UNCHANGED vars /\ held' = held \cup N
      /\ \A r \in LiveRefresh(x.f) : Free(w, r, "U")
      /\ txn' = [txn EXCEPT ![w] = [txn[w] EXCEPT !.pc = "renewCommit"]]
  BY <1>1, <1>2 DEF RenewRefresh
<1>4. x \in RenewTx /\ Renewing(x) /\ Clocks(x)
  BY <1>1, <1>3, Kinds DEF TxInv, TxFacts
<1>5. LiveRefresh(x.f) \subseteq LockRow
  BY DEF TxInv, IndInv, TypeOK, LiveRefresh, Rows, LockRow, Key
<1>6. PICK y : y = [x EXCEPT !.pc = "renewCommit"]
  OBVIOUS
<1>7. /\ y \in RenewTx /\ y \in TxRow /\ y.pc = "renewCommit" /\ y.t = x.t
      /\ y.a = x.a /\ y.f = x.f /\ y.start = x.start
  BY <1>4, <1>6 DEF RenewTx, TxRow
<1>8. txn' = [txn EXCEPT ![w] = y]
  BY <1>1, <1>3, <1>6
<1>9. \A l \in N : /\ l \in [w: {w}, row: LockRow, mode: {"X", "U"}]
                  /\ Free(w, l.row, l.mode)
  BY <1>2, <1>3, <1>5
<1>10. ASSUME NEW o \in LockRow, NEW mode \in {"X", "U"}
       PROVE  Holds(y, o, mode)
              <=> Has(w, o, mode) \/ [w |-> w, row |-> o, mode |-> mode] \in N
  <2>1. Has(w, o, mode) <=> Holds(x, o, mode)
    BY <1>1 DEF TxInv, Locks
  <2>2. [w |-> w, row |-> o, mode |-> mode] \in N <=> (o \in LiveRefresh(x.f) /\ mode = "U")
    BY <1>2
  <2> QED
    BY <1>3, <1>7, <2>1, <2>2 DEF Holds, OnFamily
<1>11. Clocks(y)
  BY <1>4, <1>7 DEF Clocks
<1>12. Renewing(y)
  BY <1>3, <1>4, <1>7 DEF Renewing, Judged, Alive, OnFamily
<1>13. TxFacts(y)
  BY <1>7, <1>11, <1>12, Kinds DEF TxFacts
<1> QED
  BY <1>3, <1>7, <1>8, <1>9, <1>10, <1>13, LockStep

\* A rotation locks the family and reads it again under the lock.
LEMMA RotateFamilyKeeps == ASSUME TxInv, NEW w \in Proc, RotateFamily(w) PROVE TxInv'
<1>0. TypeOK /\ IndInv /\ now \in Nat
  BY DEF TxInv, IndInv, TypeOK
<1>1. PICK x \in TxRow : txn[w] = x
  BY DEF TxInv
<1>2. PICK t : t = ClockAfterWait(x, family[x.f])
  OBVIOUS
<1>3. PICK alive : alive = (family[x.f].state = "live" /\ family[x.f].expires > t)
  OBVIOUS
<1>4. /\ x.pc = "rotateFamily" /\ Free(w, x.f, "X") /\ UNCHANGED vars
      /\ IF family[x.f] # NULL /\ family[x.f].client = x.c
         THEN Continue(w, [x EXCEPT !.pc = "rotateToken", !.t = t, !.alive = alive], x.f, "X")
         ELSE Finish(w)
  BY <1>1, <1>2, <1>3 DEF RotateFamily
<1>5. x \in RotateTx /\ Rotating(x) /\ Clocks(x) /\ x.f \in Family /\ x.f \in LockRow
  BY <1>1, <1>4, Kinds, OnFamilyKind DEF TxInv, TxFacts, RotateTx
<1>6. x.start \in Nat /\ x.t \in Nat /\ x.start <= x.t /\ x.t <= now
  BY <1>5 DEF RotateTx, Clocks
<1>7. t \in Nat /\ x.start <= t /\ t <= now /\ (t = now \/ (family[x.f] = x.seen /\ t = x.t))
  BY <1>0, <1>2, <1>6, Reading
<1>8. CASE Finish(w)
  BY <1>4, <1>8, RollbackKeeps
<1>9. CASE /\ family[x.f] # NULL /\ family[x.f].client = x.c
           /\ Continue(w, [x EXCEPT !.pc = "rotateToken", !.t = t, !.alive = alive], x.f, "X")
  <2>1. PICK y : y = [x EXCEPT !.pc = "rotateToken", !.t = t, !.alive = alive]
    OBVIOUS
  <2>0. alive \in BOOLEAN
    BY <1>3
  <2>2. /\ y \in RotateTx /\ y \in TxRow /\ y.pc = "rotateToken" /\ y.t = t
        /\ y.r = x.r /\ y.c = x.c /\ y.f = x.f /\ y.start = x.start /\ y.alive = alive
    BY <1>5, <1>7, <2>0, <2>1 DEF RotateTx, TxRow
  <2>3. \A o \in LockRow, mode \in {"X", "U"} :
           Holds(y, o, mode) <=> Holds(x, o, mode) \/ (o = x.f /\ mode = "X")
    BY <1>4, <2>2 DEF Holds, OnFamily
  <2>4. Clocks(y)
    BY <1>5, <1>6, <1>7, <2>2 DEF Clocks
  <2>5. family[x.f].expires <= t + TokenIdleTTL
    <3>1. CASE t = now
      BY <1>0, <1>5, <1>9, <3>1 DEF IndInv, IdleWindow, Rows, TypeOK
    <3>2. CASE family[x.f] = x.seen /\ t = x.t
      BY <1>4, <1>5, <1>9, <3>2 DEF Rotating, Found
    <3> QED
      BY <1>7, <3>1, <3>2
  <2>6. Rotating(y)
    BY <1>3, <1>5, <1>9, <2>2, <2>5 DEF Rotating, Judged, Alive
  <2>7. TxFacts(y)
    BY <2>2, <2>4, <2>6, Kinds DEF TxFacts
  <2> QED
    BY <1>1, <1>4, <1>5, <1>9, <2>1, <2>2, <2>3, <2>7, ContinueKeeps
<1> QED
  BY <1>4, <1>8, <1>9

\* A rotation locks the refresh token; a token already used turns it to a replay.
LEMMA RotateTokenKeeps == ASSUME TxInv, NEW w \in Proc, RotateToken(w) PROVE TxInv'
<1>1. PICK x \in TxRow : txn[w] = x
  BY DEF TxInv
<1>2. /\ x.pc = "rotateToken" /\ Free(w, x.r, "X") /\ UNCHANGED vars
      /\ \/ /\ refresh[x.r] # NULL /\ refresh[x.r].state = "consumed"
            /\ Continue(w, [x EXCEPT !.pc = "replayCommit"], x.r, "X")
         \/ /\ refresh[x.r] # NULL /\ refresh[x.r].state = "live" /\ x.alive
            /\ Continue(w, [x EXCEPT !.pc = "rotateCommit"], x.r, "X")
         \/ Finish(w)
  BY <1>1 DEF RotateToken
<1>3. x \in RotateTx /\ Rotating(x) /\ Clocks(x) /\ x.r \in LockRow
  BY <1>1, <1>2, Kinds DEF TxInv, TxFacts, RotateTx, LockRow, Key
<1>4. ASSUME NEW pc \in {"replayCommit", "rotateCommit"},
             Continue(w, [x EXCEPT !.pc = pc], x.r, "X"),
             pc = "replayCommit" => refresh[x.r] # NULL /\ refresh[x.r].state = "consumed",
             pc = "rotateCommit" => /\ refresh[x.r] # NULL /\ refresh[x.r].state = "live"
                                    /\ x.alive
      PROVE  TxInv'
  <2>1. PICK y : y = [x EXCEPT !.pc = pc]
    OBVIOUS
  <2>2. /\ y \in RotateTx /\ y \in TxRow /\ y.pc = pc /\ y.t = x.t
        /\ y.r = x.r /\ y.c = x.c /\ y.f = x.f /\ y.start = x.start /\ y.alive = x.alive
    BY <1>3, <2>1 DEF RotateTx, TxRow
  <2>3. \A o \in LockRow, mode \in {"X", "U"} :
           Holds(y, o, mode) <=> Holds(x, o, mode) \/ (o = x.r /\ mode = "X")
    BY <1>2, <2>2 DEF Holds, OnFamily
  <2>4. Clocks(y)
    BY <1>3, <2>2 DEF Clocks
  <2>5. Rotating(y)
    BY <1>2, <1>3, <1>4, <2>2 DEF Rotating, Judged, Alive, OnFamily
  <2>6. TxFacts(y)
    BY <2>2, <2>4, <2>5, Kinds DEF TxFacts
  <2> QED
    BY <1>1, <1>2, <1>3, <1>4, <2>1, <2>2, <2>3, <2>6, ContinueKeeps
<1>5. CASE Finish(w)
  BY <1>2, <1>5, RollbackKeeps
<1> QED
  BY <1>2, <1>4, <1>5

\* An exchange locks the code and reads it again under the lock.
LEMMA ExchangeLockKeeps == ASSUME TxInv, NEW w \in Proc, ExchangeLock(w) PROVE TxInv'
<1>0. now \in Nat
  BY DEF TxInv, IndInv, TypeOK
<1>1. PICK x \in TxRow : txn[w] = x
  BY DEF TxInv
<1>2. PICK t : t = ClockAfterWait(x, code[x.k])
  OBVIOUS
<1>3. PICK pc : pc = IF CodeValid(x.k, x.c, x.b, t) THEN "exchangeCommit" ELSE "rejectCommit"
  OBVIOUS
<1>4. /\ x.pc = "exchangeCode" /\ Free(w, x.k, "X") /\ UNCHANGED vars
      /\ IF code[x.k] = NULL
         THEN Finish(w)
         ELSE Continue(w, [x EXCEPT !.t = t, !.pc = pc], x.k, "X")
  BY <1>1, <1>2, <1>3 DEF ExchangeLock
<1>5. x \in ExchangeTx /\ Exchanging(x) /\ Clocks(x) /\ x.k \in LockRow
  BY <1>1, <1>4, Kinds DEF TxInv, TxFacts, ExchangeTx, LockRow, Key
<1>6. x.start \in Nat /\ x.t \in Nat /\ x.start <= x.t /\ x.t <= now
  BY <1>5 DEF ExchangeTx, Clocks
<1>7. t \in Nat /\ x.start <= t /\ t <= now
  BY <1>0, <1>2, <1>6, Reading
<1>8. CASE Finish(w)
  BY <1>4, <1>8, RollbackKeeps
<1>9. CASE code[x.k] # NULL /\ Continue(w, [x EXCEPT !.t = t, !.pc = pc], x.k, "X")
  <2>1. PICK y : y = [x EXCEPT !.t = t, !.pc = pc]
    OBVIOUS
  <2>0. pc \in {"exchangeCommit", "rejectCommit"}
    BY <1>3
  <2>2. /\ y \in ExchangeTx /\ y \in TxRow /\ y.pc = pc /\ y.t = t
        /\ y.k = x.k /\ y.c = x.c /\ y.b = x.b /\ y.start = x.start
    BY <1>5, <1>7, <2>0, <2>1 DEF ExchangeTx, TxRow
  <2>3. \A o \in LockRow, mode \in {"X", "U"} :
           Holds(y, o, mode) <=> Holds(x, o, mode) \/ (o = x.k /\ mode = "X")
    BY <1>4, <2>0, <2>2 DEF Holds, OnFamily
  <2>4. Clocks(y)
    BY <1>5, <1>6, <1>7, <2>2 DEF Clocks
  <2>5. Exchanging(y)
    BY <1>3, <1>5, <1>9, <2>2 DEF Exchanging
  <2>6. TxFacts(y)
    BY <2>2, <2>4, <2>5, Kinds DEF TxFacts
  <2> QED
    BY <1>1, <1>4, <1>5, <1>9, <2>1, <2>2, <2>3, <2>6, ContinueKeeps
<1> QED
  BY <1>4, <1>8, <1>9

-----------------------------------------------------------------------------
(* A DELETE takes its rows.                                                *)

\* A row that is taken is over.
LEMMA TakenIsOver ==
    ASSUME TxInv, NEW x \in DeleteTx, Clocks(x), Cascades(x), Staged(x), Over(x),
           x.pc = "evict", NEW row \in x.todo, StillSelected(row, x.stage, x.start)
    PROVE  /\ row \in Code => code[row] # NULL /\ code[row].expires <= x.start
           /\ row \in Family =>
                 /\ family[row] # NULL
                 /\ family[row].expires <= x.start \/ family[row].state = "revoked"
           /\ row \in Client =>
                 /\ client[row] # NULL /\ ~client[row].static /\ NoGrant(row, x.start)
<1>0. TypeOK /\ x.start \in Nat /\ x.stage \in 1..4 /\ x.todo \subseteq Key /\ x.gone \subseteq Key
  BY DEF TxInv, IndInv, DeleteTx
<1>1. ASSUME row \in Code PROVE code[row] # NULL /\ code[row].expires <= x.start
  <2>1. code[row] # NULL /\ (x.stage = 1 => code[row].expires <= x.start)
    BY <1>1, KeyAssumption DEF StillSelected
  <2>2. x.stage \in {1, 4}
    BY <1>0, <1>1, KeyAssumption DEF Staged
  <2>3. CASE x.stage = 4
    <3>1. code[row].client \in x.gone /\ code[row].client \in Client
      BY <1>0, <1>1, <2>1, <2>3 DEF Staged, TypeOK, CodeRow
    <3>2. NoGrant(code[row].client, x.start)
      BY <3>1 DEF Over
    <3> QED
      BY <1>0, <1>1, <2>1, <3>2 DEF NoGrant, CodesOf, Rows, TypeOK
  <2> QED
    BY <2>1, <2>2, <2>3
<1>2. ASSUME row \in Family
      PROVE  /\ family[row] # NULL
             /\ family[row].expires <= x.start \/ family[row].state = "revoked"
  <2>1. family[row] # NULL /\ (x.stage = 3 => family[row].expires <= x.start)
    BY <1>2, KeyAssumption DEF StillSelected
  <2>2. x.stage \in {3, 4}
    BY <1>0, <1>2, KeyAssumption DEF Staged
  <2>3. CASE x.stage = 4
    <3>1. family[row].client \in x.gone /\ family[row].client \in Client
      BY <1>0, <1>2, <2>1, <2>3 DEF Staged, TypeOK, FamilyRow
    <3>2. NoGrant(family[row].client, x.start)
      BY <3>1 DEF Over
    <3> QED
      BY <1>0, <1>2, <2>1, <3>2 DEF NoGrant, FamiliesOf, Rows, TypeOK
  <2> QED
    BY <2>1, <2>2, <2>3
<1>3. ASSUME row \in Client
      PROVE  client[row] # NULL /\ ~client[row].static /\ NoGrant(row, x.start)
  <2>1. /\ client[row] # NULL /\ ~client[row].static
        /\ client[row].act < x.start - ClientIdleTTL
    BY <1>3, KeyAssumption DEF StillSelected
  <2>2. client[row].act \in Nat
    BY <1>0, <1>3, <2>1 DEF TypeOK, ClientRow
  <2>3. ~(client[row].act + MaxTxAge >= x.start)
    BY <1>0, <2>1, <2>2, TTLAssumption
  <2> QED
    BY <1>3, <2>1, <2>3 DEF Over
<1> QED
  BY <1>1, <1>2, <1>3

\* What its deletion takes along.
LEMMA CascadedRows ==
    ASSUME IndInv, NEW row \in Key
    PROVE  /\ Cascaded(row) \subseteq used \cap (Key \ Client)
           /\ row \in Client => /\ CodesOf({row}) \cup FamiliesOf({row}) = Cascaded(row)
                                /\ Cascaded(row) \subseteq Code \cup Family
                                /\ \A k \in Cascaded(row) \cap Code : code[k].client = row
                                /\ \A f \in Cascaded(row) \cap Family : family[f].client = row
           /\ row \in Family => /\ AccessOf({row}) \cup RefreshOf({row}) = Cascaded(row)
                                /\ Cascaded(row) \subseteq Access \cup Refresh
           /\ row \notin Client \cup Family => Cascaded(row) = {}
<1>0. TypeOK
  BY DEF IndInv
<1>1. /\ CodesOf({row}) \subseteq Code \cap used /\ FamiliesOf({row}) \subseteq Family \cap used
      /\ AccessOf({row}) \subseteq Access \cap used /\ RefreshOf({row}) \subseteq Refresh \cap used
  BY <1>0 DEF IndInv, FreshKeys, CodesOf, FamiliesOf, AccessOf, RefreshOf, Rows, TypeOK
<1>2. CASE row \in Client
  <2>2. row \notin Family
    BY <1>2, KeyAssumption
  <2>1. Cascaded(row) = CodesOf({row}) \cup FamiliesOf({row})
    BY <1>2, <2>2 DEF Cascaded
  <2> QED
    BY <1>1, <1>2, <2>1, <2>2, KeyAssumption DEF Key, CodesOf, FamiliesOf
<1>3. CASE row \in Family
  <2>1. row \notin Client
    BY <1>3, KeyAssumption
  <2>2. Cascaded(row) = AccessOf({row}) \cup RefreshOf({row})
    BY <1>3, <2>1 DEF Cascaded
  <2> QED
    BY <1>1, <1>3, <2>1, <2>2, KeyAssumption DEF Key
<1>4. CASE row \notin Client \cup Family
  <2>1. Cascaded(row) = {}
    BY <1>4 DEF Cascaded
  <2> QED
    BY <1>4, <2>1
<1> QED
  BY <1>2, <1>3, <1>4

\* The locks of a transaction that deletes.
LEMMA EvictHolds ==
    ASSUME NEW x, x.pc \in {"evict", "registerCommit"}, NEW o, NEW mode
    PROVE  Holds(x, o, mode) <=>
             mode = "X" /\ (o \in x.gone \/ (o = "registration" /\ x.kind # "evict"))
BY DEF Holds, OnFamily

\* A row that is left, or that is gone meanwhile, is none that a cascade must take.
LEMMA LeftRow ==
    ASSUME TxInv, NEW x \in DeleteTx, Staged(x), x.pc = "evict",
           NEW row \in x.todo, ~StillSelected(row, x.stage, x.start)
    PROVE  /\ \A c \in x.gone \cap Client : row \notin CodesOf({c}) \cup FamiliesOf({c})
           /\ \A f \in x.gone \cap Family : row \notin AccessOf({f}) \cup RefreshOf({f})
<1>0. TypeOK /\ x.stage \in 1..4 /\ x.todo \subseteq Key
  BY DEF TxInv, IndInv, DeleteTx
<1>1. ASSUME NEW c \in x.gone \cap Client, row \in CodesOf({c}) \cup FamiliesOf({c})
      PROVE  FALSE
  <2>1. (row \in Code /\ code[row] # NULL) \/ (row \in Family /\ family[row] # NULL)
    BY <1>0, <1>1 DEF CodesOf, FamiliesOf, Rows, TypeOK
  <2>2. x.stage = 4
    BY <1>0, <1>1, KeyAssumption DEF Staged
  <2>3. CASE row \in Code /\ code[row] # NULL
    <3>1. StillSelected(row, x.stage, x.start)
          <=> code[row] # NULL /\ (x.stage = 1 => code[row].expires <= x.start)
      BY <2>3, KeyAssumption DEF StillSelected
    <3> QED
      BY <2>2, <2>3, <3>1
  <2>4. CASE row \in Family /\ family[row] # NULL
    <3>1. StillSelected(row, x.stage, x.start)
          <=> family[row] # NULL /\ (x.stage = 3 => family[row].expires <= x.start)
      BY <2>4, KeyAssumption DEF StillSelected
    <3> QED
      BY <2>2, <2>4, <3>1
  <2> QED
    BY <2>1, <2>3, <2>4
<1>2. ASSUME NEW f \in x.gone \cap Family, row \in AccessOf({f}) \cup RefreshOf({f})
      PROVE  FALSE
  <2>1. (row \in Access /\ access[row] # NULL) \/ (row \in Refresh /\ refresh[row] # NULL)
    BY <1>0, <1>2 DEF AccessOf, RefreshOf, Rows, TypeOK
  <2>2. x.stage \in {3, 4}
    BY <1>0, <1>2, KeyAssumption DEF Staged
  <2>3. CASE row \in Access /\ access[row] # NULL
    <3>1. StillSelected(row, x.stage, x.start)
          <=> access[row] # NULL /\ (x.stage = 2 => access[row].expires <= x.start)
      BY <2>3, KeyAssumption DEF StillSelected
    <3> QED
      BY <2>2, <2>3, <3>1
  <2>4. CASE row \in Refresh /\ refresh[row] # NULL
    <3>1. StillSelected(row, x.stage, x.start)
          <=> refresh[row] # NULL
      BY <2>4, KeyAssumption DEF StillSelected
    <3> QED
      BY <2>4, <3>1
  <2> QED
    BY <2>1, <2>3, <2>4
<1> QED
  BY <1>1, <1>2

\* A DELETE takes one more row, after it has re-read the row under its lock.
LEMMA EvictRowKeeps == ASSUME TxInv, NEW w \in Proc, NEW row, EvictRow(w, row) PROVE TxInv'
<1>0. IndInv /\ TypeOK
  BY DEF TxInv, IndInv
<1>1. PICK x \in TxRow : txn[w] = x
  BY DEF TxInv
<1>2. /\ x.pc = "evict" /\ row \in x.todo /\ Free(w, row, "X") /\ UNCHANGED vars
      /\ IF StillSelected(row, x.stage, x.start)
         THEN Continue(w, [x EXCEPT !.gone = @ \cup {row},
                                    !.todo = (@ \cup (Cascaded(row) \ x.gone)) \ {row}],
                       row, "X")
         ELSE txn' = [txn EXCEPT ![w] = [txn[w] EXCEPT !.todo = @ \ {row}]] /\ UNCHANGED held
  BY <1>1 DEF EvictRow
<1>3. x \in DeleteTx /\ Clocks(x) /\ Cascades(x) /\ Staged(x) /\ Over(x)
  BY <1>1, <1>2, Kinds DEF TxInv, TxFacts
<1>4. /\ row \in Key /\ row \in LockRow /\ x.stage \in 1..4 /\ x.start \in Nat
      /\ x.todo \subseteq Key /\ x.gone \subseteq Key
  BY <1>2, <1>3 DEF DeleteTx, LockRow
<1>5. CASE /\ StillSelected(row, x.stage, x.start)
           /\ Continue(w, [x EXCEPT !.gone = @ \cup {row},
                                    !.todo = (@ \cup (Cascaded(row) \ x.gone)) \ {row}],
                       row, "X")
  <2>1. PICK y : y = [x EXCEPT !.gone = @ \cup {row},
                               !.todo = (@ \cup (Cascaded(row) \ x.gone)) \ {row}]
    OBVIOUS
  <2>2. Cascaded(row) \subseteq used \cap (Key \ Client)
    BY <1>0, <1>4, CascadedRows
  <2>3. /\ y \in DeleteTx /\ y \in TxRow /\ y.pc = "evict" /\ y.start = x.start
        /\ y.stage = x.stage /\ y.kind = x.kind /\ y.c = x.c /\ y.gone = x.gone \cup {row}
        /\ y.todo = (x.todo \cup (Cascaded(row) \ x.gone)) \ {row}
    BY <1>2, <1>3, <1>4, <2>1, <2>2 DEF DeleteTx, TxRow
  <2>4. \A o \in LockRow, mode \in {"X", "U"} :
           Holds(y, o, mode) <=> Holds(x, o, mode) \/ (o = row /\ mode = "X")
    <3>1. \A o, mode : Holds(x, o, mode) <=>
             mode = "X" /\ (o \in x.gone \/ (o = "registration" /\ x.kind # "evict"))
      BY <1>2, EvictHolds
    <3>2. \A o, mode : Holds(y, o, mode) <=>
             mode = "X" /\ (o \in y.gone \/ (o = "registration" /\ y.kind # "evict"))
      BY <2>3, EvictHolds
    <3> QED
      BY <2>3, <3>1, <3>2
  <2>5. Clocks(y)
    BY <1>3, <2>3, Kinds DEF Clocks
  <2>6. Due(y) = Due(x) \cup Cascaded(row)
    BY <1>2, <2>3 DEF Due
  <2>7. Cascades(y)
    <3>1. Due(y) \subseteq used \cup Client
      BY <1>3, <2>2, <2>6 DEF Cascades
    <3>2. ASSUME NEW c \in y.gone \cap Client PROVE CodesOf({c}) \cup FamiliesOf({c}) \subseteq Due(y)
      <4>1. CASE c \in x.gone
        BY <1>3, <2>6, <3>2, <4>1 DEF Cascades
      <4>2. CASE c = row
        <5>1. CodesOf({c}) \cup FamiliesOf({c}) = Cascaded(row)
          BY <1>0, <1>4, <3>2, <4>2, CascadedRows
        <5> QED
          BY <2>6, <5>1
      <4> QED
        BY <2>3, <3>2, <4>1, <4>2
    <3>3. ASSUME NEW f \in y.gone \cap Family PROVE AccessOf({f}) \cup RefreshOf({f}) \subseteq Due(y)
      <4>1. CASE f \in x.gone
        BY <1>3, <2>6, <3>3, <4>1 DEF Cascades
      <4>2. CASE f = row
        <5>1. AccessOf({f}) \cup RefreshOf({f}) = Cascaded(row)
          BY <1>0, <1>4, <3>3, <4>2, CascadedRows
        <5> QED
          BY <2>6, <5>1
      <4> QED
        BY <2>3, <3>3, <4>1, <4>2
    <3> QED
      BY <3>1, <3>2, <3>3 DEF Cascades
  <2>8. Staged(y)
    <3>1. x.stage = 1 => y.todo \subseteq Code /\ y.gone \subseteq Code
      <4>1. row \in Code => Cascaded(row) = {}
        BY <1>0, <1>4, CascadedRows, KeyAssumption
      <4> QED
        BY <1>2, <1>3, <2>3, <4>1 DEF Staged
    <3>2. x.stage = 2 => y.todo \subseteq Access /\ y.gone \subseteq Code \cup Access
      <4>1. row \in Access => Cascaded(row) = {}
        BY <1>0, <1>4, CascadedRows, KeyAssumption
      <4> QED
        BY <1>2, <1>3, <2>3, <4>1 DEF Staged
    <3>3. x.stage = 3 => /\ y.todo \subseteq Family \cup Access \cup Refresh
                         /\ y.gone \cap Client = {}
      <4>1. row \in Family \cup Access \cup Refresh =>
               Cascaded(row) \subseteq Access \cup Refresh /\ row \notin Client
        BY <1>0, <1>4, CascadedRows, KeyAssumption
      <4> QED
        BY <1>2, <1>3, <2>3, <4>1 DEF Staged
    <3>4. ASSUME x.stage = 4, NEW k \in y.todo \cap Code, code[k] # NULL
          PROVE  code[k].client \in y.gone
      <4>1. CASE k \in x.todo
        BY <1>3, <2>3, <3>4, <4>1 DEF Staged
      <4>2. CASE k \in Cascaded(row)
        <5>1. row \in Client \/ row \in Family
          BY <1>0, <1>4, <4>2, CascadedRows
        <5>2. row \notin Family
          BY <1>0, <1>4, <4>2, <3>4, CascadedRows, KeyAssumption
        <5>3. code[k].client = row
          BY <1>0, <1>4, <3>4, <4>2, <5>1, <5>2, CascadedRows
        <5> QED
          BY <2>3, <5>3
      <4> QED
        BY <2>3, <4>1, <4>2
    <3>5. ASSUME x.stage = 4, NEW f \in y.todo \cap Family, family[f] # NULL
          PROVE  family[f].client \in y.gone
      <4>1. CASE f \in x.todo
        BY <1>3, <2>3, <3>5, <4>1 DEF Staged
      <4>2. CASE f \in Cascaded(row)
        <5>1. row \in Client \/ row \in Family
          BY <1>0, <1>4, <4>2, CascadedRows
        <5>2. row \notin Family
          BY <1>0, <1>4, <4>2, <3>5, CascadedRows, KeyAssumption
        <5>3. family[f].client = row
          BY <1>0, <1>4, <3>5, <4>2, <5>1, <5>2, CascadedRows
        <5> QED
          BY <2>3, <5>3
      <4> QED
        BY <2>3, <4>1, <4>2
    <3> QED
      BY <1>3, <2>3, <3>1, <3>2, <3>3, <3>4, <3>5 DEF Staged
  <2>9. Over(y)
    <3>1. \A c \in y.todo \cap Client : c \in x.todo \cap Client
      BY <2>2, <2>3
    <3> QED
      BY <1>2, <1>3, <1>5, <2>3, <3>1, TakenIsOver DEF Over
  <2>10. TxFacts(y)
    BY <2>3, <2>5, <2>7, <2>8, <2>9, Kinds DEF TxFacts, Counted
  <2> QED
    BY <1>1, <1>2, <1>4, <1>5, <2>1, <2>3, <2>4, <2>10, ContinueKeeps
<1>6. CASE ~StillSelected(row, x.stage, x.start)
  <2>1. PICK y : y = [x EXCEPT !.todo = @ \ {row}]
    OBVIOUS
  <2>2. txn' = [txn EXCEPT ![w] = y] /\ UNCHANGED held
    BY <1>1, <1>2, <1>6, <2>1
  <2>3. /\ y \in DeleteTx /\ y \in TxRow /\ y.pc = "evict" /\ y.start = x.start
        /\ y.stage = x.stage /\ y.kind = x.kind /\ y.c = x.c /\ y.gone = x.gone
        /\ y.todo = x.todo \ {row}
    BY <1>2, <1>3, <2>1 DEF DeleteTx, TxRow
  <2>4. ASSUME NEW o \in LockRow, NEW mode \in {"X", "U"}
        PROVE  Holds(y, o, mode) <=> Has(w, o, mode)
    <3>1. Holds(y, o, mode) <=> Holds(x, o, mode)
      BY <1>2, <2>3, EvictHolds
    <3> QED
      BY <1>1, <3>1 DEF TxInv, Locks
  <2>5. Clocks(y)
    BY <1>3, <2>3, Kinds DEF Clocks
  <2>6. Due(x) = Due(y) \cup {row} /\ Due(y) \subseteq Due(x)
    BY <1>2, <2>3 DEF Due
  <2>7. Cascades(y)
    <3>1. Due(y) \subseteq used \cup Client
      BY <1>3, <2>6 DEF Cascades
    <3>2. ASSUME NEW c \in y.gone \cap Client
          PROVE  CodesOf({c}) \cup FamiliesOf({c}) \subseteq Due(y)
      <4>1. CodesOf({c}) \cup FamiliesOf({c}) \subseteq Due(x)
        BY <1>3, <2>3, <3>2 DEF Cascades
      <4>2. row \notin CodesOf({c}) \cup FamiliesOf({c})
        BY <1>2, <1>3, <1>6, <2>3, <3>2, LeftRow
      <4> QED
        BY <2>6, <4>1, <4>2
    <3>3. ASSUME NEW f \in y.gone \cap Family
          PROVE  AccessOf({f}) \cup RefreshOf({f}) \subseteq Due(y)
      <4>1. AccessOf({f}) \cup RefreshOf({f}) \subseteq Due(x)
        BY <1>3, <2>3, <3>3 DEF Cascades
      <4>2. row \notin AccessOf({f}) \cup RefreshOf({f})
        BY <1>2, <1>3, <1>6, <2>3, <3>3, LeftRow
      <4> QED
        BY <2>6, <4>1, <4>2
    <3> QED
      BY <3>1, <3>2, <3>3 DEF Cascades
  <2>8. Staged(y) /\ Over(y) /\ Counted(y)
    <3>1. Staged(y)
      BY <1>3, <2>3 DEF Staged
    <3>2. Over(y)
      BY <1>3, <2>3 DEF Over
    <3> QED
      BY <2>3, <3>1, <3>2 DEF Counted
  <2>9. TxFacts(y)
    BY <2>3, <2>5, <2>7, <2>8, Kinds DEF TxFacts
  <2> QED
    BY <1>2, <2>2, <2>3, <2>4, <2>9, StayKeeps
<1> QED
  BY <1>2, <1>5, <1>6

\* The next DELETE chooses its rows.
LEMMA SelectedRows ==
    ASSUME IndInv, NEW t \in Nat, NEW gone, NEW stage \in 2..4
    PROVE  /\ stage = 2 => Selected(stage, t, gone) \subseteq Access
           /\ stage = 3 => Selected(stage, t, gone) \subseteq Family
           /\ stage = 4 => Selected(stage, t, gone) = IdleClients(t, gone, gone)
           /\ stage = 4 => Selected(stage, t, gone) \subseteq Client
           /\ Selected(stage, t, gone) \subseteq Key
           /\ Selected(stage, t, gone) \subseteq used \cup Client
<1>1. CASE stage = 2
  <2>1. Selected(stage, t, gone) = ExpiredAccess(t)
    BY <1>1 DEF Selected
  <2> QED
    BY <1>1, <2>1 DEF ExpiredAccess, Rows, IndInv, TypeOK, FreshKeys, Key
<1>2. CASE stage = 3
  <2>1. Selected(stage, t, gone) = ExpiredFamilies(t)
    BY <1>2 DEF Selected
  <2> QED
    BY <1>2, <2>1 DEF ExpiredFamilies, Rows, IndInv, TypeOK, FreshKeys, Key
<1>3. CASE stage = 4
  <2>1. Selected(stage, t, gone) = IdleClients(t, gone, gone)
    BY <1>3 DEF Selected
  <2> QED
    BY <1>3, <2>1 DEF IdleClients, Rows, IndInv, TypeOK, Key
<1> QED
  BY <1>1, <1>2, <1>3

\* An idle client has no grant, those that are being deleted apart.
LEMMA IdleHasNoGrant ==
    ASSUME TxInv, NEW x \in DeleteTx, Over(x), NEW c \in IdleClients(x.start, x.gone, x.gone)
    PROVE  NoGrant(c, x.start)
<1>0. TypeOK /\ x.start \in Nat
  BY DEF TxInv, IndInv, DeleteTx
<1>1. ASSUME NEW k \in CodesOf({c}) PROVE code[k].expires <= x.start
  <2>1. k \in Code /\ k \in x.gone
    BY <1>0 DEF CodesOf, Rows, IdleClients, TypeOK
  <2> QED
    BY <2>1 DEF Over
<1>2. ASSUME NEW f \in FamiliesOf({c})
      PROVE  family[f].state = "revoked" \/ family[f].expires <= x.start
  <2>1. f \in Family /\ f \in Rows(family) /\ family[f].client = c /\ family[f] \in FamilyRow
    BY <1>0 DEF FamiliesOf, Rows, TypeOK
  <2>2. CASE f \in x.gone
    BY <2>1, <2>2 DEF Over
  <2>3. CASE f \notin x.gone
    <3>1. ~(family[f].state = "live" /\ family[f].expires > x.start)
      BY <2>1, <2>3 DEF IdleClients
    <3> QED
      BY <1>0, <2>1, <3>1 DEF FamilyRow
  <2> QED
    BY <2>2, <2>3
<1> QED
  BY <1>1, <1>2 DEF NoGrant

\* A DELETE statement that is through its rows makes way for the next one.
LEMMA EvictNextKeeps == ASSUME TxInv, NEW w \in Proc, EvictNext(w) PROVE TxInv'
<1>0. IndInv
  BY DEF TxInv
<1>1. PICK x \in TxRow : txn[w] = x
  BY DEF TxInv
<1>2. PICK s : s = x.stage + 1
  OBVIOUS
<1>3. PICK T : T = Selected(s, x.start, x.gone) \ x.gone
  OBVIOUS
<1>4. PICK y : y = [x EXCEPT !.stage = s, !.todo = T]
  OBVIOUS
<1>5. /\ x.pc = "evict" /\ x.todo = {} /\ x.stage < 4 /\ UNCHANGED <<vars, held>>
      /\ txn' = [txn EXCEPT ![w].stage = @ + 1, ![w].todo = T]
  BY <1>1, <1>2, <1>3 DEF EvictNext
<1>6. x \in DeleteTx /\ Clocks(x) /\ Cascades(x) /\ Staged(x) /\ Over(x)
  BY <1>1, <1>5, Kinds DEF TxInv, TxFacts
<1>7. txn' = [txn EXCEPT ![w] = y]
  BY <1>1, <1>2, <1>4, <1>5 DEF TxInv
<1>8. s \in 2..4 /\ x.start \in Nat /\ x.stage \in 1..3 /\ s = x.stage + 1 /\ x.gone \subseteq Key
  BY <1>2, <1>5, <1>6 DEF DeleteTx
<1>9. /\ T \subseteq Key /\ T \subseteq used \cup Client
      /\ s = 2 => T \subseteq Access
      /\ s = 3 => T \subseteq Family
      /\ s = 4 => T \subseteq IdleClients(x.start, x.gone, x.gone) /\ T \subseteq Client
  BY <1>0, <1>3, <1>8, SelectedRows
<1>10. /\ y \in DeleteTx /\ y \in TxRow /\ y.pc = "evict" /\ y.start = x.start
       /\ y.stage = s /\ y.kind = x.kind /\ y.c = x.c /\ y.gone = x.gone /\ y.todo = T
  <2>1. s \in 1..4 /\ T \in SUBSET Key
    BY <1>8, <1>9
  <2>2. y \in DeleteTx
    BY <1>4, <1>6, <2>1 DEF DeleteTx
  <2> QED
    BY <1>4, <1>5, <1>6, <2>2 DEF DeleteTx, TxRow
<1>11. ASSUME NEW o \in LockRow, NEW mode \in {"X", "U"}
       PROVE  Holds(y, o, mode) <=> Has(w, o, mode)
  <2>1. Holds(y, o, mode) <=> Holds(x, o, mode)
    BY <1>5, <1>10, EvictHolds
  <2> QED
    BY <1>1, <2>1 DEF TxInv, Locks
<1>12. Clocks(y)
  BY <1>6, <1>10, Kinds DEF Clocks
<1>13. Cascades(y)
  <2>1. Due(x) = x.gone /\ Due(y) = x.gone \cup T
    BY <1>5, <1>10 DEF Due
  <2> QED
    BY <1>6, <1>9, <1>10, <2>1 DEF Cascades
<1>14. Staged(y)
  <2>1. s = 2 => y.todo \subseteq Access /\ y.gone \subseteq Code \cup Access
    BY <1>6, <1>8, <1>9, <1>10 DEF Staged
  <2>2. s = 3 => y.todo \subseteq Family \cup Access \cup Refresh /\ y.gone \cap Client = {}
    BY <1>6, <1>8, <1>9, <1>10, KeyAssumption DEF Staged
  <2>3. s = 4 => y.todo \cap Code = {} /\ y.todo \cap Family = {}
    BY <1>9, <1>10, KeyAssumption
  <2> QED
    BY <1>6, <1>8, <1>10, <2>1, <2>2, <2>3 DEF Staged
<1>15. Over(y)
  <2>1. ASSUME NEW c \in T \cap Client PROVE NoGrant(c, x.start)
    <3>1. s = 4
      BY <1>8, <1>9, KeyAssumption
    <3> QED
      BY <1>6, <1>9, <3>1, IdleHasNoGrant
  <2> QED
    BY <1>6, <1>10, <2>1 DEF Over
<1>16. TxFacts(y)
  BY <1>10, <1>12, <1>13, <1>14, <1>15, Kinds DEF TxFacts, Counted
<1> QED
  BY <1>5, <1>7, <1>10, <1>11, <1>16, StayKeeps

\* A registration gets the advisory lock when no other one holds it.
LEMMA RegisterLockKeeps == ASSUME TxInv, NEW w \in Proc, RegisterLock(w) PROVE TxInv'
<1>1. PICK x \in TxRow : txn[w] = x
  BY DEF TxInv
<1>2. PICK y : y = EvictStart(x.kind, x.c, x.start)
  OBVIOUS
<1>3. /\ x.pc = "advisory" /\ Free(w, "registration", "X") /\ UNCHANGED vars
      /\ Continue(w, y, "registration", "X")
  BY <1>1, <1>2 DEF RegisterLock
<1>4. x \in AdvisoryTx /\ Clocks(x) /\ (x.kind = "cimd" => x.c \in CimdClient)
  BY <1>1, <1>3, Kinds DEF TxInv, TxFacts
<1>5. /\ x.kind \in {"dcr", "cimd"} /\ x.c \in Client \cup {NULL} /\ x.start \in Nat
      /\ x.start <= now /\ now <= x.start + MaxTxAge
  BY <1>4 DEF AdvisoryTx, Clocks
<1>6. y \in TxRow /\ TxFacts(y)
  BY <1>2, <1>4, <1>5, EvictStartFacts
<1>7. y.pc = "evict" /\ y.kind = x.kind /\ y.gone = {}
  BY <1>2 DEF EvictStart
<1>8. "registration" \in LockRow
  BY DEF LockRow
<1>9. ASSUME NEW o \in LockRow, NEW mode \in {"X", "U"}
      PROVE  Holds(y, o, mode) <=> Holds(x, o, mode) \/ (o = "registration" /\ mode = "X")
  <2>1. ~Holds(x, o, mode)
    BY <1>3 DEF Holds, OnFamily
  <2>2. Holds(y, o, mode) <=> (o = "registration" /\ mode = "X")
    BY <1>5, <1>7, EvictHolds
  <2> QED
    BY <2>1, <2>2
<1> QED
  BY <1>1, <1>3, <1>6, <1>8, <1>9, ContinueKeeps

\* A registration counts the clients it has not deleted under the advisory lock.
LEMMA RegisterCountKeeps == ASSUME TxInv, NEW w \in Proc, RegisterCount(w) PROVE TxInv'
<1>1. PICK x \in TxRow : txn[w] = x
  BY DEF TxInv
<1>2. PICK y : y = [x EXCEPT !.pc = "registerCommit"]
  OBVIOUS
<1>3. /\ x.pc = "evict" /\ x.todo = {} /\ x.stage = 4 /\ x.kind # "evict" /\ UNCHANGED vars
      /\ \/ /\ \/ x.kind = "cimd" /\ x.c \in Rows(client) \ x.gone
               \/ Cardinality(Rows(client) \ x.gone) < MaxClients
            /\ txn' = [txn EXCEPT ![w].pc = "registerCommit"] /\ UNCHANGED held
         \/ Finish(w)
  BY <1>1 DEF RegisterCount
<1>4. x \in DeleteTx /\ Clocks(x) /\ Cascades(x) /\ Staged(x) /\ Over(x)
  BY <1>1, <1>3, Kinds DEF TxInv, TxFacts
<1>5. CASE Finish(w)
  BY <1>3, <1>5, RollbackKeeps
<1>6. CASE /\ \/ x.kind = "cimd" /\ x.c \in Rows(client) \ x.gone
              \/ Cardinality(Rows(client) \ x.gone) < MaxClients
           /\ txn' = [txn EXCEPT ![w].pc = "registerCommit"] /\ UNCHANGED held
  <2>1. txn' = [txn EXCEPT ![w] = y]
    BY <1>1, <1>2, <1>6 DEF TxInv
  <2>2. /\ y \in DeleteTx /\ y \in TxRow /\ y.pc = "registerCommit" /\ y.start = x.start
        /\ y.stage = x.stage /\ y.kind = x.kind /\ y.c = x.c /\ y.gone = x.gone /\ y.todo = x.todo
    BY <1>2, <1>4 DEF DeleteTx, TxRow
  <2>3. ASSUME NEW o \in LockRow, NEW mode \in {"X", "U"}
        PROVE  Holds(y, o, mode) <=> Has(w, o, mode)
    <3>1. Holds(y, o, mode) <=> Holds(x, o, mode)
      BY <1>3, <2>2, EvictHolds
    <3> QED
      BY <1>1, <3>1 DEF TxInv, Locks
  <2>4. Clocks(y)
    BY <1>4, <2>2, Kinds DEF Clocks
  <2>5. Cascades(y) /\ Staged(y)
    BY <1>3, <1>4, <2>2 DEF Cascades, Staged, Due
  <2>6. Over(y)
    BY <1>4, <2>2 DEF Over
  <2>7. Counted(y)
    BY <1>6, <2>2 DEF Counted
  <2>8. TxFacts(y)
    BY <2>2, <2>4, <2>5, <2>6, <2>7, Kinds DEF TxFacts
  <2> QED
    BY <1>3, <1>6, <2>1, <2>2, <2>3, <2>8, StayKeeps
<1> QED
  BY <1>3, <1>5, <1>6

-----------------------------------------------------------------------------
(* They commit.                                                            *)

\* Without a new client the cap is kept.
LEMMA FewerClients ==
    ASSUME TypeOK, ClientCap, Rows(client)' \subseteq Rows(client)
    PROVE  ClientCap'
<1>1. IsFiniteSet(Rows(client)) /\ Cardinality(Rows(client)) \in Nat
  BY RowsOfClient
<1>2. IsFiniteSet(Rows(client)') /\ Cardinality(Rows(client)') <= Cardinality(Rows(client))
  BY <1>1, FS_Subset
<1>3. Cardinality(Rows(client)') \in Nat
  BY <1>2, FS_CardinalityType
<1> QED
  BY <1>1, <1>2, <1>3, CapAssumption DEF ClientCap

\* A client row that could be locked for an update is being deleted by no one else.
LEMMA FreeIsSpared == ASSUME NEW w, NEW c, Free(w, c, "U") PROVE Spared(w, c)
BY DEF Free, Spared, Has, Conflicts

\* The use of a client, at the clock reading of an open transaction.
LEMMA Used ==
    ASSUME TxInv, NEW w \in Proc, NEW c \in Client, client[c] # NULL, Free(w, c, "U"),
           NEW t \in Nat, now <= t + MaxTxAge, client' = Touch(c, t)
    PROVE  ClientEffect(w) /\ Granted(w, c) /\ ClientCap'
<1>0. TypeOK /\ ClientCap /\ now \in Nat
  BY DEF TxInv, IndInv, TypeOK
<1>1. client' = [y \in Client |-> IF y = c /\ client[y] # NULL
                                  THEN [client[y] EXCEPT !.act = t] ELSE client[y]]
  BY DEF Touch
<1>2. client'[c] = [client[c] EXCEPT !.act = t] /\ client[c] \in ClientRow
  BY <1>0, <1>1 DEF TypeOK
<1>3. client'[c] \in ClientRow /\ client'[c].act = t
  BY <1>2 DEF ClientRow
<1>4. client'[c] # NULL
  BY <1>3, NullAssumption
<1>5. Touched(c)
  BY <1>3, <1>4 DEF Touched
<1>6. Spared(w, c)
  BY FreeIsSpared
<1>7. \A y \in Client : y # c => client'[y] = client[y]
  BY <1>1
<1>8. ClientEffect(w)
  BY <1>5, <1>6, <1>7 DEF ClientEffect
<1>9. Rows(client)' \subseteq Rows(client)
  BY <1>0, <1>1, <1>7 DEF Rows, TypeOK
<1>10. ClientCap'
  BY <1>0, <1>9, FewerClients
<1> QED
  BY <1>5, <1>6, <1>8, <1>10 DEF Granted

\* The age of a reading.
LEMMA RecentReading ==
    ASSUME TxInv, NEW w \in Proc, NEW x \in TxRow, txn[w] = x,
           x \in RenewTx \cup RotateTx \cup ExchangeTx
    PROVE  x.t \in Nat /\ x.t <= now /\ now <= x.t + MaxTxAge /\ now \in Nat
<1>1. Clocks(x) /\ x.start \in Nat /\ x.t \in Nat
  BY Kinds DEF TxInv, TxFacts, RenewTx, RotateTx, ExchangeTx
<1>2. now \in Nat
  BY DEF TxInv, IndInv, TypeOK
<1> QED
  BY <1>1, <1>2 DEF Clocks

\* A renewal that commits moves the three deadlines of one session together.
LEMMA RenewCommitKeeps == ASSUME TxInv, NEW w \in Proc, RenewCommit(w) PROVE TxInv'
<1>0. IndInv /\ TypeOK
  BY DEF TxInv, IndInv
<1>1. PICK x \in TxRow : txn[w] = x
  BY DEF TxInv
<1>2. /\ x.pc = "renewCommit" /\ Free(w, family[x.f].client, "U")
      /\ RenewRows(x.a, x.f, x.t) /\ Finish(w) /\ now' = now
  BY <1>1 DEF RenewCommit
<1>3. /\ x \in RenewTx /\ Renewing(x) /\ x.a \in Access /\ x.f \in Family /\ x.f \in LockRow
  BY <1>1, <1>2, Kinds DEF TxInv, TxFacts, RenewTx, LockRow, Key
<1>4. x.t \in Nat /\ x.t <= now /\ now <= x.t + MaxTxAge
  BY <1>1, <1>3, RecentReading
<1>5. /\ access[x.a] # NULL /\ access[x.a].family = x.f /\ family[x.f] # NULL
      /\ family[x.f].expires > x.t /\ family[x.f].expires <= x.t + TokenIdleTTL
  BY <1>2, <1>3 DEF Renewing, OnFamily, Judged, Alive
<1>6. Has(w, x.f, "X")
  BY <1>1, <1>2, <1>3, HoldsHas DEF Holds, OnFamily
<1>7. family[x.f].client \in Client /\ client[family[x.f].client] # NULL
  BY <1>0, <1>3, <1>5 DEF TypeOK, FamilyRow, IndInv, ReferentialIntegrity, Rows
<1>8. IndInv'
  BY <1>0, <1>2, <1>3, <1>4, <1>5, RenewInv
<1>9. ClientEffect(w) /\ Granted(w, family[x.f].client) /\ ClientCap'
  BY <1>2, <1>4, <1>7, Used DEF RenewRows
<1>10. CodeEffect(w) /\ used \subseteq used'
  BY <1>2 DEF RenewRows, CodeEffect
<1>11. FamilyEffect(w)
  <2>1. /\ \A g \in Family : g # x.f => family'[g] = family[g]
        /\ family'[x.f] = [family[x.f] EXCEPT !.expires = x.t + TokenIdleTTL]
        /\ family[x.f] \in FamilyRow
    BY <1>0, <1>2, <1>3, <1>5 DEF RenewRows, TypeOK
  <2>2. family'[x.f].client = family[x.f].client /\ family'[x.f] \in FamilyRow
    BY <1>4, <2>1, TTLAssumption DEF FamilyRow
  <2>3. family'[x.f] # NULL
    BY <2>2, NullAssumption
  <2> QED
    BY <1>5, <1>6, <1>9, <2>1, <2>2, <2>3 DEF FamilyEffect
<1>12. AccessEffect(w)
  <2>1. /\ \A b \in Access : b # x.a => access'[b] = access[b]
        /\ access'[x.a] = [access[x.a] EXCEPT !.expires = x.t + TokenIdleTTL]
        /\ access[x.a] \in AccessRow
    BY <1>0, <1>2, <1>3, <1>5 DEF RenewRows, TypeOK
  <2>2. access'[x.a].family = access[x.a].family /\ access'[x.a] \in AccessRow
    BY <1>4, <2>1, TTLAssumption DEF AccessRow
  <2>3. access'[x.a] # NULL
    BY <2>2, NullAssumption
  <2> QED
    BY <1>5, <2>1, <2>2, <2>3 DEF AccessEffect
<1>13. RefreshEffect(w)
  <2> SUFFICES ASSUME NEW r \in Refresh, refresh'[r] # refresh[r]
               PROVE  /\ refresh[r] # NULL /\ refresh'[r] # NULL
                      /\ Has(w, refresh[r].family, "X")
                      /\ refresh'[r].family = refresh[r].family
    BY DEF RefreshEffect
  <2>1. /\ refresh[r] # NULL /\ refresh[r].family = x.f /\ refresh[r] \in RefreshRow
        /\ refresh'[r] = [refresh[r] EXCEPT !.expires = x.t + TokenIdleTTL]
    BY <1>0, <1>2 DEF RenewRows, TypeOK
  <2>2. refresh'[r].family = refresh[r].family /\ refresh'[r] \in RefreshRow
    BY <1>4, <2>1, TTLAssumption DEF RefreshRow
  <2>3. refresh'[r] # NULL
    BY <2>2, NullAssumption
  <2> QED
    BY <1>6, <2>1, <2>2, <2>3
<1>14. Effect(w)
  BY <1>2, <1>9, <1>10, <1>11, <1>12, <1>13 DEF Effect
<1> QED
  BY <1>2, <1>8, <1>9, <1>14, FinishKeeps

\* A rotation that commits retires one token and adds its successor.
LEMMA RotateCommitKeeps ==
    ASSUME TxInv, NEW w \in Proc, NEW a2 \in Access, NEW r2 \in Refresh, RotateCommit(w, a2, r2)
    PROVE  TxInv'
<1>0. IndInv /\ TypeOK
  BY DEF TxInv, IndInv
<1>1. PICK x \in TxRow : txn[w] = x
  BY DEF TxInv
<1>2. /\ x.pc = "rotateCommit" /\ Free(w, x.c, "U") /\ {a2, r2} \cap used = {}
      /\ RotateRows(x.r, x.f, a2, r2, x.t) /\ Finish(w) /\ now' = now
  BY <1>1 DEF RotateCommit
<1>3. /\ x \in RotateTx /\ Rotating(x) /\ x.r \in Refresh /\ x.f \in Family /\ x.f \in LockRow
      /\ x.c \in Client
  BY <1>1, <1>2, Kinds DEF TxInv, TxFacts, RotateTx, LockRow, Key
<1>4. x.t \in Nat /\ x.t <= now /\ now <= x.t + MaxTxAge
  BY <1>1, <1>3, RecentReading
<1>5. /\ refresh[x.r] # NULL /\ refresh[x.r].family = x.f /\ refresh[x.r].state = "live"
      /\ family[x.f] # NULL /\ family[x.f].expires <= x.t + TokenIdleTTL
      /\ family[x.f].client = x.c
  BY <1>2, <1>3 DEF Rotating, OnFamily, Judged
<1>6. Has(w, x.f, "X")
  BY <1>1, <1>2, <1>3, HoldsHas DEF Holds, OnFamily
<1>7. client[x.c] # NULL
  BY <1>0, <1>3, <1>5 DEF TypeOK, IndInv, ReferentialIntegrity, Rows
<1>8. IndInv'
  BY <1>0, <1>2, <1>3, <1>4, <1>5, RotateInv
<1>9. ClientEffect(w) /\ Granted(w, x.c) /\ ClientCap'
  BY <1>2, <1>3, <1>4, <1>5, <1>7, Used DEF RotateRows
<1>10. CodeEffect(w) /\ used \subseteq used'
  BY <1>2 DEF RotateRows, CodeEffect
<1>11. FamilyEffect(w)
  <2>1. /\ \A g \in Family : g # x.f => family'[g] = family[g]
        /\ family'[x.f] = [family[x.f] EXCEPT !.expires = x.t + TokenIdleTTL]
        /\ family[x.f] \in FamilyRow
    BY <1>0, <1>2, <1>3, <1>5 DEF RotateRows, TypeOK
  <2>2. family'[x.f].client = family[x.f].client /\ family'[x.f] \in FamilyRow
    BY <1>4, <2>1, TTLAssumption DEF FamilyRow
  <2>3. family'[x.f] # NULL
    BY <2>2, NullAssumption
  <2> QED
    BY <1>5, <1>6, <1>9, <2>1, <2>2, <2>3 DEF FamilyEffect
<1>12. AccessEffect(w)
  <2>1. /\ \A b \in Access : b # a2 => access'[b] = access[b]
        /\ access'[a2] = [family |-> x.f, expires |-> x.t + TokenIdleTTL]
    BY <1>0, <1>2 DEF RotateRows, TypeOK
  <2>2. access'[a2].family = x.f /\ access'[a2] \in AccessRow
    BY <1>3, <1>4, <2>1, TTLAssumption DEF AccessRow
  <2>3. access'[a2] # NULL
    BY <2>2, NullAssumption
  <2> QED
    BY <1>2, <1>6, <2>1, <2>2, <2>3 DEF AccessEffect
<1>13. RefreshEffect(w)
  <2>1. /\ \A s \in Refresh : s # x.r /\ s # r2 => refresh'[s] = refresh[s]
        /\ refresh'[r2] = [family |-> x.f, expires |-> x.t + TokenIdleTTL, state |-> "live"]
        /\ x.r # r2 => refresh'[x.r] = [refresh[x.r] EXCEPT !.state = "consumed"]
        /\ refresh[x.r] \in RefreshRow
    BY <1>0, <1>2, <1>3, <1>5 DEF RotateRows, TypeOK
  <2>2. refresh'[r2].family = x.f /\ refresh'[r2] \in RefreshRow
    BY <1>3, <1>4, <2>1, TTLAssumption DEF RefreshRow
  <2>3. x.r # r2 => refresh'[x.r].family = x.f /\ refresh'[x.r] \in RefreshRow
    BY <1>5, <2>1 DEF RefreshRow
  <2>4. refresh'[r2] # NULL /\ (x.r # r2 => refresh'[x.r] # NULL)
    BY <2>2, <2>3, NullAssumption
  <2>5. r2 \notin used
    BY <1>2
  <2> QED
    BY <1>5, <1>6, <2>1, <2>2, <2>3, <2>4, <2>5 DEF RefreshEffect
<1>14. Effect(w)
  BY <1>2, <1>9, <1>10, <1>11, <1>12, <1>13 DEF Effect
<1> QED
  BY <1>2, <1>8, <1>9, <1>14, FinishKeeps

\* A replay that commits revokes the family it holds.
LEMMA ReplayCommitKeeps == ASSUME TxInv, NEW w \in Proc, ReplayCommit(w) PROVE TxInv'
<1>0. IndInv /\ TypeOK /\ ClientCap
  BY DEF TxInv, IndInv
<1>1. PICK x \in TxRow : txn[w] = x
  BY DEF TxInv
<1>2. x.pc = "replayCommit" /\ RevokeFamily(x.f) /\ Finish(w) /\ now' = now
  BY <1>1 DEF ReplayCommit
<1>3. x \in RotateTx /\ Rotating(x) /\ x.f \in Family /\ x.f \in LockRow
  BY <1>1, <1>2, Kinds DEF TxInv, TxFacts, RotateTx, LockRow, Key
<1>4. family[x.f] # NULL
  BY <1>2, <1>3 DEF Rotating, OnFamily, Judged
<1>5. Has(w, x.f, "X")
  BY <1>1, <1>2, <1>3, HoldsHas DEF Holds, OnFamily
<1>6. IndInv'
  BY <1>0, <1>2, <1>3, <1>4, RevokeInv
<1>7. ClientCap'
  BY <1>0, <1>2, FewerClients DEF RevokeFamily, Rows
<1>8. FamilyEffect(w)
  <2>1. /\ \A g \in Family : g # x.f => family'[g] = family[g]
        /\ family'[x.f] = [family[x.f] EXCEPT !.state = "revoked"]
        /\ family[x.f] \in FamilyRow
    BY <1>0, <1>2, <1>3, <1>4 DEF RevokeFamily, TypeOK
  <2>2. /\ family'[x.f].client = family[x.f].client /\ family'[x.f].state = "revoked"
        /\ family'[x.f] \in FamilyRow
    BY <2>1 DEF FamilyRow
  <2>3. family'[x.f] # NULL
    BY <2>2, NullAssumption
  <2> QED
    BY <1>4, <1>5, <2>1, <2>2, <2>3 DEF FamilyEffect
<1>9. Effect(w)
  BY <1>2, <1>8 DEF Effect, CodeEffect, AccessEffect, RefreshEffect, ClientEffect, RevokeFamily
<1> QED
  BY <1>2, <1>6, <1>7, <1>9, FinishKeeps

\* An exchange that commits uses the code up and adds one session.
LEMMA ExchangeCommitKeeps ==
    ASSUME TxInv, NEW w \in Proc, NEW f \in Family, NEW a \in Access, NEW r \in Refresh,
           ExchangeCommit(w, f, a, r)
    PROVE  TxInv'
<1>0. IndInv /\ TypeOK
  BY DEF TxInv, IndInv
<1>1. PICK x \in TxRow : txn[w] = x
  BY DEF TxInv
<1>2. /\ x.pc = "exchangeCommit" /\ Free(w, x.c, "U") /\ {f, a, r} \cap used = {}
      /\ IF client[x.c] = NULL
         THEN UNCHANGED <<tables, used>>
         ELSE InsertTokenPair(x.k, x.c, f, a, r, x.t)
      /\ Finish(w) /\ now' = now
  BY <1>1 DEF ExchangeCommit
<1>3. CASE client[x.c] = NULL
  <2>1. UNCHANGED vars
    BY <1>2, <1>3 DEF vars, tables
  <2> QED
    BY <1>2, <2>1, RollbackKeeps
<1>4. CASE client[x.c] # NULL /\ InsertTokenPair(x.k, x.c, f, a, r, x.t)
  <2>1. x \in ExchangeTx /\ x.k \in Code /\ x.k \in LockRow /\ x.c \in Client
    BY <1>1, <1>2, Kinds DEF TxInv, TxFacts, ExchangeTx, LockRow, Key
  <2>2. x.t \in Nat /\ x.t <= now /\ now <= x.t + MaxTxAge
    BY <1>1, <2>1, RecentReading
  <2>3. Has(w, x.k, "X")
    BY <1>1, <1>2, <2>1, HoldsHas DEF Holds
  <2>4. IndInv'
    BY <1>0, <1>2, <1>4, <2>1, <2>2, InsertPairInv
  <2>5. ClientEffect(w) /\ Granted(w, x.c) /\ ClientCap'
    BY <1>2, <1>4, <2>1, <2>2, Used DEF InsertTokenPair
  <2>6. CodeEffect(w) /\ used \subseteq used'
    BY <1>0, <1>4, <2>1, <2>3 DEF InsertTokenPair, CodeEffect, TypeOK
  <2>7. FamilyEffect(w)
    <3>1. /\ \A g \in Family : g # f => family'[g] = family[g]
          /\ family'[f] = [client |-> x.c, expires |-> x.t + TokenIdleTTL, state |-> "live"]
      BY <1>0, <1>4 DEF InsertTokenPair, TypeOK
    <3>2. family'[f].client = x.c /\ family'[f] \in FamilyRow
      BY <2>1, <2>2, <3>1, TTLAssumption DEF FamilyRow
    <3>3. family'[f] # NULL
      BY <3>2, NullAssumption
    <3>4. f \notin used
      BY <1>2
    <3> QED
      BY <2>5, <3>1, <3>2, <3>3, <3>4 DEF FamilyEffect
  <2>8. AccessEffect(w)
    <3>1. /\ \A b \in Access : b # a => access'[b] = access[b]
          /\ access'[a] = [family |-> f, expires |-> x.t + TokenIdleTTL]
      BY <1>0, <1>4 DEF InsertTokenPair, TypeOK
    <3>2. access'[a].family = f /\ access'[a] \in AccessRow
      BY <2>2, <3>1, TTLAssumption DEF AccessRow
    <3>3. access'[a] # NULL
      BY <3>2, NullAssumption
    <3> QED
      BY <1>2, <3>1, <3>2, <3>3 DEF AccessEffect
  <2>9. RefreshEffect(w)
    <3>1. /\ \A s \in Refresh : s # r => refresh'[s] = refresh[s]
          /\ refresh'[r] = [family |-> f, expires |-> x.t + TokenIdleTTL, state |-> "live"]
      BY <1>0, <1>4 DEF InsertTokenPair, TypeOK
    <3>2. refresh'[r].family = f /\ refresh'[r] \in RefreshRow
      BY <2>2, <3>1, TTLAssumption DEF RefreshRow
    <3>3. refresh'[r] # NULL
      BY <3>2, NullAssumption
    <3> QED
      BY <1>2, <3>1, <3>2, <3>3 DEF RefreshEffect
  <2>10. Effect(w)
    BY <1>2, <2>5, <2>6, <2>7, <2>8, <2>9 DEF Effect
  <2> QED
    BY <1>2, <2>4, <2>5, <2>10, FinishKeeps
<1> QED
  BY <1>2, <1>3, <1>4

\* An exchange that fails after the code was read uses the code up all the same.
LEMMA RejectCommitKeeps == ASSUME TxInv, NEW w \in Proc, RejectCommit(w) PROVE TxInv'
<1>0. IndInv /\ TypeOK /\ ClientCap
  BY DEF TxInv, IndInv
<1>1. PICK x \in TxRow : txn[w] = x
  BY DEF TxInv
<1>2. x.pc = "rejectCommit" /\ ConsumeCode(x.k) /\ Finish(w) /\ now' = now
  BY <1>1 DEF RejectCommit
<1>3. x \in ExchangeTx /\ x.k \in Code /\ x.k \in LockRow
  BY <1>1, <1>2, Kinds DEF ExchangeTx, LockRow, Key
<1>4. Has(w, x.k, "X")
  BY <1>1, <1>2, <1>3, HoldsHas DEF Holds
<1>5. IndInv'
  BY <1>0, <1>2, <1>3, ConsumeInv
<1>6. ClientCap'
  BY <1>0, <1>2, FewerClients DEF ConsumeCode, Rows
<1>7. CodeEffect(w)
  BY <1>0, <1>2, <1>3, <1>4 DEF ConsumeCode, CodeEffect, TypeOK
<1>8. Effect(w)
  BY <1>2, <1>7 DEF Effect, FamilyEffect, AccessEffect, RefreshEffect, ClientEffect, ConsumeCode
<1> QED
  BY <1>2, <1>5, <1>6, <1>8, FinishKeeps

\* A code that is stored has a client that is still there.
LEMMA CreateCodeKeeps ==
    ASSUME TxInv, NEW w \in Proc, NEW k \in Code, CreateCodeCommit(w, k) PROVE TxInv'
<1>0. IndInv /\ TypeOK /\ now \in Nat
  BY DEF TxInv, IndInv, TypeOK
<1>1. PICK x \in TxRow : txn[w] = x
  BY DEF TxInv
<1>2. /\ x.pc = "createCode" /\ k \notin used /\ Free(w, x.c, "U")
      /\ IF client[x.c] = NULL
         THEN UNCHANGED <<tables, used>>
         ELSE InsertCode(k, x.c, x.b, x.start)
      /\ Finish(w) /\ now' = now
  BY <1>1 DEF CreateCodeCommit
<1>3. CASE client[x.c] = NULL
  <2>1. UNCHANGED vars
    BY <1>2, <1>3 DEF vars, tables
  <2> QED
    BY <1>2, <2>1, RollbackKeeps
<1>4. CASE client[x.c] # NULL /\ InsertCode(k, x.c, x.b, x.start)
  <2>1. x \in CreateTx /\ Clocks(x)
    BY <1>1, <1>2, Kinds DEF TxInv, TxFacts
  <2>2. /\ x.c \in Client /\ x.b \in Binding /\ x.start \in Nat /\ x.start <= now
        /\ now <= x.start + MaxTxAge
    BY <2>1 DEF CreateTx, Clocks
  <2>3. IndInv'
    BY <1>0, <1>2, <1>4, <2>2, InsertCodeInv
  <2>4. ClientEffect(w) /\ Granted(w, x.c) /\ ClientCap'
    BY <1>2, <1>4, <2>2, Used DEF InsertCode
  <2>5. CodeEffect(w)
    <3>1. /\ \A j \in Code : j # k => code'[j] = code[j]
          /\ code'[k] = [client |-> x.c, bind |-> x.b, expires |-> x.start + CodeTTL]
      BY <1>0, <1>4 DEF InsertCode, TypeOK
    <3>2. code'[k].client = x.c /\ code'[k] \in CodeRow
      BY <2>2, <3>1, TTLAssumption DEF CodeRow
    <3>3. code'[k] # NULL
      BY <3>2, NullAssumption
    <3> QED
      BY <1>2, <2>4, <3>1, <3>2, <3>3 DEF CodeEffect
  <2>6. Effect(w)
    BY <1>2, <1>4, <2>4, <2>5 DEF Effect, FamilyEffect, AccessEffect, RefreshEffect, InsertCode
  <2> QED
    BY <1>2, <2>3, <2>4, <2>6, FinishKeeps
<1> QED
  BY <1>2, <1>3, <1>4

\* The rows that go with the four DELETEs are all locked.
LEMMA DeleteGoneEffect ==
    ASSUME TxInv, NEW w \in Proc, NEW x \in DeleteTx, x \in TxRow, txn[w] = x, x.todo = {},
           DeleteGone(x.gone)
    PROVE  CodeEffect(w) /\ FamilyEffect(w) /\ AccessEffect(w) /\ RefreshEffect(w)
<1>0. TypeOK /\ Cascades(x) /\ Due(x) = x.gone
  BY DEF TxInv, IndInv, TxFacts, Due
<1>1. \A row \in x.gone : Has(w, row, "X")
  BY Gone
<1>2. PICK F : F = (x.gone \cap Family) \cup FamiliesOf(x.gone \cap Client)
  OBVIOUS
<1>3. /\ code'    = Without(code, (x.gone \cap Code) \cup CodesOf(x.gone \cap Client))
      /\ family'  = Without(family, F)
      /\ access'  = Without(access, (x.gone \cap Access) \cup AccessOf(F))
      /\ refresh' = Without(refresh, RefreshOf(F))
  BY <1>2 DEF DeleteGone, DeleteCascade
<1>4. CodesOf(x.gone \cap Client) \subseteq x.gone
  BY <1>0 DEF Cascades, CodesOf
<1>5. FamiliesOf(x.gone \cap Client) \subseteq x.gone \cap Family
  BY <1>0 DEF Cascades, FamiliesOf, Rows, TypeOK
<1>6. F \subseteq x.gone \cap Family
  BY <1>2, <1>5
<1>7. AccessOf(F) \subseteq x.gone
  BY <1>0, <1>6 DEF Cascades, AccessOf
<1>8. CodeEffect(w)
  BY <1>0, <1>1, <1>3, <1>4 DEF CodeEffect, Without, TypeOK
<1>9. FamilyEffect(w)
  BY <1>0, <1>1, <1>3, <1>6 DEF FamilyEffect, Without, TypeOK
<1>10. AccessEffect(w)
  BY <1>0, <1>1, <1>3, <1>7 DEF AccessEffect, Without, TypeOK
<1>11. RefreshEffect(w)
  BY <1>0, <1>1, <1>3, <1>6 DEF RefreshEffect, Without, TypeOK, RefreshOf, Rows
<1> QED
  BY <1>8, <1>9, <1>10, <1>11

\* Nobody else can be deleting the clients it deletes.
LEMMA GoneIsSpared ==
    ASSUME TxInv, NEW w \in Proc, NEW x \in DeleteTx, x \in TxRow, txn[w] = x,
           NEW c \in x.gone
    PROVE  Spared(w, c)
BY Gone, Apart DEF TxInv, Spared

\* A round of eviction that commits removes the rows it has locked.
LEMMA EvictCommitKeeps == ASSUME TxInv, NEW w \in Proc, EvictCommit(w) PROVE TxInv'
<1>0. IndInv /\ TypeOK /\ ClientCap
  BY DEF TxInv, IndInv
<1>1. PICK x \in TxRow : txn[w] = x
  BY DEF TxInv
<1>2. /\ x.pc = "evict" /\ x.todo = {} /\ DeleteGone(x.gone) /\ client' = Without(client, x.gone)
      /\ Finish(w) /\ now' = now /\ used' = used
  BY <1>1 DEF EvictCommit
<1>3. x \in DeleteTx
  BY <1>2, Kinds
<1>4. TypeOK'
  <2>1. client' \in [Client -> ClientRow \cup {NULL}]
    BY <1>0, <1>2, WithoutType DEF TypeOK
  <2> QED
    BY <1>0, <1>2, <2>1, CascadeType DEF TypeOK, DeleteGone
<1>5. /\ \A c \in Client : client'[c] = IF c \in x.gone THEN NULL ELSE client[c]
      /\ Rows(client)' \subseteq Rows(client)
  BY <1>0, <1>2 DEF Without, Rows, TypeOK
<1>6. IndInv'
  <2>1. DeleteCascade(x.gone \cap Code, x.gone \cap Access, x.gone \cap Family, x.gone \cap Client)
    BY <1>2 DEF DeleteGone
  <2>2. \A c \in Client : client[c] # NULL /\ c \notin x.gone \cap Client => client'[c] # NULL
    BY <1>5
  <2>3. Rows(client)' \subseteq used' \cup CimdClient
    BY <1>0, <1>2, <1>5 DEF IndInv, FreshKeys
  <2> QED
    BY <1>0, <1>2, <1>4, <2>1, <2>2, <2>3, CascadeInv
<1>7. ClientCap'
  BY <1>0, <1>5, FewerClients
<1>8. ClientEffect(w)
  BY <1>1, <1>3, <1>5, GoneIsSpared DEF ClientEffect
<1>9. Effect(w)
  BY <1>1, <1>2, <1>3, <1>8, DeleteGoneEffect DEF Effect
<1> QED
  BY <1>2, <1>6, <1>7, <1>9, FinishKeeps

\* A registration that commits removes what it has locked and adds its client,
\* within the cap because no other registration counts meanwhile.
LEMMA RegisterCommitKeeps ==
    ASSUME TxInv, NEW w \in Proc, NEW c \in Client, RegisterCommit(w, c) PROVE TxInv'
<1>0. IndInv /\ TypeOK /\ ClientCap
  BY DEF TxInv, IndInv
<1>1. PICK x \in TxRow : txn[w] = x
  BY DEF TxInv
<1>2. PICK left : left = Without(client, x.gone)
  OBVIOUS
<1>3. PICK row : row = UpsertClientRow(left[c], c, x.start)
  OBVIOUS
<1>4. /\ x.pc = "registerCommit" /\ Free(w, c, "U") /\ DeleteGone(x.gone)
      /\ IF x.kind = "cimd" THEN c = x.c ELSE c \in Client \ (CimdClient \cup used)
      /\ client' = [left EXCEPT ![c] = row]
      /\ used' = IF x.kind = "dcr" THEN used \cup {c} ELSE used
      /\ Finish(w) /\ now' = now
  BY <1>1, <1>2, <1>3 DEF RegisterCommit
<1>5. /\ x \in DeleteTx /\ Clocks(x) /\ Staged(x) /\ Counted(x)
      /\ x.start \in Nat /\ x.start <= now /\ now <= x.start + MaxTxAge /\ now \in Nat
      /\ x.kind \in {"evict", "dcr", "cimd"}
  BY <1>0, <1>1, <1>4, Kinds DEF TxInv, TxFacts, DeleteTx, Clocks, TypeOK
<1>6. /\ x.todo = {} /\ x.kind \in {"dcr", "cimd"}
      /\ x.kind = "cimd" => x.c \in CimdClient
  BY <1>4, <1>5 DEF Staged
<1>7. left \in [Client -> ClientRow \cup {NULL}]
  BY <1>0, <1>2, WithoutType DEF TypeOK
<1>8. row \in ClientRow
  BY <1>3, <1>5, <1>7, UpsertType
<1>9. row # NULL /\ row.act = x.start
  <2>1. row # NULL
    BY <1>8, NullAssumption
  <2>2. CASE left[c] = NULL
    <3>1. row = NewClientRow(c, x.start)
      BY <1>3, <2>2 DEF UpsertClientRow
    <3> QED
      BY <2>1, <3>1 DEF NewClientRow
  <2>3. CASE left[c] \in ClientRow
    <3>1. left[c] # NULL
      BY <2>3, NullAssumption
    <3>2. row = [left[c] EXCEPT !.public = TRUE, !.meta = x.start, !.act = x.start]
      BY <1>3, <3>1 DEF UpsertClientRow
    <3> QED
      BY <2>1, <2>3, <3>2 DEF ClientRow
  <2> QED
    BY <1>7, <2>1, <2>2, <2>3
<1>10. TypeOK'
  <2>1. client' \in [Client -> ClientRow \cup {NULL}]
    BY <1>4, <1>7, <1>8
  <2>2. used' \subseteq Client \cup Code \cup Family \cup Access \cup Refresh
    BY <1>0, <1>4 DEF TypeOK
  <2> QED
    BY <1>0, <1>4, <2>1, <2>2, CascadeType DEF TypeOK, DeleteGone
<1>11. /\ client'[c] = row
       /\ \A y \in Client : y # c => client'[y] = IF y \in x.gone THEN NULL ELSE client[y]
  BY <1>0, <1>2, <1>4, <1>7 DEF Without, TypeOK
<1>12. Rows(client)' = (Rows(client) \ x.gone) \cup {c}
  BY <1>0, <1>9, <1>10, <1>11 DEF Rows, TypeOK
<1>13. used \subseteq used' /\ c \in used' \cup CimdClient
  BY <1>4, <1>6
<1>14. IndInv'
  <2>1. DeleteCascade(x.gone \cap Code, x.gone \cap Access, x.gone \cap Family, x.gone \cap Client)
    BY <1>4 DEF DeleteGone
  <2>2. \A y \in Client : client[y] # NULL /\ y \notin x.gone \cap Client => client'[y] # NULL
    BY <1>9, <1>11
  <2>3. Rows(client)' \subseteq used' \cup CimdClient
    BY <1>0, <1>12, <1>13 DEF IndInv, FreshKeys
  <2> QED
    BY <1>0, <1>4, <1>10, <1>13, <2>1, <2>2, <2>3, CascadeInv
<1>15. ClientCap'
  <2>1. IsFiniteSet(Rows(client)) /\ Cardinality(Rows(client)) <= MaxClients
    BY <1>0, RowsOfClient DEF ClientCap
  <2>2. c \in Rows(client) \ x.gone \/ Cardinality(Rows(client) \ x.gone) < MaxClients
    BY <1>4, <1>5 DEF Counted
  <2>3. Cardinality((Rows(client) \ x.gone) \cup {c}) <= MaxClients
    BY <2>1, <2>2, CapAdd
  <2> QED
    BY <1>12, <2>3 DEF ClientCap
<1>16. Has(w, "registration", "X")
  <2>1. Holds(x, "registration", "X") /\ "registration" \in LockRow
    BY <1>4, <1>6 DEF Holds, LockRow
  <2> QED
    BY <1>1, <2>1, HoldsHas
<1>17. ClientEffect(w)
  <2>1. ASSUME NEW y \in Client, y # c
        PROVE  client'[y] = client[y] \/ (Spared(w, y) /\ client'[y] = NULL)
    BY <1>1, <1>5, <1>11, <2>1, GoneIsSpared
  <2>2. Spared(w, c)
    BY <1>4, FreeIsSpared
  <2>3. Touched(c)
    BY <1>5, <1>9, <1>11 DEF Touched
  <2> QED
    BY <1>16, <2>1, <2>2, <2>3 DEF ClientEffect
<1>18. Effect(w)
  BY <1>1, <1>4, <1>5, <1>6, <1>13, <1>17, DeleteGoneEffect DEF Effect
<1> QED
  BY <1>4, <1>14, <1>15, <1>18, FinishKeeps

-----------------------------------------------------------------------------
(* The invariant.                                                          *)

\* Time passes for all of them, no further than the oldest may get.
LEMMA TickKeeps == TxInv /\ TxTick => TxInv'
<1> SUFFICES ASSUME TxInv, TxTick PROVE TxInv'
  OBVIOUS
<1>0. IndInv /\ TypeOK /\ now \in Nat /\ txn \in [Proc -> TxRow]
  BY DEF TxInv, IndInv, TypeOK
<1>1. /\ Tick /\ now' = now + 1 /\ UNCHANGED <<client, code, family, access, refresh, used, txn, held>>
      /\ \A w \in Proc : txn[w] # Idle => now < txn[w].start + MaxTxAge
  BY DEF TxTick, Tick, tables
<1>2. IndInv'
  BY <1>0, <1>1, IndNext DEF Next
<1>3. ClientCap' /\ Exclusive'
  BY <1>1 DEF TxInv, ClientCap, Rows, Exclusive, Conflicts
<1>4. \A x, row, mode : Holds(x, row, mode)' <=> Holds(x, row, mode)
  BY <1>1, HoldsSame
<1>5. \A w, row, mode : Has(w, row, mode)' <=> Has(w, row, mode)
  BY <1>1 DEF Has
<1>6. Locks'
  <2>1. Locks
    BY DEF TxInv
  <2> QED
    BY <1>1, <1>4, <1>5, <2>1 DEF Locks
<1>7. ASSUME NEW w \in Proc, NEW x \in TxRow, txn'[w] = x PROVE TxFacts(x)'
  <2>1. txn[w] = x
    BY <1>1, <1>7
  <2>2. TxFacts(x)
    BY <2>1 DEF TxInv
  <2>3. x # Idle => Clocks(x)'
    <3> SUFFICES ASSUME x # Idle PROVE Clocks(x)'
      OBVIOUS
    <3>1. Clocks(x) /\ now < x.start + MaxTxAge
      BY <1>1, <2>1, <2>2 DEF TxFacts
    <3>2. x.start \in Nat
      BY Kinds DEF TxRow, RenewTx, RotateTx, ExchangeTx, CreateTx, AdvisoryTx, DeleteTx
    <3>3. x \in RenewTx \cup RotateTx \cup ExchangeTx => x.t \in Nat
      BY DEF RenewTx, RotateTx, ExchangeTx
    <3> QED
      BY <1>0, <1>1, <3>1, <3>2, <3>3 DEF Clocks
  <2>4. x \in RenewTx => Renewing(x)'
    BY <1>1, <2>2 DEF TxFacts, Renewing, Found, Judged, Alive, OnFamily
  <2>5. x \in RotateTx => Rotating(x)'
    BY <1>1, <2>2 DEF TxFacts, Rotating, Found, Judged, Alive, OnFamily
  <2>6. x \in ExchangeTx => Exchanging(x)'
    BY <1>1, <2>2 DEF TxFacts, Exchanging, CodeValid
  <2>7. x \in DeleteTx => Cascades(x)' /\ Staged(x)' /\ Over(x)' /\ Counted(x)'
    BY <1>1, <2>2 DEF TxFacts, Cascades, Staged, Over, Counted, CodesOf, FamiliesOf, AccessOf,
         RefreshOf, NoGrant, Due, Rows
  <2> QED
    BY <2>2, <2>3, <2>4, <2>5, <2>6, <2>7 DEF TxFacts
<1>8. (txn \in [Proc -> TxRow])'
  BY <1>0, <1>1
<1> QED
  BY <1>2, <1>3, <1>6, <1>7, <1>8 DEF TxInv

\* A transaction that is rolled back leaves the tables and gives up its locks.
LEMMA AbortKeeps == ASSUME TxInv, NEW w \in Proc, Abort(w) PROVE TxInv'
BY RollbackKeeps DEF Abort

\* The tables are as Init leaves them, and no transaction is open.
LEMMA TxInvInit == TxInit => TxInv
<1> SUFFICES ASSUME TxInit PROVE TxInv
  OBVIOUS
<1>1. IndInv /\ ClientCap
  BY IndInit, CapInit DEF TxInit
<1>2. Idle \in TxRow /\ Idle.pc = "idle" /\ txn = [w \in Proc |-> Idle] /\ held = {}
  BY DEF TxRow, Idle, TxInit
<1>3. Locks
  BY <1>2 DEF Locks, Holds, OnFamily, Has
<1>4. Exclusive
  BY <1>2 DEF Exclusive
<1>5. TxFacts(Idle)
  BY <1>2, Kinds DEF TxFacts
<1> QED
  BY <1>1, <1>2, <1>3, <1>4, <1>5 DEF TxInv

\* Without a step nothing changes.
LEMMA StutterKeeps == TxInv /\ UNCHANGED txVars => TxInv'
<1> SUFFICES ASSUME TxInv, UNCHANGED txVars PROVE TxInv'
  OBVIOUS
<1>1. UNCHANGED vars /\ UNCHANGED <<txn, held>>
  BY DEF txVars, vars
<1>2. IndInv' /\ ClientCap'
  BY <1>1, IndSame DEF TxInv
<1>3. \A x, row, mode : Holds(x, row, mode)' <=> Holds(x, row, mode)
  BY <1>1, HoldsSame DEF vars
<1>4. \A w, row, mode : Has(w, row, mode)' <=> Has(w, row, mode)
  BY <1>1 DEF Has
<1>5. \A x : TxFacts(x)' <=> TxFacts(x)
  BY <1>1, FactsSame
<1>6. Locks'
  <2>1. Locks
    BY DEF TxInv
  <2> QED
    BY <1>1, <1>3, <1>4, <2>1 DEF Locks
<1>7. Exclusive'
  BY <1>1 DEF TxInv, Exclusive, Conflicts
<1> QED
  BY <1>1, <1>2, <1>5, <1>6, <1>7 DEF TxInv

\* Whatever a process does next.
LEMMA RequestKeeps == ASSUME TxInv, NEW w \in Proc, Request(w) PROVE TxInv'
<1>1. CASE \E a \in Access : BearerRequest(w, a)
  BY <1>1, BearerKeeps
<1>2. CASE RenewFamily(w) \/ RenewAccess(w) \/ RenewRefresh(w) \/ RenewCommit(w)
  BY <1>2, RenewFamilyKeeps, RenewAccessKeeps, RenewRefreshKeeps, RenewCommitKeeps
<1>3. CASE \E r \in Refresh, c \in Client : RefreshGrant(w, r, c)
  BY <1>3, RefreshGrantKeeps
<1>4. CASE RotateFamily(w) \/ RotateToken(w) \/ ReplayCommit(w)
  BY <1>4, RotateFamilyKeeps, RotateTokenKeeps, ReplayCommitKeeps
<1>5. CASE \E a2 \in Access, r2 \in Refresh : RotateCommit(w, a2, r2)
  BY <1>5, RotateCommitKeeps
<1>6. CASE \E k \in Code, c \in Client, b \in Binding : CodeGrant(w, k, c, b)
  BY <1>6, CodeGrantKeeps
<1>7. CASE ExchangeLock(w) \/ RejectCommit(w)
  BY <1>7, ExchangeLockKeeps, RejectCommitKeeps
<1>8. CASE \E f \in Family, a \in Access, r \in Refresh : ExchangeCommit(w, f, a, r)
  BY <1>8, ExchangeCommitKeeps
<1>9. CASE \E c \in Client, b \in Binding : AuthorizePost(w, c, b)
  BY <1>9, AuthorizeKeeps
<1>10. CASE \E k \in Code : CreateCodeCommit(w, k)
  BY <1>10, CreateCodeKeeps
<1>11. CASE RegisterBegin(w, "dcr", NULL) \/ \E c \in CimdClient : RegisterBegin(w, "cimd", c)
  BY <1>11, RegisterBeginKeeps
<1>12. CASE RegisterLock(w) \/ RegisterCount(w)
  BY <1>12, RegisterLockKeeps, RegisterCountKeeps
<1>13. CASE \E c \in Client : RegisterCommit(w, c)
  BY <1>13, RegisterCommitKeeps
<1>14. CASE EvictStep(w)
  BY <1>14, EvictNextKeeps, EvictRowKeeps DEF EvictStep
<1> QED
  BY <1>1, <1>2, <1>3, <1>4, <1>5, <1>6, <1>7, <1>8, <1>9, <1>10, <1>11, <1>12, <1>13, <1>14
     DEF Request

\* Every step keeps the invariant.
LEMMA TxInvNext == TxInv /\ [TxNext]_txVars => TxInv'
<1> SUFFICES ASSUME TxInv, [TxNext]_txVars PROVE TxInv'
  OBVIOUS
<1>1. CASE TxTick
  BY <1>1, TickKeeps
<1>2. CASE \E w \in Worker : Request(w)
  BY <1>2, RequestKeeps DEF Proc
<1>3. CASE \E w \in Evictor : Evicting(w)
  BY <1>3, EvictBeginKeeps, EvictCommitKeeps, EvictNextKeeps, EvictRowKeeps
     DEF Proc, Evicting, EvictStep
<1>4. CASE \E w \in Proc : Abort(w)
  BY <1>4, AbortKeeps
<1>5. CASE UNCHANGED txVars
  BY <1>5, StutterKeeps
<1> QED
  BY <1>1, <1>2, <1>3, <1>4, <1>5 DEF TxNext

\* The invariant holds in every reachable state.
LEMMA TxInductive == TxSpec => []TxInv
BY TxInvInit, TxInvNext, PTL DEF TxSpec

\* However the statements of the transactions interleave, the committed rows stay
\* well formed and every lock belongs to an open transaction.
THEOREM TxTypes == TxSpec => []TxTypeOK
<1>1. TxInv => TxTypeOK
  <2> SUFFICES ASSUME TxInv, NEW l \in held
               PROVE  l.w \in Proc /\ txn[l.w] # Idle /\ l.mode \in {"X", "U"}
    BY DEF TxInv, IndInv, TxTypeOK
  <2>1. l \in [w: Proc, row: LockRow, mode: {"X", "U"}]
    BY DEF TxInv, Locks
  <2>2. l = [w |-> l.w, row |-> l.row, mode |-> l.mode]
    BY <2>1
  <2>3. Has(l.w, l.row, l.mode)
    BY <2>2 DEF Has
  <2>4. Idle \in TxRow /\ Idle.pc = "idle"
    BY DEF TxRow, Idle
  <2>5. ~Holds(Idle, l.row, l.mode)
    BY <2>4 DEF Holds, OnFamily
  <2> QED
    BY <2>1, <2>3, <2>4, <2>5 DEF TxInv, Locks
<1> QED
  BY <1>1, TxInductive, PTL

\* A family keeps exactly one live refresh token that lives as long as it does,
\* though renewals judge clocks and rows that others may change.
THEOREM TxSessionsCovered == TxSpec => []SessionCover
<1>1. TxInv => SessionCover
  BY DEF TxInv, IndInv
<1> QED
  BY <1>1, TxInductive, PTL

\* Rows committed with readings of the clock that are already old keep within
\* the idle window.
THEOREM TxIdleWindowHolds == TxSpec => []IdleWindow
<1>1. TxInv => IdleWindow
  BY DEF TxInv, IndInv
<1> QED
  BY <1>1, TxInductive, PTL

\* No interleaving leaves a code, family or token without what it names.
THEOREM TxReferencesHold == TxSpec => []ReferentialIntegrity
<1>1. TxInv => ReferentialIntegrity
  BY DEF TxInv, IndInv
<1> QED
  BY <1>1, TxInductive, PTL

\* Registrations racing one another and evict never take the clients past the cap:
\* they count under the advisory lock, and only a registration inserts a client.
THEOREM TxCapHolds == TxSpec => []ClientCap
<1>1. TxInv => ClientCap
  BY DEF TxInv
<1> QED
  BY <1>1, TxInductive, PTL

-----------------------------------------------------------------------------
(* Requests do not deadlock.                                               *)

\* What a transaction that neither deletes nor registers holds.
LEMMA RequestHolds ==
    ASSUME NEW x \in TxRow, x.pc \notin {"evict", "registerCommit"}, NEW row, NEW mode,
           Holds(x, row, mode)
    PROVE  \/ x \in RenewTx \cup RotateTx /\ OnFamily(x)
           \/ x \in ExchangeTx /\ x.pc \in {"exchangeCommit", "rejectCommit"} /\ row = x.k
BY Kinds DEF Holds, OnFamily

\* The rows it waits for while it holds one.
LEMMA RequestWants ==
    ASSUME TxInv, NEW v \in Proc, NEW x \in TxRow, txn[v] = x, NEW n \in Wants(v),
           OnFamily(x) \/ x.pc \in {"exchangeCommit", "rejectCommit"}
    PROVE  \/ n.row \in Client
           \/ x.pc = "renewAccess" /\ n.row = x.a
           \/ x.pc = "renewRefresh" /\ n.row \in LiveRefresh(x.f)
           \/ x.pc = "rotateToken" /\ n.row = x.r
<1>0. TypeOK
  BY DEF TxInv, IndInv
<1>1. x.pc \in {"renewAccess", "renewRefresh", "renewCommit", "rotateToken", "rotateCommit",
                "replayCommit", "exchangeCommit", "rejectCommit"}
  BY DEF OnFamily
<1>2. CASE x.pc = "renewAccess"
  BY <1>2 DEF Wants
<1>3. CASE x.pc = "renewRefresh"
  BY <1>3 DEF Wants
<1>4. CASE x.pc = "rotateToken"
  BY <1>4 DEF Wants
<1>5. CASE x.pc = "renewCommit"
  <2>1. x \in RenewTx /\ x.f \in Family /\ family[x.f] # NULL
    BY <1>5, Kinds DEF TxInv, TxFacts, Renewing, Judged, OnFamily, RenewTx
  <2>2. family[x.f].client \in Client
    BY <1>0, <2>1 DEF TypeOK, FamilyRow
  <2> QED
    BY <1>5, <2>2 DEF Wants
<1>6. CASE x.pc \in {"rotateCommit", "exchangeCommit"}
  <2>1. x.c \in Client
    BY <1>6, Kinds DEF RotateTx, ExchangeTx
  <2> QED
    BY <1>6, <2>1 DEF Wants
<1>7. CASE x.pc \in {"replayCommit", "rejectCommit"}
  BY <1>7 DEF Wants
<1> QED
  BY <1>1, <1>2, <1>3, <1>4, <1>5, <1>6, <1>7

\* A transaction on a family holds nothing of another family, and no client.
LEMMA HoldsOfFamily ==
    ASSUME TxInv, NEW v \in Proc, NEW x \in TxRow, txn[v] = x,
           x.pc \notin {"evict", "registerCommit"}, NEW row, NEW mode, Holds(x, row, mode)
    PROVE  /\ row \notin Client
           /\ row \in Access => OnFamily(x) /\ access[row] # NULL /\ access[row].family = x.f
           /\ row \in Refresh => OnFamily(x) /\ refresh[row] # NULL /\ refresh[row].family = x.f
<1>1. CASE x \in RenewTx
  <2>1. x.f \in Family /\ x.a \in Access /\ Renewing(x)
    BY <1>1 DEF RenewTx, TxInv, TxFacts
  <2>2. /\ x.pc \notin {"rotateCommit", "replayCommit", "exchangeCommit", "rejectCommit"}
    BY <1>1, Kinds
  <2>3. CASE OnFamily(x) /\ row = x.f
    BY <2>1, <2>3, KeyAssumption
  <2>4. CASE x.pc \in {"renewRefresh", "renewCommit"} /\ row = x.a
    BY <2>1, <2>4, KeyAssumption DEF Renewing, OnFamily
  <2>5. CASE x.pc = "renewCommit" /\ row \in LiveRefresh(x.f)
    <3>1. row \in Refresh /\ refresh[row] # NULL /\ refresh[row].family = x.f
      BY <2>5 DEF LiveRefresh, Rows, TxInv, IndInv, TypeOK
    <3> QED
      BY <2>5, <3>1, KeyAssumption DEF OnFamily
  <2> QED
    BY <2>2, <2>3, <2>4, <2>5 DEF Holds
<1>2. CASE x \in RotateTx
  <2>1. x.f \in Family /\ x.r \in Refresh /\ Rotating(x)
    BY <1>2 DEF RotateTx, TxInv, TxFacts
  <2>2. x.pc \notin {"renewRefresh", "renewCommit", "exchangeCommit", "rejectCommit"}
    BY <1>2, Kinds
  <2>3. CASE OnFamily(x) /\ row = x.f
    BY <2>1, <2>3, KeyAssumption
  <2>4. CASE x.pc \in {"rotateCommit", "replayCommit"} /\ row = x.r
    BY <2>1, <2>4, KeyAssumption DEF Rotating, OnFamily
  <2> QED
    BY <2>2, <2>3, <2>4 DEF Holds
<1>3. CASE x \in ExchangeTx /\ row = x.k
  BY <1>3, KeyAssumption DEF ExchangeTx
<1> QED
  BY <1>1, <1>2, <1>3, RequestHolds

\* Of two requests that hold locks, neither waits for the other.
LEMMA NoWait ==
    ASSUME TxInv, NEW v \in Proc, NEW u \in Proc, v # u,
           NEW x \in TxRow, txn[v] = x, NEW y \in TxRow, txn[u] = y,
           x.pc \notin {"evict", "registerCommit"}, y.pc \notin {"evict", "registerCommit"},
           NEW o, NEW m, Holds(x, o, m),
           NEW n \in Wants(v), NEW mode, Holds(y, n.row, mode)
    PROVE  FALSE
<1>1. \/ x \in RenewTx \cup RotateTx /\ OnFamily(x)
      \/ x \in ExchangeTx /\ x.pc \in {"exchangeCommit", "rejectCommit"}
  BY RequestHolds
<1>2. n.row \notin Client
  BY HoldsOfFamily
<1>3. \/ x.pc = "renewAccess" /\ n.row = x.a
      \/ x.pc = "renewRefresh" /\ n.row \in LiveRefresh(x.f)
      \/ x.pc = "rotateToken" /\ n.row = x.r
  BY <1>1, <1>2, RequestWants
<1>4. x \in RenewTx \cup RotateTx /\ OnFamily(x)
  BY <1>1, <1>3
<1>5. OnFamily(y) /\ y.f = x.f
  <2>1. CASE x.pc = "renewAccess" /\ n.row = x.a
    <3>1. x \in RenewTx /\ x.a \in Access /\ Renewing(x)
      BY <2>1, Kinds DEF RenewTx, TxInv, TxFacts
    <3>2. OnFamily(y) /\ access[x.a] # NULL /\ access[x.a].family = y.f
      BY <2>1, <3>1, HoldsOfFamily
    <3> QED
      BY <3>1, <3>2 DEF Renewing
  <2>2. CASE x.pc = "renewRefresh" /\ n.row \in LiveRefresh(x.f)
    <3>1. n.row \in Refresh /\ refresh[n.row].family = x.f
      BY <2>2 DEF LiveRefresh, Rows, TxInv, IndInv, TypeOK
    <3> QED
      BY <3>1, HoldsOfFamily
  <2>3. CASE x.pc = "rotateToken" /\ n.row = x.r
    <3>1. x \in RotateTx /\ x.r \in Refresh /\ Rotating(x)
      BY <2>3, Kinds DEF RotateTx, TxInv, TxFacts
    <3>2. OnFamily(y) /\ refresh[x.r] # NULL /\ refresh[x.r].family = y.f
      BY <2>3, <3>1, HoldsOfFamily
    <3> QED
      BY <3>1, <3>2 DEF Rotating
  <2> QED
    BY <1>3, <2>1, <2>2, <2>3
<1>6. x.f \in LockRow
  BY <1>4, OnFamilyKind
<1>7. Has(v, x.f, "X") /\ Has(u, x.f, "X")
  BY <1>4, <1>5, <1>6, HoldsHas DEF Holds
<1> QED
  BY <1>7, Apart DEF TxInv

\* Whoever is waited for holds a lock.
LEMMA WaitedHolds ==
    ASSUME TxInv, NEW w \in Proc, NEW v \in Proc, WaitsFor(w, v), NEW y \in TxRow, txn[v] = y
    PROVE  w # v /\ \E n \in Wants(w), mode \in {"X", "U"} : Holds(y, n.row, mode)
<1>1. PICK n \in Wants(w), l \in held : l.w = v /\ v # w /\ l.row = n.row
  BY DEF WaitsFor
<1>2. l \in [w: Proc, row: LockRow, mode: {"X", "U"}]
  BY DEF TxInv, Locks
<1>3. l = [w |-> v, row |-> n.row, mode |-> l.mode] /\ n.row \in LockRow /\ l.mode \in {"X", "U"}
  BY <1>1, <1>2
<1>4. Has(v, n.row, l.mode)
  BY <1>3 DEF Has
<1>5. Holds(y, n.row, l.mode)
  BY <1>3, <1>4 DEF TxInv, Locks
<1> QED
  BY <1>1, <1>3, <1>5

\* Requests lock the family before its tokens and everything before the client row,
\* so that no set of them waits in a circle.
THEOREM RequestsDoNotDeadlock == TxSpec => []RequestsNeverDeadlock
<1>1. TxInv => RequestsNeverDeadlock
  <2> SUFFICES ASSUME TxInv, NEW S \in SUBSET {w \in Proc : ~Deleting(w)}, Closed(S)
               PROVE  FALSE
    BY DEF RequestsNeverDeadlock, WaitCycle
  <2>1. PICK w \in S : TRUE
    BY DEF Closed
  <2>2. PICK v \in S : WaitsFor(w, v)
    BY DEF Closed
  <2>3. PICK u \in S : WaitsFor(v, u)
    BY DEF Closed
  <2>4. PICK x \in TxRow : txn[v] = x
    BY DEF TxInv
  <2>5. PICK y \in TxRow : txn[u] = y
    BY DEF TxInv
  <2>6. \A p \in S : p \in Proc /\ txn[p].pc \notin {"evict", "registerCommit"}
    <3> SUFFICES ASSUME NEW p \in S, txn[p].pc \in {"evict", "registerCommit"} PROVE FALSE
      OBVIOUS
    <3>1. txn[p] # Idle
      BY DEF Idle
    <3> QED
      BY <3>1 DEF Deleting
  <2>7. PICK o, m : Holds(x, o, m)
    BY <2>2, <2>4, <2>6, WaitedHolds
  <2>8. PICK n \in Wants(v), mode \in {"X", "U"} : Holds(y, n.row, mode)
    BY <2>3, <2>5, <2>6, WaitedHolds
  <2>9. v # u
    BY <2>3, <2>5, <2>6, WaitedHolds
  <2> QED
    BY <2>4, <2>5, <2>6, <2>7, <2>8, <2>9, NoWait
<1> QED
  BY <1>1, TxInductive, PTL

-----------------------------------------------------------------------------
(* What a commit takes and what it shortens.                               *)

\* The steps that change a table.
Commits(w) ==
    \/ RenewCommit(w) \/ ReplayCommit(w) \/ RejectCommit(w)
    \/ \E a2 \in Access, r2 \in Refresh : RotateCommit(w, a2, r2)
    \/ \E f \in Family, a \in Access, r \in Refresh : ExchangeCommit(w, f, a, r)
    \/ \E k \in Code : CreateCodeCommit(w, k)
    \/ \E c \in Client : RegisterCommit(w, c)

\* The tables change only when a transaction commits or the time advances.
LEMMA OnlyCommits ==
    ASSUME [TxNext]_txVars
    PROVE  \/ UNCHANGED vars
           \/ Tick
           \/ \E w \in Worker : Commits(w)
           \/ \E w \in Evictor : EvictCommit(w)
<1>1. CASE TxTick
  BY <1>1 DEF TxTick
<1>2. ASSUME NEW w \in Worker, Request(w) PROVE UNCHANGED vars \/ Commits(w)
  <2>1. EvictStep(w) => UNCHANGED vars
    BY DEF EvictStep, EvictNext, EvictRow, vars
  <2> QED
    BY <1>2, <2>1 DEF Request, Commits, BearerRequest, RenewFamily, RenewAccess, RenewRefresh,
       RefreshGrant, RotateFamily, RotateToken, CodeGrant, ExchangeLock, AuthorizePost,
       RegisterBegin, RegisterLock, RegisterCount
<1>3. ASSUME NEW w \in Evictor, Evicting(w) PROVE UNCHANGED vars \/ EvictCommit(w)
  <2>1. EvictStep(w) => UNCHANGED vars
    BY DEF EvictStep, EvictNext, EvictRow, vars
  <2> QED
    BY <1>3, <2>1 DEF Evicting, EvictBegin
<1>4. CASE \E w \in Proc : Abort(w)
  BY <1>4 DEF Abort
<1>5. CASE UNCHANGED txVars
  BY <1>5 DEF txVars, vars
<1> QED
  BY <1>1, <1>2, <1>3, <1>4, <1>5 DEF TxNext

\* A commit that deletes: what goes was over when its transaction began, and is
\* over now.
LEMMA DeletionTakes ==
    ASSUME TxInv, NEW w \in Proc, NEW x \in TxRow, txn[w] = x, x \in DeleteTx, x.todo = {},
           DeleteGone(x.gone)
    PROVE  /\ \A k \in Code : code[k] # NULL =>
                 code'[k] = code[k] \/ (code'[k] = NULL /\ code[k].expires <= now)
           /\ \A f \in Family : family[f] # NULL => family'[f] = family[f] \/ family'[f] = NULL
           /\ \A a \in Access : access[a] # NULL => access'[a] = access[a] \/ access'[a] = NULL
           /\ \A c \in x.gone \cap Client : NoGrant(c, now)
<1>0. TypeOK /\ Over(x) /\ x.start \in Nat /\ x.start <= now /\ now \in Nat /\ x # Idle
  BY Kinds DEF TxInv, IndInv, TxFacts, DeleteTx, Clocks, TypeOK
<1>1. CodeEffect(w) /\ FamilyEffect(w) /\ AccessEffect(w)
  BY DeleteGoneEffect
<1>2. ASSUME NEW k \in Code, code[k] # NULL
      PROVE  code'[k] = code[k] \/ (code'[k] = NULL /\ code[k].expires <= now)
  <2>1. code[k].expires \in Nat
    BY <1>0, <1>2 DEF TypeOK, CodeRow
  <2>2. code' = Without(code, (x.gone \cap Code) \cup CodesOf(x.gone \cap Client))
    BY DEF DeleteGone, DeleteCascade
  <2>3. CASE k \in x.gone \cap Code
    <3>1. code[k].expires <= x.start /\ code'[k] = NULL
      BY <1>0, <2>2, <2>3 DEF Over, Without, TypeOK
    <3> QED
      BY <1>0, <2>1, <3>1
  <2>4. CASE k \in CodesOf(x.gone \cap Client)
    <3>1. code[k].client \in x.gone \cap Client /\ code'[k] = NULL
      BY <1>0, <2>2, <2>4 DEF CodesOf, Without, TypeOK
    <3>2. NoGrant(code[k].client, x.start)
      BY <1>0, <3>1 DEF Over
    <3>3. code[k].expires <= x.start
      BY <1>0, <1>2, <3>2 DEF NoGrant, CodesOf, Rows, TypeOK
    <3> QED
      BY <1>0, <2>1, <3>1, <3>3
  <2>5. CASE k \notin (x.gone \cap Code) \cup CodesOf(x.gone \cap Client)
    BY <1>0, <2>2, <2>5 DEF Without, TypeOK
  <2> QED
    BY <2>3, <2>4, <2>5
<1>3. \A f \in Family : family[f] # NULL => family'[f] = family[f] \/ family'[f] = NULL
  BY <1>0 DEF DeleteGone, DeleteCascade, Without, TypeOK
<1>4. \A a \in Access : access[a] # NULL => access'[a] = access[a] \/ access'[a] = NULL
  BY <1>0 DEF DeleteGone, DeleteCascade, Without, TypeOK
<1>5. ASSUME NEW c \in x.gone \cap Client PROVE NoGrant(c, now)
  <2>1. NoGrant(c, x.start)
    BY <1>0 DEF Over
  <2>2. ASSUME NEW k \in CodesOf({c}) PROVE code[k].expires <= now
    <3>1. code[k].expires \in Nat /\ code[k].expires <= x.start
      BY <1>0, <2>1 DEF NoGrant, CodesOf, Rows, TypeOK, CodeRow
    <3> QED
      BY <1>0, <3>1
  <2>3. ASSUME NEW f \in FamiliesOf({c})
        PROVE  family[f].state = "revoked" \/ family[f].expires <= now
    <3>1. /\ family[f].expires \in Nat
          /\ family[f].state = "revoked" \/ family[f].expires <= x.start
      BY <1>0, <2>1 DEF NoGrant, FamiliesOf, Rows, TypeOK, FamilyRow
    <3> QED
      BY <1>0, <3>1
  <2> QED
    BY <2>2, <2>3 DEF NoGrant
<1> QED
  BY <1>2, <1>3, <1>4, <1>5

\* The rows of the clients, but for those a DELETE takes.
LEMMA ClientStays ==
    ASSUME TxInv, NEW w \in Proc, Commits(w) \/ EvictCommit(w), NEW c \in Client, client[c] # NULL,
           ~NoGrant(c, now)
    PROVE  client'[c] # NULL
<1>0. TypeOK /\ now \in Nat
  BY DEF TxInv, IndInv, TypeOK
<1>1. PICK x \in TxRow : txn[w] = x
  BY DEF TxInv
<1>2. ASSUME NEW d \in Client, NEW t \in Nat, client' = Touch(d, t) PROVE client'[c] # NULL
  BY <1>0, <1>2, TouchKeepsRows
<1>3. CASE RenewCommit(w)
  <2>1. /\ x \in RenewTx /\ x.f \in Family /\ family[x.f] # NULL
        /\ client' = Touch(family[x.f].client, x.t)
    BY <1>1, <1>3, Kinds
       DEF RenewCommit, RenewRows, TxInv, TxFacts, Renewing, Judged, OnFamily, RenewTx
  <2>2. family[x.f].client \in Client /\ x.t \in Nat
    BY <1>0, <2>1 DEF TypeOK, FamilyRow, RenewTx
  <2> QED
    BY <1>2, <2>1, <2>2
<1>4. ASSUME NEW a2 \in Access, NEW r2 \in Refresh, RotateCommit(w, a2, r2)
      PROVE  client'[c] # NULL
  <2>1. /\ x \in RotateTx /\ x.f \in Family /\ family[x.f] # NULL
        /\ client' = Touch(family[x.f].client, x.t)
    BY <1>1, <1>4, Kinds
       DEF RotateCommit, RotateRows, TxInv, TxFacts, Rotating, Judged, OnFamily, RotateTx
  <2>2. family[x.f].client \in Client /\ x.t \in Nat
    BY <1>0, <2>1 DEF TypeOK, FamilyRow, RotateTx
  <2> QED
    BY <1>2, <2>1, <2>2
<1>5. CASE ReplayCommit(w) \/ RejectCommit(w)
  BY <1>5 DEF ReplayCommit, RevokeFamily, RejectCommit, ConsumeCode
<1>6. ASSUME NEW f \in Family, NEW a \in Access, NEW r \in Refresh, ExchangeCommit(w, f, a, r)
      PROVE  client'[c] # NULL
  <2>1. /\ x \in ExchangeTx
        /\ client' = client \/ client' = Touch(x.c, x.t)
    BY <1>1, <1>6, Kinds DEF ExchangeCommit, InsertTokenPair, tables
  <2>2. x.c \in Client /\ x.t \in Nat
    BY <2>1 DEF ExchangeTx
  <2> QED
    BY <1>2, <2>1, <2>2
<1>7. ASSUME NEW k \in Code, CreateCodeCommit(w, k) PROVE client'[c] # NULL
  <2>1. /\ x \in CreateTx
        /\ client' = client \/ client' = Touch(x.c, x.start)
    BY <1>1, <1>7, Kinds DEF CreateCodeCommit, InsertCode, tables
  <2>2. x.c \in Client /\ x.start \in Nat
    BY <2>1 DEF CreateTx
  <2> QED
    BY <1>2, <2>1, <2>2
<1>8. ASSUME NEW d \in Client, RegisterCommit(w, d) PROVE client'[c] # NULL
  <2>1. x \in DeleteTx /\ x.todo = {} /\ x.start \in Nat /\ DeleteGone(x.gone)
    BY <1>1, <1>8, Kinds DEF RegisterCommit, TxInv, TxFacts, Staged, DeleteTx
  <2>2. c \notin x.gone
    BY <1>1, <2>1, DeletionTakes
  <2>3. PICK left : left = Without(client, x.gone)
    OBVIOUS
  <2>4. client' = [left EXCEPT ![d] = UpsertClientRow(left[d], d, x.start)]
    BY <1>1, <1>8, <2>3 DEF RegisterCommit
  <2>5. left \in [Client -> ClientRow \cup {NULL}] /\ left[c] = client[c]
    BY <1>0, <2>2, <2>3, WithoutType DEF Without, TypeOK
  <2>6. UpsertClientRow(left[d], d, x.start) # NULL
    BY <2>1, <2>5, UpsertType, NullAssumption
  <2> QED
    BY <2>4, <2>5, <2>6
<1>9. CASE EvictCommit(w)
  <2>1. x \in DeleteTx /\ x.todo = {} /\ DeleteGone(x.gone) /\ client' = Without(client, x.gone)
    BY <1>1, <1>9, Kinds DEF EvictCommit
  <2>2. c \notin x.gone
    BY <1>1, <2>1, DeletionTakes
  <2> QED
    BY <1>0, <2>1, <2>2 DEF Without, TypeOK
<1> QED
  BY <1>3, <1>4, <1>5, <1>6, <1>7, <1>8, <1>9 DEF Commits

\* No step of a transaction deletes a client that has a grant.
LEMMA TxGrantStep == TxInv /\ [TxNext]_txVars => KeepsGrantedClients
<1> SUFFICES ASSUME TxInv, [TxNext]_txVars, NEW c \in Rows(client),
                    \/ \E k \in CodesOf({c}) : code[k].expires > now
                    \/ \E f \in FamiliesOf({c}) : /\ family[f].state = "live"
                                                 /\ family[f].expires > now
             PROVE  client'[c] # NULL
  BY DEF KeepsGrantedClients
<1>0. TypeOK /\ c \in Client /\ client[c] # NULL /\ now \in Nat
  BY DEF TxInv, IndInv, Rows, TypeOK
<1>1. ~NoGrant(c, now)
  <2> SUFFICES ASSUME NoGrant(c, now) PROVE FALSE
    OBVIOUS
  <2>1. \A k \in CodesOf({c}) : code[k].expires \in Nat /\ code[k].expires <= now
    <3>1. \A k \in CodesOf({c}) : code[k] \in CodeRow /\ code[k].expires <= now
      BY <1>0 DEF NoGrant, CodesOf, Rows, TypeOK
    <3> QED
      BY <3>1 DEF CodeRow
  <2>2. \A f \in FamiliesOf({c}) :
           /\ family[f].expires \in Nat
           /\ family[f].state = "revoked" \/ family[f].expires <= now
    BY <1>0 DEF NoGrant, FamiliesOf, Rows, TypeOK, FamilyRow
  <2>3. ASSUME NEW k \in CodesOf({c}), code[k].expires > now PROVE FALSE
    BY <1>0, <2>1, <2>3
  <2>4. ASSUME NEW f \in FamiliesOf({c}), family[f].state = "live", family[f].expires > now
        PROVE  FALSE
    BY <1>0, <2>2, <2>4
  <2> QED
    BY <2>3, <2>4
<1>2. CASE UNCHANGED vars \/ Tick
  BY <1>0, <1>2 DEF vars, Tick, tables
<1>3. CASE (\E w \in Worker : Commits(w)) \/ (\E w \in Evictor : EvictCommit(w))
  BY <1>0, <1>1, <1>3, ClientStays DEF Proc
<1> QED
  BY <1>2, <1>3, OnlyCommits

\* Though evict chooses its clients long before it deletes them, it never takes one
\* that got a code or a session meanwhile.
THEOREM TxGrantsKeepClients == TxSpec => GrantKeepsClient
<1>1. TxInv /\ [TxNext]_txVars => [KeepsGrantedClients]_vars
  BY TxGrantStep
<1> QED
  BY <1>1, TxInductive, PTL DEF TxSpec, GrantKeepsClient

\* A code that is still good is only deleted by the exchange that answers it.
LEMMA GoodCodeStep ==
    ASSUME TxInv, [TxNext]_txVars, NEW k \in Rows(code), code[k].expires > now, code'[k] = NULL
    PROVE  \E w \in Worker : /\ txn[w].pc \in {"exchangeCommit", "rejectCommit"}
                             /\ txn[w].k = k
<1>0. /\ TypeOK /\ k \in Code /\ code[k] # NULL /\ now \in Nat /\ code[k].expires \in Nat
      /\ ~(code[k].expires <= now)
  BY DEF TxInv, IndInv, Rows, TypeOK, CodeRow
<1>1. CASE UNCHANGED vars \/ Tick
  BY <1>0, <1>1 DEF vars, Tick, tables
<1>2. ASSUME NEW w \in Proc, NEW x \in TxRow, txn[w] = x, x \in DeleteTx, x.todo = {},
             DeleteGone(x.gone)
      PROVE  FALSE
  BY <1>0, <1>2, DeletionTakes
<1>3. ASSUME NEW w \in Worker, Commits(w)
      PROVE  txn[w].pc \in {"exchangeCommit", "rejectCommit"} /\ txn[w].k = k
  <2>1. PICK x \in TxRow : txn[w] = x
    BY DEF TxInv, Proc
  <2>2. CASE RenewCommit(w) \/ ReplayCommit(w)
    BY <1>0, <2>2 DEF RenewCommit, RenewRows, ReplayCommit, RevokeFamily
  <2>3. CASE \E a2 \in Access, r2 \in Refresh : RotateCommit(w, a2, r2)
    BY <1>0, <2>3 DEF RotateCommit, RotateRows
  <2>4. CASE RejectCommit(w)
    BY <1>0, <2>4 DEF RejectCommit, ConsumeCode, TypeOK
  <2>5. ASSUME NEW f \in Family, NEW a \in Access, NEW r \in Refresh, ExchangeCommit(w, f, a, r)
        PROVE  txn[w].pc = "exchangeCommit" /\ txn[w].k = k
    <3>1. txn[w].pc = "exchangeCommit" /\ (code' = code \/ code' = [code EXCEPT ![txn[w].k] = NULL])
      BY <2>5 DEF ExchangeCommit, InsertTokenPair, tables
    <3> QED
      BY <1>0, <3>1 DEF TypeOK
  <2>6. ASSUME NEW j \in Code, CreateCodeCommit(w, j) PROVE FALSE
    <3>1. code' = code \/ code' = [code EXCEPT ![j] = [client |-> x.c, bind |-> x.b,
                                                       expires |-> x.start + CodeTTL]]
      BY <2>1, <2>6 DEF CreateCodeCommit, InsertCode, tables
    <3>2. x \in CreateTx
      BY <2>1, <2>6, Kinds DEF CreateCodeCommit
    <3>3. [client |-> x.c, bind |-> x.b, expires |-> x.start + CodeTTL] \in CodeRow
      BY <3>2, TTLAssumption DEF CreateTx, CodeRow
    <3> QED
      BY <1>0, <3>1, <3>3, NullAssumption DEF TypeOK
  <2>7. ASSUME NEW c \in Client, RegisterCommit(w, c) PROVE FALSE
    <3>1. x \in DeleteTx /\ x.todo = {} /\ DeleteGone(x.gone)
      BY <2>1, <2>7, Kinds DEF RegisterCommit, TxInv, TxFacts, Staged, Proc
    <3> QED
      BY <1>2, <2>1, <3>1 DEF Proc
  <2> QED
    BY <1>3, <2>2, <2>3, <2>4, <2>5, <2>6, <2>7 DEF Commits, RejectCommit
<1>4. ASSUME NEW w \in Evictor, EvictCommit(w) PROVE FALSE
  <2>1. PICK x \in TxRow : txn[w] = x
    BY DEF TxInv, Proc
  <2>2. x \in DeleteTx /\ x.todo = {} /\ DeleteGone(x.gone)
    BY <1>4, <2>1, Kinds DEF EvictCommit
  <2> QED
    BY <1>2, <2>1, <2>2 DEF Proc
<1> QED
  BY <1>1, <1>3, <1>4, OnlyCommits

\* Evict and the cascades of a client deletion never take a code that is still good,
\* even one committed after evict looked for the codes of its client.
THEOREM GoodCodesAreKept == TxSpec => GoodCodeKept
<1>1. TxInv /\ [TxNext]_txVars =>
         [\A k \in Rows(code) :
             (code[k].expires > now /\ code'[k] = NULL)
             => \E w \in Worker : /\ txn[w].pc \in {"exchangeCommit", "rejectCommit"}
                                  /\ txn[w].k = k]_txVars
  BY GoodCodeStep
<1> QED
  BY <1>1, TxInductive, PTL DEF TxSpec, GoodCodeKept

\* A commit gives the family it is about a deadline no earlier than the one it has.
LEMMA LongerFamily ==
    ASSUME TxInv, NEW w \in Proc, Commits(w) \/ EvictCommit(w), NEW f \in Family,
           family[f] # NULL, family'[f] # NULL
    PROVE  family'[f].expires >= family[f].expires
<1>0. TypeOK /\ family[f] \in FamilyRow /\ family[f].expires \in Nat
  BY DEF TxInv, IndInv, TypeOK, FamilyRow
<1>1. PICK x \in TxRow : txn[w] = x
  BY DEF TxInv
<1>2. ASSUME x \in RenewTx \cup RotateTx, OnFamily(x),
             family' = [family EXCEPT ![x.f].expires = x.t + TokenIdleTTL]
      PROVE  family'[f].expires >= family[f].expires
  <2>1. family[x.f].expires <= x.t + TokenIdleTTL /\ x.t \in Nat
    BY <1>1, <1>2 DEF TxInv, TxFacts, Renewing, Rotating, Judged, RenewTx, RotateTx
  <2>2. CASE f = x.f
    <3>1. family'[f] = [family[f] EXCEPT !.expires = x.t + TokenIdleTTL]
      BY <1>0, <1>2, <2>2 DEF TypeOK
    <3>2. family'[f].expires = x.t + TokenIdleTTL
      BY <1>0, <3>1 DEF FamilyRow
    <3> QED
      BY <1>0, <2>1, <2>2, <3>2, TTLAssumption
  <2>3. CASE f # x.f
    BY <1>0, <1>2, <2>3 DEF TypeOK
  <2> QED
    BY <2>2, <2>3
<1>3. ASSUME family'[f] = family[f] PROVE family'[f].expires >= family[f].expires
  BY <1>0, <1>3
<1>4. CASE RenewCommit(w)
  BY <1>1, <1>2, <1>4, Kinds DEF RenewCommit, RenewRows, OnFamily
<1>5. CASE \E a2 \in Access, r2 \in Refresh : RotateCommit(w, a2, r2)
  BY <1>1, <1>2, <1>5, Kinds DEF RotateCommit, RotateRows, OnFamily
<1>6. CASE ReplayCommit(w)
  <2>1. family' = [family EXCEPT ![x.f].state = "revoked"]
    BY <1>1, <1>6 DEF ReplayCommit, RevokeFamily
  <2>2. family'[f].expires = family[f].expires
    BY <1>0, <2>1 DEF TypeOK, FamilyRow
  <2> QED
    BY <1>0, <2>2
<1>7. CASE RejectCommit(w) \/ \E k \in Code : CreateCodeCommit(w, k)
  BY <1>3, <1>7 DEF RejectCommit, ConsumeCode, CreateCodeCommit, InsertCode, tables
<1>8. ASSUME NEW g \in Family, NEW a \in Access, NEW r \in Refresh, ExchangeCommit(w, g, a, r)
      PROVE  family'[f] = family[f]
  <2>1. f # g
    <3>1. f \in used
      BY <1>0 DEF TxInv, IndInv, FreshKeys, Rows, TypeOK
    <3> QED
      BY <1>8, <3>1 DEF ExchangeCommit
  <2> QED
    BY <1>0, <1>8, <2>1 DEF ExchangeCommit, InsertTokenPair, tables, TypeOK
<1>9. ASSUME x \in DeleteTx, x.todo = {}, DeleteGone(x.gone) PROVE family'[f] = family[f]
  BY <1>1, <1>9, DeletionTakes
<1>10. CASE \E c \in Client : RegisterCommit(w, c)
  <2>1. x \in DeleteTx /\ x.todo = {} /\ DeleteGone(x.gone)
    BY <1>1, <1>10, Kinds DEF RegisterCommit, TxInv, TxFacts, Staged
  <2> QED
    BY <1>3, <1>9, <2>1
<1>11. CASE EvictCommit(w)
  <2>1. x \in DeleteTx /\ x.todo = {} /\ DeleteGone(x.gone)
    BY <1>1, <1>11, Kinds DEF EvictCommit
  <2> QED
    BY <1>3, <1>9, <2>1
<1> QED
  BY <1>3, <1>4, <1>5, <1>6, <1>7, <1>8, <1>10, <1>11 DEF Commits

\* And so does it to an access token.
LEMMA LongerAccess ==
    ASSUME TxInv, NEW w \in Proc, Commits(w) \/ EvictCommit(w), NEW a \in Access,
           access[a] # NULL, access'[a] # NULL
    PROVE  access'[a].expires >= access[a].expires
<1>0. TypeOK /\ access[a] \in AccessRow /\ access[a].expires \in Nat /\ a \in used
  BY DEF TxInv, IndInv, TypeOK, AccessRow, FreshKeys, Rows
<1>1. PICK x \in TxRow : txn[w] = x
  BY DEF TxInv
<1>3. ASSUME access'[a] = access[a] PROVE access'[a].expires >= access[a].expires
  BY <1>0, <1>3
<1>4. CASE RenewCommit(w)
  <2>1. /\ x \in RenewTx /\ OnFamily(x) /\ x.pc = "renewCommit"
        /\ access' = [access EXCEPT ![x.a].expires = x.t + TokenIdleTTL]
    BY <1>1, <1>4, Kinds DEF RenewCommit, RenewRows, OnFamily
  <2>2. CASE a = x.a
    <3>1. /\ access[a].family = x.f /\ family[x.f].expires <= x.t + TokenIdleTTL
          /\ x.t \in Nat /\ x.f \in Family /\ family[x.f] # NULL
      BY <1>0, <1>1, <2>1, <2>2 DEF TxInv, TxFacts, Renewing, Judged, RenewTx
    <3>2. access[a].expires <= family[x.f].expires /\ family[x.f].expires \in Nat
      BY <1>0, <3>1 DEF TxInv, IndInv, IdleWindow, Rows, TypeOK, FamilyRow
    <3>3. access'[a] = [access[a] EXCEPT !.expires = x.t + TokenIdleTTL]
      BY <1>0, <2>1, <2>2 DEF TypeOK
    <3>4. access'[a].expires = x.t + TokenIdleTTL
      BY <1>0, <3>3 DEF AccessRow
    <3> QED
      BY <1>0, <3>1, <3>2, <3>4, TTLAssumption
  <2>3. CASE a # x.a
    BY <1>0, <1>3, <2>1, <2>3 DEF TypeOK
  <2> QED
    BY <2>2, <2>3
<1>5. ASSUME NEW a2 \in Access, NEW r2 \in Refresh, RotateCommit(w, a2, r2)
      PROVE  access'[a] = access[a]
  <2>1. a # a2
    BY <1>0, <1>5 DEF RotateCommit
  <2> QED
    BY <1>0, <1>5, <2>1 DEF RotateCommit, RotateRows, TypeOK
<1>6. CASE ReplayCommit(w) \/ RejectCommit(w) \/ \E k \in Code : CreateCodeCommit(w, k)
  BY <1>3, <1>6 DEF ReplayCommit, RevokeFamily, RejectCommit, ConsumeCode, CreateCodeCommit,
     InsertCode, tables
<1>7. ASSUME NEW f \in Family, NEW b \in Access, NEW r \in Refresh, ExchangeCommit(w, f, b, r)
      PROVE  access'[a] = access[a]
  <2>1. a # b
    BY <1>0, <1>7 DEF ExchangeCommit
  <2> QED
    BY <1>0, <1>7, <2>1 DEF ExchangeCommit, InsertTokenPair, tables, TypeOK
<1>8. ASSUME x \in DeleteTx, x.todo = {}, DeleteGone(x.gone) PROVE access'[a] = access[a]
  BY <1>1, <1>8, DeletionTakes
<1>9. CASE \E c \in Client : RegisterCommit(w, c)
  <2>1. x \in DeleteTx /\ x.todo = {} /\ DeleteGone(x.gone)
    BY <1>1, <1>9, Kinds DEF RegisterCommit, TxInv, TxFacts, Staged
  <2> QED
    BY <1>3, <1>8, <2>1
<1>10. CASE EvictCommit(w)
  <2>1. x \in DeleteTx /\ x.todo = {} /\ DeleteGone(x.gone)
    BY <1>1, <1>10, Kinds DEF EvictCommit
  <2> QED
    BY <1>3, <1>8, <2>1
<1> QED
  BY <1>3, <1>4, <1>5, <1>6, <1>7, <1>9, <1>10 DEF Commits

\* Commits that judged an older clock than others have committed with meanwhile still
\* never shorten the life of a session or of an access token.
THEOREM SessionsNeverShortened == TxSpec => NeverShortened
<1> DEFINE Longer == /\ \A f \in Rows(family) :
                           family'[f] # NULL => family'[f].expires >= family[f].expires
                     /\ \A a \in Rows(access) :
                           access'[a] # NULL => access'[a].expires >= access[a].expires
<1>1. TxInv /\ [TxNext]_txVars => Longer
  <2> SUFFICES ASSUME TxInv, [TxNext]_txVars PROVE Longer
    OBVIOUS
  <2>0. TypeOK
    BY DEF TxInv, IndInv
  <2>1. /\ \A f \in Rows(family) : f \in Family /\ family[f] # NULL /\ family[f].expires \in Nat
        /\ \A a \in Rows(access) : a \in Access /\ access[a] # NULL /\ access[a].expires \in Nat
    BY <2>0 DEF Rows, TypeOK, FamilyRow, AccessRow
  <2>2. CASE UNCHANGED vars \/ Tick
    BY <2>1, <2>2 DEF vars, Tick, tables
  <2>3. CASE (\E w \in Worker : Commits(w)) \/ (\E w \in Evictor : EvictCommit(w))
    BY <2>1, <2>3, LongerFamily, LongerAccess DEF Proc
  <2> QED
    BY <2>2, <2>3, OnlyCommits
<1>2. TxInv /\ [TxNext]_txVars => [Longer]_txVars
  BY <1>1
<1> QED
  BY <1>2, TxInductive, PTL DEF TxSpec, NeverShortened
=============================================================================
