-------------------------- MODULE OAuthStoreProofs --------------------------
(* Proofs about OAuthStore, for every value of its constants. *)
EXTENDS OAuthStore, FiniteSetTheorems, TLAPS

USE KeyAssumption, TTLAssumption, CapAssumption, NullAssumption

\* Deleting rows keeps a table a table.
LEMMA WithoutType ==
    ASSUME NEW S, NEW R, NEW table \in [S -> R \cup {NULL}], NEW keys
    PROVE  Without(table, keys) \in [S -> R \cup {NULL}]
BY DEF Without

\* Cascading deletes keep the tables they touch.
LEMMA CascadeType ==
    ASSUME TypeOK, NEW K, NEW A, NEW F, NEW C, DeleteCascade(K, A, F, C)
    PROVE  /\ code' \in [Code -> CodeRow \cup {NULL}]
           /\ family' \in [Family -> FamilyRow \cup {NULL}]
           /\ access' \in [Access -> AccessRow \cup {NULL}]
           /\ refresh' \in [Refresh -> RefreshRow \cup {NULL}]
BY WithoutType DEF TypeOK, DeleteCascade

\* Recording activity keeps the client table a table.
LEMMA TouchType ==
    ASSUME TypeOK, NEW c \in Client, NEW t \in Nat
    PROVE  Touch(c, t) \in [Client -> ClientRow \cup {NULL}]
BY DEF TypeOK, Touch, ClientRow

\* So does the upsert of registerCIMDClient.
LEMMA UpsertType ==
    ASSUME NEW old \in ClientRow \cup {NULL}, NEW c, NEW t \in Nat
    PROVE  UpsertClientRow(old, c, t) \in ClientRow
<1>1. CASE old = NULL
  BY <1>1 DEF UpsertClientRow, NewClientRow, ClientRow
<1>2. CASE old \in ClientRow
  <2>1. UpsertClientRow(old, c, t) = [old EXCEPT !.public = TRUE, !.meta = t, !.act = t]
    BY <1>2 DEF UpsertClientRow
  <2> QED
    BY <1>2, <2>1 DEF ClientRow
<1> QED
  BY <1>1, <1>2

\* The tables start well formed.
LEMMA TypeInit == Init => TypeOK
BY DEF Init, TypeOK, ClientRow

\* Every operation keeps them so.
LEMMA TypeNext == TypeOK /\ [Next]_vars => TypeOK'
<1> SUFFICES ASSUME TypeOK, [Next]_vars PROVE TypeOK'
  OBVIOUS
<1>0. now \in Nat
  BY DEF TypeOK
<1>1. CASE Tick
  BY <1>1 DEF TypeOK, Tick, tables
<1>2. CASE Evict
  BY <1>2, CascadeType, WithoutType DEF TypeOK, Evict, EvictRows
<1>3. ASSUME NEW c \in Client, RegisterClient(c) PROVE TypeOK'
  <2>1. NewClientRow(c, now) \in ClientRow
    BY <1>0 DEF NewClientRow, ClientRow
  <2>2. Without(client, EvictedClients(now)) \in [Client -> ClientRow \cup {NULL}]
    BY WithoutType DEF TypeOK
  <2> QED
    BY <1>3, <2>1, <2>2, CascadeType DEF TypeOK, RegisterClient, EvictRows
<1>4. ASSUME NEW c \in Client, RegisterCIMDClient(c) PROVE TypeOK'
  <2> DEFINE kept == Without(client, EvictedClients(now))
  <2>1. kept \in [Client -> ClientRow \cup {NULL}]
    BY WithoutType DEF TypeOK
  <2>2. UpsertClientRow(kept[c], c, now) \in ClientRow
    BY <1>0, <2>1, UpsertType
  <2>3. client' = [kept EXCEPT ![c] = UpsertClientRow(kept[c], c, now)]
    BY <1>4 DEF RegisterCIMDClient
  <2>4. client' \in [Client -> ClientRow \cup {NULL}]
    BY <2>1, <2>2, <2>3
  <2> QED
    BY <1>4, <2>4, CascadeType DEF TypeOK, RegisterCIMDClient, EvictRows
<1>5. ASSUME NEW k \in Code, NEW c \in Client, NEW b \in Binding, CreateCode(k, c, b)
      PROVE TypeOK'
  BY <1>0, <1>5, TouchType DEF TypeOK, CreateCode, InsertCode, CodeRow
<1>6. ASSUME NEW k \in Code, NEW c \in Client, NEW b \in Binding, ExchangeRejected(k, c, b)
      PROVE TypeOK'
  BY <1>6 DEF TypeOK, ExchangeRejected, ConsumeCode
<1>7. ASSUME NEW k \in Code, NEW c \in Client, NEW b \in Binding, NEW f \in Family,
             NEW a \in Access, NEW r \in Refresh, ExchangeCode(k, c, b, f, a, r)
      PROVE TypeOK'
  BY <1>0, <1>7, TouchType DEF TypeOK, ExchangeCode, InsertTokenPair, FamilyRow, AccessRow, RefreshRow
<1>8. ASSUME NEW a \in Access, RenewToken(a) PROVE TypeOK'
  <2> DEFINE f == access[a].family
  <2>1. access[a] \in AccessRow /\ f \in Family /\ family[f] \in FamilyRow
    BY <1>8 DEF TypeOK, RenewToken, Usable, AccessRow
  <2>2. Touch(family[f].client, now) \in [Client -> ClientRow \cup {NULL}]
    BY <1>0, <2>1, TouchType DEF FamilyRow
  <2>3. access' \in [Access -> AccessRow \cup {NULL}]
    BY <1>0, <1>8, <2>1 DEF TypeOK, RenewToken, RenewRows, AccessRow
  <2>4. family' \in [Family -> FamilyRow \cup {NULL}]
    BY <1>0, <1>8, <2>1 DEF TypeOK, RenewToken, RenewRows, FamilyRow
  <2>5. refresh' \in [Refresh -> RefreshRow \cup {NULL}]
    BY <1>0, <1>8, <2>1 DEF TypeOK, RenewToken, RenewRows, RefreshRow
  <2> QED
    BY <1>8, <2>2, <2>3, <2>4, <2>5 DEF TypeOK, RenewToken, RenewRows
<1>9. ASSUME NEW r \in Refresh, NEW c \in Client, ReplayRefresh(r, c) PROVE TypeOK'
  <2>1. refresh[r].family \in Family /\ family[refresh[r].family] \in FamilyRow
    BY <1>9 DEF TypeOK, ReplayRefresh, RefreshRow
  <2> QED
    BY <1>9, <2>1 DEF TypeOK, ReplayRefresh, RevokeFamily, FamilyRow
<1>10. ASSUME NEW r \in Refresh, NEW c \in Client, NEW a2 \in Access, NEW r2 \in Refresh,
              RotateRefresh(r, c, a2, r2)
       PROVE TypeOK'
  <2> DEFINE f == refresh[r].family
  <2>1. refresh[r] \in RefreshRow /\ f \in Family /\ family[f] \in FamilyRow
    BY <1>10 DEF TypeOK, RotateRefresh, RefreshRow
  <2>2. Touch(family[f].client, now) \in [Client -> ClientRow \cup {NULL}]
    BY <1>0, <2>1, TouchType DEF FamilyRow
  <2>3. access' \in [Access -> AccessRow \cup {NULL}]
    BY <1>0, <1>10, <2>1 DEF TypeOK, RotateRefresh, RotateRows, AccessRow
  <2>4. family' \in [Family -> FamilyRow \cup {NULL}]
    BY <1>0, <1>10, <2>1 DEF TypeOK, RotateRefresh, RotateRows, FamilyRow
  <2>5. refresh' \in [Refresh -> RefreshRow \cup {NULL}]
    BY <1>0, <1>10, <2>1 DEF TypeOK, RotateRefresh, RotateRows, RefreshRow
  <2> QED
    BY <1>10, <2>2, <2>3, <2>4, <2>5 DEF TypeOK, RotateRefresh, RotateRows
<1>11. CASE UNCHANGED vars
  BY <1>11 DEF vars, TypeOK
<1> QED
  BY <1>1, <1>2, <1>3, <1>4, <1>5, <1>6, <1>7, <1>8, <1>9, <1>10, <1>11 DEF Next

-----------------------------------------------------------------------------
(* The inductive invariant. *)

IndInv ==
    /\ TypeOK
    /\ FreshKeys
    /\ ReferentialIntegrity
    /\ SessionCover
    /\ IdleWindow

\* Cascading deletes keep every conjunct, as long as the clients they do not
\* delete keep their rows.
LEMMA CascadeInv ==
    ASSUME IndInv, TypeOK', NEW K, NEW A, NEW F, NEW C, DeleteCascade(K, A, F, C),
           \A x \in Client : client[x] # NULL /\ x \notin C => client'[x] # NULL,
           Rows(client)' \subseteq used' \cup CimdClient,
           used \subseteq used', now' = now
    PROVE  IndInv'
<1> DEFINE fams == F \cup FamiliesOf(C)
<1>1. /\ code' = Without(code, K \cup CodesOf(C))
      /\ family' = Without(family, fams)
      /\ access' = Without(access, A \cup AccessOf(fams))
      /\ refresh' = Without(refresh, RefreshOf(fams))
  BY DEF DeleteCascade
<1>2. \A k \in Code : code'[k] # NULL => /\ code'[k] = code[k]
                                        /\ code[k].client \notin C
  BY <1>1 DEF IndInv, TypeOK, Without, CodesOf, Rows
<1>3. \A f \in Family : family'[f] # NULL => /\ family'[f] = family[f]
                                            /\ family[f].client \notin C
                                            /\ f \notin fams
  BY <1>1 DEF IndInv, TypeOK, Without, FamiliesOf, Rows
<1>4. \A a \in Access : access'[a] # NULL => /\ access'[a] = access[a]
                                            /\ access[a].family \notin fams
  BY <1>1 DEF IndInv, TypeOK, Without, AccessOf, Rows
<1>5. \A r \in Refresh : /\ refresh'[r] # NULL => /\ refresh'[r] = refresh[r]
                                                  /\ refresh[r].family \notin fams
                         /\ refresh[r] # NULL /\ refresh[r].family \notin fams
                            => refresh'[r] = refresh[r]
  BY <1>1 DEF IndInv, TypeOK, Without, RefreshOf, Rows
<1>6. \A f \in Family : family[f] # NULL /\ f \notin fams => family'[f] = family[f]
  BY <1>1 DEF IndInv, TypeOK, Without
<1> HIDE DEF fams
<1>7. FreshKeys'
  BY <1>2, <1>3, <1>4, <1>5 DEF IndInv, TypeOK, FreshKeys, Rows
<1>8. ReferentialIntegrity'
  <2>1. \A k \in Code : code'[k] # NULL => client'[code'[k].client] # NULL
    BY <1>2 DEF IndInv, TypeOK, ReferentialIntegrity, Rows, CodeRow
  <2>2. \A f \in Family : family'[f] # NULL => client'[family'[f].client] # NULL
    BY <1>3 DEF IndInv, TypeOK, ReferentialIntegrity, Rows, FamilyRow
  <2>3. \A a \in Access : access'[a] # NULL => family'[access'[a].family] # NULL
    BY <1>4, <1>6 DEF IndInv, TypeOK, ReferentialIntegrity, Rows, AccessRow
  <2>4. \A r \in Refresh : refresh'[r] # NULL => family'[refresh'[r].family] # NULL
    BY <1>5, <1>6 DEF IndInv, TypeOK, ReferentialIntegrity, Rows, RefreshRow
  <2> QED
    BY <2>1, <2>2, <2>3, <2>4 DEF TypeOK, ReferentialIntegrity, Rows
<1>9. SessionCover'
  <2> SUFFICES ASSUME NEW f \in Family, family'[f] # NULL
               PROVE  /\ \E r \in LiveRefresh(f)' : refresh'[r].expires = family'[f].expires
                      /\ \A r1, r2 \in LiveRefresh(f)' : r1 = r2
    BY DEF SessionCover, Rows, TypeOK
  <2>1. family[f] # NULL /\ family'[f] = family[f] /\ f \notin fams
    BY <1>3
  <2>2. LiveRefresh(f)' = LiveRefresh(f)
    BY <1>5, <2>1 DEF IndInv, TypeOK, LiveRefresh, Rows
  <2>3. PICK r \in LiveRefresh(f) : refresh[r].expires = family[f].expires
    BY <2>1 DEF IndInv, SessionCover, Rows, TypeOK
  <2>4. refresh'[r] = refresh[r]
    BY <1>5, <2>1, <2>3 DEF IndInv, TypeOK, LiveRefresh, Rows
  <2> QED
    BY <2>1, <2>2, <2>3, <2>4 DEF IndInv, SessionCover, Rows, TypeOK
<1>10. IdleWindow'
  <2>1. \A a \in Access : access'[a] # NULL => access'[a].expires <= family'[access'[a].family].expires
    BY <1>4, <1>6 DEF IndInv, TypeOK, IdleWindow, ReferentialIntegrity, Rows, AccessRow
  <2> QED
    BY <2>1, <1>2, <1>3 DEF IndInv, TypeOK, IdleWindow, Rows
<1> QED
  BY <1>7, <1>8, <1>9, <1>10 DEF IndInv

\* The empty tables satisfy the inductive invariant.
LEMMA IndInit == Init => IndInv
<1> SUFFICES ASSUME Init PROVE IndInv
  OBVIOUS
<1>1. TypeOK
  BY TypeInit
<1> QED
  BY <1>1 DEF Init, IndInv, FreshKeys, ReferentialIntegrity, SessionCover, IdleWindow, Rows

\* Recording activity neither adds nor removes a client.
LEMMA TouchKeepsRows ==
    ASSUME TypeOK, NEW c \in Client, NEW t \in Nat, NEW x \in Client
    PROVE  (Touch(c, t)[x] # NULL) <=> (client[x] # NULL)
BY DEF Touch, TypeOK, ClientRow

\* The effects of the operations, at a clock reading t that may be older than the
\* commit.  A code is inserted for a client that has a row.
LEMMA InsertCodeInv ==
    ASSUME IndInv, NEW k \in Code, NEW c \in Client, NEW b \in Binding, NEW t \in Nat, t <= now,
           k \notin used, client[c] # NULL, InsertCode(k, c, b, t), now' = now
    PROVE  IndInv'
<1>0. TypeOK /\ now \in Nat
  BY DEF IndInv, TypeOK
<1>1. TypeOK'
  BY <1>0, TouchType DEF TypeOK, InsertCode, CodeRow
<1>2. \A x \in Client : client'[x] # NULL <=> client[x] # NULL
  BY <1>0, TouchKeepsRows DEF InsertCode
<1>3. code' = [code EXCEPT ![k] = [client |-> c, bind |-> b, expires |-> t + CodeTTL]]
  BY DEF InsertCode
<1>4. FreshKeys'
  BY <1>0, <1>1, <1>2, <1>3 DEF InsertCode, IndInv, FreshKeys, Rows, TypeOK
<1>5. ReferentialIntegrity'
  BY <1>0, <1>1, <1>2, <1>3 DEF InsertCode, IndInv, ReferentialIntegrity, Rows,
     TypeOK, CodeRow, FamilyRow
<1>6. SessionCover' /\ IdleWindow'
  BY <1>0, <1>1, <1>3 DEF InsertCode, IndInv, SessionCover, LiveRefresh, IdleWindow, Rows, TypeOK
<1> QED
  BY <1>1, <1>4, <1>5, <1>6 DEF IndInv

\* A family and its first pair of tokens, under fresh keys.
LEMMA InsertPairInv ==
    ASSUME IndInv, NEW k \in Code, NEW c \in Client, NEW f \in Family, NEW a \in Access,
           NEW r \in Refresh, NEW t \in Nat, t <= now,
           {f, a, r} \cap used = {}, client[c] # NULL,
           InsertTokenPair(k, c, f, a, r, t), now' = now
    PROVE  IndInv'
<1>0. TypeOK /\ now \in Nat
  BY DEF IndInv, TypeOK
<1>1. TypeOK'
  BY <1>0, TouchType DEF TypeOK, InsertTokenPair, FamilyRow, AccessRow, RefreshRow
<1>2. \A x \in Client : client'[x] # NULL <=> client[x] # NULL
  BY <1>0, TouchKeepsRows DEF InsertTokenPair
<1>3. family[f] = NULL /\ access[a] = NULL /\ refresh[r] = NULL
  BY <1>0 DEF IndInv, FreshKeys, Rows, TypeOK
<1>4. /\ family' = [family EXCEPT ![f] = [client |-> c, expires |-> t + TokenIdleTTL, state |-> "live"]]
      /\ access' = [access EXCEPT ![a] = [family |-> f, expires |-> t + TokenIdleTTL]]
      /\ refresh' = [refresh EXCEPT ![r] = [family |-> f, expires |-> t + TokenIdleTTL, state |-> "live"]]
      /\ code' = [code EXCEPT ![k] = NULL]
      /\ used' = used \cup {f, a, r}
  BY DEF InsertTokenPair
<1>5. FreshKeys'
  BY <1>0, <1>1, <1>2, <1>4 DEF IndInv, FreshKeys, Rows, TypeOK
<1>6. ReferentialIntegrity'
  BY <1>0, <1>1, <1>2, <1>3, <1>4 DEF IndInv, ReferentialIntegrity, Rows, TypeOK,
     CodeRow, FamilyRow, AccessRow, RefreshRow
<1>7. SessionCover'
  <2>1. \A x \in Refresh : refresh[x] # NULL => refresh[x].family # f
    BY <1>0, <1>3 DEF IndInv, ReferentialIntegrity, Rows, TypeOK
  <2>2. refresh'[r].expires = t + TokenIdleTTL /\ LiveRefresh(f)' = {r}
    BY <1>0, <1>1, <1>4, <2>1 DEF LiveRefresh, Rows, TypeOK, RefreshRow
  <2>3. \A g \in Family \ {f} : LiveRefresh(g)' = LiveRefresh(g)
    BY <1>0, <1>1, <1>3, <1>4 DEF LiveRefresh, Rows, TypeOK, RefreshRow
  <2>4. \A x \in Refresh \ {r} : refresh'[x] = refresh[x]
    BY <1>0, <1>4 DEF TypeOK
  <2>5. \A g \in Family : r \notin LiveRefresh(g)
    BY <1>0, <1>3 DEF LiveRefresh, Rows
  <2> QED
    BY <1>0, <1>1, <1>4, <2>2, <2>3, <2>4, <2>5 DEF IndInv, SessionCover, Rows, TypeOK, LiveRefresh
<1>8. IdleWindow'
  BY <1>0, <1>1, <1>3, <1>4 DEF IndInv, IdleWindow, ReferentialIntegrity, Rows, TypeOK,
     CodeRow, FamilyRow, AccessRow
<1> QED
  BY <1>1, <1>5, <1>6, <1>7, <1>8 DEF IndInv

\* A code is deleted.
LEMMA ConsumeInv ==
    ASSUME IndInv, NEW k \in Code, ConsumeCode(k), now' = now
    PROVE  IndInv'
BY DEF ConsumeCode, IndInv, TypeOK, FreshKeys, ReferentialIntegrity, SessionCover, LiveRefresh,
   IdleWindow, Rows

\* A family that has not expired at t, its access token a and its refresh token
\* get the deadline that t gives, which is no earlier than theirs.
LEMMA RenewInv ==
    ASSUME IndInv, NEW a \in Access, NEW f \in Family, NEW t \in Nat, t <= now,
           access[a] # NULL, access[a].family = f, family[f] # NULL,
           family[f].expires > t, family[f].expires <= t + TokenIdleTTL,
           RenewRows(a, f, t), now' = now
    PROVE  IndInv'
<1> DEFINE exp == t + TokenIdleTTL
<1>0. TypeOK /\ now \in Nat
  BY DEF IndInv, TypeOK
<1>1. access[a] \in AccessRow /\ family[f] \in FamilyRow /\ family[f].client \in Client
  BY <1>0 DEF TypeOK, FamilyRow
<1>2. /\ access' = [access EXCEPT ![a].expires = exp]
      /\ family' = [family EXCEPT ![f].expires = exp]
      /\ client' = Touch(family[f].client, t)
      /\ code' = code /\ used' = used
  BY DEF RenewRows
<1>3. /\ \A x \in Access \ {a} : access'[x] = access[x]
      /\ access'[a].expires = exp /\ access'[a].family = f /\ access'[a] \in AccessRow
  BY <1>0, <1>1, <1>2 DEF TypeOK, AccessRow
<1>4. /\ \A g \in Family \ {f} : family'[g] = family[g]
      /\ family'[f].expires = exp /\ family'[f].client = family[f].client
      /\ family'[f] \in FamilyRow
  BY <1>0, <1>1, <1>2 DEF TypeOK, FamilyRow
<1>5. TypeOK'
  <2>1. client' \in [Client -> ClientRow \cup {NULL}]
    BY <1>0, <1>1, <1>2, TouchType
  <2>2. refresh' \in [Refresh -> RefreshRow \cup {NULL}]
    BY <1>0 DEF TypeOK, RenewRows, RefreshRow
  <2> QED
    BY <1>0, <1>2, <1>3, <1>4, <2>1, <2>2 DEF TypeOK
<1>6. \A x \in Client : client'[x] # NULL <=> client[x] # NULL
  BY <1>0, <1>1, <1>2, TouchKeepsRows
<1>7. \A r \in Refresh :
         /\ refresh'[r] # NULL <=> refresh[r] # NULL
         /\ refresh[r] # NULL => /\ refresh'[r].family = refresh[r].family
                                /\ refresh'[r].state = refresh[r].state
         /\ r \notin LiveRefresh(f) => refresh'[r] = refresh[r]
         /\ r \in LiveRefresh(f) /\ refresh[r].expires > t => refresh'[r].expires = exp
  BY <1>0 DEF RenewRows, TypeOK, RefreshRow, LiveRefresh, Rows
<1>8. \A g \in Family : LiveRefresh(g)' = LiveRefresh(g)
  BY <1>0, <1>5, <1>7 DEF LiveRefresh, Rows, TypeOK
<1>9. access'[a] # NULL /\ family'[f] # NULL
  BY <1>3, <1>4
<1>10. exp >= family[f].expires /\ exp <= now + TokenIdleTTL /\ exp \in Nat
  BY <1>0, <1>1 DEF FamilyRow
<1> HIDE DEF exp
<1>11. FreshKeys'
  BY <1>0, <1>2, <1>3, <1>4, <1>5, <1>6, <1>7 DEF IndInv, FreshKeys, Rows, TypeOK
<1>12. ReferentialIntegrity'
  BY <1>0, <1>1, <1>2, <1>3, <1>4, <1>5, <1>6, <1>7, <1>9 DEF IndInv, ReferentialIntegrity, Rows,
     TypeOK, CodeRow, FamilyRow, AccessRow, RefreshRow
<1>13. SessionCover'
  <2>1. PICK r \in LiveRefresh(f) : refresh[r].expires = family[f].expires
    BY <1>0 DEF IndInv, SessionCover, Rows, TypeOK
  <2>2. refresh'[r].expires = family'[f].expires
    <3>1. r \in Refresh
      BY <1>0 DEF LiveRefresh, Rows, TypeOK
    <3> QED
      BY <1>4, <1>7, <2>1, <3>1
  <2>3. \A g \in Family \ {f} : \A x \in LiveRefresh(g) : refresh'[x] = refresh[x]
    BY <1>0, <1>7 DEF LiveRefresh, Rows, TypeOK
  <2> QED
    BY <1>0, <1>4, <1>5, <1>8, <2>1, <2>2, <2>3 DEF IndInv, SessionCover, Rows, TypeOK
<1>14. IdleWindow'
  <2>1. ASSUME NEW x \in Access, access'[x] # NULL
        PROVE  access'[x].expires <= family'[access'[x].family].expires
    <3>1. CASE x = a
      BY <3>1, <1>3, <1>4, <1>10
    <3>2. CASE x # a
      <4>1. access'[x] = access[x] /\ access[x] \in AccessRow
        BY <3>2, <2>1, <1>0, <1>3 DEF TypeOK
      <4>2. access[x].expires <= family[access[x].family].expires
        BY <4>1, <1>0 DEF IndInv, IdleWindow, Rows, TypeOK
      <4>3. access[x].family \in Family /\ family[access[x].family] \in FamilyRow
        BY <4>1, <1>0 DEF IndInv, ReferentialIntegrity, Rows, TypeOK, AccessRow
      <4> QED
        BY <4>1, <4>2, <4>3, <1>1, <1>4, <1>10 DEF AccessRow, FamilyRow
    <3> QED
      BY <3>1, <3>2
  <2> QED
    BY <1>0, <1>2, <1>4, <1>5, <1>10, <2>1 DEF IndInv, IdleWindow, Rows, TypeOK
<1> QED
  BY <1>5, <1>11, <1>12, <1>13, <1>14 DEF IndInv

\* A family is revoked.
LEMMA RevokeInv ==
    ASSUME IndInv, NEW f \in Family, family[f] # NULL, RevokeFamily(f), now' = now
    PROVE  IndInv'
<1>0. TypeOK /\ family[f] \in FamilyRow
  BY DEF IndInv, TypeOK
<1>1. /\ \A g \in Family \ {f} : family'[g] = family[g]
      /\ family'[f].expires = family[f].expires /\ family'[f].client = family[f].client
      /\ family'[f] \in FamilyRow /\ family'[f] # NULL /\ family[f] # NULL
  BY <1>0 DEF TypeOK, FamilyRow, RevokeFamily
<1>2. UNCHANGED <<now, client, code, access, refresh, used>>
  BY DEF RevokeFamily
<1>3. TypeOK'
  BY <1>0, <1>1, <1>2 DEF TypeOK, RevokeFamily
<1>4. \A g \in Family : /\ family'[g] # NULL <=> family[g] # NULL
                        /\ family'[g].expires = family[g].expires
                        /\ family'[g].client = family[g].client
  BY <1>1
<1>5. FreshKeys' /\ ReferentialIntegrity'
  BY <1>0, <1>2, <1>3, <1>4 DEF IndInv, FreshKeys, ReferentialIntegrity, Rows, TypeOK,
     AccessRow, RefreshRow
<1>6. SessionCover'
  BY <1>0, <1>2, <1>3, <1>4 DEF IndInv, SessionCover, LiveRefresh, Rows, TypeOK
<1>7. IdleWindow'
  BY <1>0, <1>2, <1>3, <1>4 DEF IndInv, IdleWindow, Rows, TypeOK, AccessRow
<1> QED
  BY <1>3, <1>5, <1>6, <1>7 DEF IndInv

\* The live token r of a family is replaced by r2.
LEMMA RotateInv ==
    ASSUME IndInv, NEW r \in Refresh, NEW f \in Family, NEW a2 \in Access, NEW r2 \in Refresh,
           NEW t \in Nat, t <= now,
           refresh[r] # NULL, refresh[r].family = f, refresh[r].state = "live",
           family[f] # NULL, family[f].expires <= t + TokenIdleTTL,
           {a2, r2} \cap used = {}, RotateRows(r, f, a2, r2, t), now' = now
    PROVE  IndInv'
<1> DEFINE exp == t + TokenIdleTTL
<1>0. TypeOK /\ now \in Nat
  BY DEF IndInv, TypeOK
<1>1. refresh[r] \in RefreshRow /\ family[f] \in FamilyRow /\ family[f].client \in Client
  BY <1>0 DEF TypeOK, FamilyRow
<1>2. access[a2] = NULL /\ refresh[r2] = NULL /\ r # r2
  BY <1>0 DEF IndInv, FreshKeys, Rows, TypeOK
<1>3. /\ client' = Touch(family[f].client, t)
      /\ code' = code /\ used' = used \cup {a2, r2}
  BY DEF RotateRows
<1>4. /\ \A x \in Access \ {a2} : access'[x] = access[x]
      /\ access'[a2] = [family |-> f, expires |-> exp] /\ access'[a2] \in AccessRow
  BY <1>0 DEF TypeOK, RotateRows, AccessRow
<1>5. /\ \A g \in Family \ {f} : family'[g] = family[g]
      /\ family'[f].expires = exp /\ family'[f].client = family[f].client
      /\ family'[f] \in FamilyRow
  BY <1>0, <1>1 DEF TypeOK, RotateRows, FamilyRow
<1>6. /\ \A x \in Refresh \ {r, r2} : refresh'[x] = refresh[x]
      /\ refresh'[r].family = f /\ refresh'[r].state = "consumed" /\ refresh'[r] \in RefreshRow
      /\ refresh'[r2].family = f /\ refresh'[r2].state = "live"
      /\ refresh'[r2].expires = exp /\ refresh'[r2] \in RefreshRow
  BY <1>0, <1>1, <1>2 DEF TypeOK, RotateRows, RefreshRow
<1>7. TypeOK'
  <2>1. client' \in [Client -> ClientRow \cup {NULL}]
    BY <1>0, <1>1, <1>3, TouchType
  <2>2. access' \in [Access -> AccessRow \cup {NULL}]
    BY <1>0, <1>4 DEF TypeOK, RotateRows
  <2>3. family' \in [Family -> FamilyRow \cup {NULL}]
    BY <1>0, <1>5 DEF TypeOK, RotateRows
  <2>4. refresh' \in [Refresh -> RefreshRow \cup {NULL}]
    BY <1>0, <1>6 DEF TypeOK, RotateRows
  <2> QED
    BY <1>0, <1>3, <2>1, <2>2, <2>3, <2>4 DEF TypeOK
<1>8. \A x \in Client : client'[x] # NULL <=> client[x] # NULL
  BY <1>0, <1>1, <1>3, TouchKeepsRows
<1>9. access'[a2] # NULL /\ family'[f] # NULL /\ refresh'[r] # NULL /\ refresh'[r2] # NULL
  BY <1>4, <1>5, <1>6
<1>10. exp >= family[f].expires /\ exp <= now + TokenIdleTTL /\ exp \in Nat
  BY <1>0, <1>1 DEF FamilyRow
<1> HIDE DEF exp
<1>11. FreshKeys'
  BY <1>0, <1>1, <1>2, <1>3, <1>4, <1>5, <1>6, <1>7, <1>8 DEF IndInv, FreshKeys, Rows, TypeOK
<1>12. ReferentialIntegrity'
  BY <1>0, <1>1, <1>2, <1>3, <1>4, <1>5, <1>6, <1>7, <1>8, <1>9 DEF IndInv, ReferentialIntegrity,
     Rows, TypeOK, CodeRow, FamilyRow, AccessRow, RefreshRow
<1>13. SessionCover'
  <2>0. r \in LiveRefresh(f)
    BY <1>0, <1>1 DEF LiveRefresh, Rows, TypeOK
  <2>1. LiveRefresh(f)' = {r2}
    <3>1. \A x \in LiveRefresh(f) : x = r
      BY <1>0, <1>1, <2>0 DEF IndInv, SessionCover, Rows, TypeOK
    <3>2. \A x \in Refresh \ {r, r2} : x \notin LiveRefresh(f)'
      BY <1>0, <1>6, <3>1 DEF LiveRefresh, Rows, TypeOK
    <3>3. r \notin LiveRefresh(f)'
      BY <1>6 DEF LiveRefresh
    <3>4. r2 \in LiveRefresh(f)'
      BY <1>7, <1>6, <1>9 DEF LiveRefresh, Rows, TypeOK
    <3>5. LiveRefresh(f)' \subseteq Refresh
      BY <1>7 DEF LiveRefresh, Rows, TypeOK
    <3> QED
      BY <3>2, <3>3, <3>4, <3>5
  <2>2. \A g \in Family \ {f} : LiveRefresh(g)' = LiveRefresh(g)
    BY <1>0, <1>1, <1>2, <1>6, <1>7 DEF LiveRefresh, Rows, TypeOK
  <2>3. \A g \in Family \ {f} : \A x \in LiveRefresh(g) : refresh'[x] = refresh[x]
    BY <1>0, <1>1, <1>2, <1>6 DEF LiveRefresh, Rows, TypeOK
  <2> SUFFICES ASSUME NEW g \in Family, family'[g] # NULL
               PROVE  /\ \E x \in LiveRefresh(g)' : refresh'[x].expires = family'[g].expires
                      /\ \A x, y \in LiveRefresh(g)' : x = y
    BY <1>7 DEF SessionCover, Rows, TypeOK
  <2>4. CASE g = f
    BY <1>5, <1>6, <2>1, <2>4
  <2>5. CASE g # f
    BY <1>0, <1>5, <2>2, <2>3, <2>5 DEF IndInv, SessionCover, Rows, TypeOK
  <2> QED
    BY <2>4, <2>5
<1>14. IdleWindow'
  <2>1. ASSUME NEW x \in Access, access'[x] # NULL
        PROVE  access'[x].expires <= family'[access'[x].family].expires
    <3>1. CASE x = a2
      BY <3>1, <1>4, <1>5, <1>10
    <3>2. CASE x # a2
      <4>1. access'[x] = access[x] /\ access[x] \in AccessRow
        BY <3>2, <2>1, <1>0, <1>4 DEF TypeOK
      <4>2. access[x].expires <= family[access[x].family].expires
        BY <4>1, <1>0 DEF IndInv, IdleWindow, Rows, TypeOK
      <4>3. access[x].family \in Family /\ family[access[x].family] \in FamilyRow
        BY <4>1, <1>0 DEF IndInv, ReferentialIntegrity, Rows, TypeOK, AccessRow
      <4> QED
        BY <4>1, <4>2, <4>3, <1>1, <1>5, <1>10 DEF AccessRow, FamilyRow
    <3> QED
      BY <3>1, <3>2
  <2> QED
    BY <1>0, <1>3, <1>5, <1>7, <1>10, <2>1 DEF IndInv, IdleWindow, Rows, TypeOK
<1> QED
  BY <1>7, <1>11, <1>12, <1>13, <1>14 DEF IndInv

\* Every operation keeps the inductive invariant.
LEMMA IndNext == IndInv /\ [Next]_vars => IndInv'
<1> SUFFICES ASSUME IndInv, [Next]_vars PROVE IndInv'
  OBVIOUS
<1>0. TypeOK /\ TypeOK' /\ now \in Nat
  BY TypeNext DEF IndInv, TypeOK
<1>1. CASE Tick
  BY <1>0, <1>1 DEF Tick, tables, IndInv, TypeOK, FreshKeys, ReferentialIntegrity,
       SessionCover, LiveRefresh, IdleWindow, Rows, CodeRow, FamilyRow
<1>2. CASE Evict
  <2>1. \A x \in Client : client[x] # NULL /\ x \notin EvictedClients(now) => client'[x] # NULL
    BY <1>0, <1>2 DEF Evict, Without, TypeOK
  <2>2. Rows(client)' \subseteq used' \cup CimdClient
    BY <1>0, <1>2 DEF Evict, Without, TypeOK, IndInv, FreshKeys, Rows
  <2> QED
    BY <1>0, <1>2, <2>1, <2>2, CascadeInv DEF Evict, EvictRows
<1>3. ASSUME NEW c \in Client, RegisterClient(c) PROVE IndInv'
  <2>0. NewClientRow(c, now) \in ClientRow
    BY <1>0 DEF NewClientRow, ClientRow
  <2>1. NewClientRow(c, now) # NULL
    BY <2>0
  <2>2. \A x \in Client : client[x] # NULL /\ x \notin EvictedClients(now) => client'[x] # NULL
    BY <1>0, <1>3, <2>1 DEF RegisterClient, Without, TypeOK
  <2>3. Rows(client)' \subseteq used' \cup CimdClient
    BY <1>0, <1>3 DEF RegisterClient, Without, TypeOK, IndInv, FreshKeys, Rows
  <2> QED
    BY <1>0, <1>3, <2>2, <2>3, CascadeInv DEF RegisterClient, EvictRows
<1>4. ASSUME NEW c \in Client, RegisterCIMDClient(c) PROVE IndInv'
  <2> DEFINE kept == Without(client, EvictedClients(now))
  <2>0. kept \in [Client -> ClientRow \cup {NULL}]
    BY <1>0, WithoutType DEF TypeOK
  <2>1. UpsertClientRow(kept[c], c, now) # NULL
    BY <1>0, <2>0, UpsertType
  <2>2. \A x \in Client : client[x] # NULL /\ x \notin EvictedClients(now) => client'[x] # NULL
    BY <1>0, <1>4, <2>1 DEF RegisterCIMDClient, Without, TypeOK
  <2>3. Rows(client)' \subseteq used' \cup CimdClient
    BY <1>0, <1>4 DEF RegisterCIMDClient, Without, TypeOK, IndInv, FreshKeys, Rows
  <2> QED
    BY <1>0, <1>4, <2>2, <2>3, CascadeInv DEF RegisterCIMDClient, EvictRows
<1>5. ASSUME NEW k \in Code, NEW c \in Client, NEW b \in Binding, CreateCode(k, c, b)
      PROVE IndInv'
  BY <1>0, <1>5, InsertCodeInv DEF CreateCode
<1>6. ASSUME NEW k \in Code, NEW c \in Client, NEW b \in Binding, ExchangeRejected(k, c, b)
      PROVE IndInv'
  BY <1>6, ConsumeInv DEF ExchangeRejected
<1>7. ASSUME NEW k \in Code, NEW c \in Client, NEW b \in Binding, NEW f \in Family,
             NEW a \in Access, NEW r \in Refresh, ExchangeCode(k, c, b, f, a, r)
      PROVE IndInv'
  <2>1. client[c] # NULL
    BY <1>0, <1>7 DEF ExchangeCode, CodeValid, IndInv, ReferentialIntegrity, Rows, TypeOK
  <2> QED
    BY <1>0, <1>7, <2>1, InsertPairInv DEF ExchangeCode
<1>8. ASSUME NEW a \in Access, RenewToken(a) PROVE IndInv'
  <2> DEFINE f == access[a].family
  <2>1. /\ access[a] # NULL /\ f \in Family /\ family[f] # NULL /\ family[f].expires > now
        /\ RenewRows(a, f, now) /\ now' = now
    BY <1>0, <1>8 DEF TypeOK, RenewToken, Usable, AccessRow
  <2>2. family[f].expires <= now + TokenIdleTTL
    BY <1>0, <2>1 DEF IndInv, IdleWindow, Rows, TypeOK
  <2> QED
    BY <1>0, <2>1, <2>2, RenewInv
<1>9. ASSUME NEW r \in Refresh, NEW c \in Client, ReplayRefresh(r, c) PROVE IndInv'
  <2>1. refresh[r].family \in Family
    BY <1>0, <1>9 DEF TypeOK, ReplayRefresh, RefreshRow
  <2> QED
    BY <1>9, <2>1, RevokeInv DEF ReplayRefresh
<1>10. ASSUME NEW r \in Refresh, NEW c \in Client, NEW a2 \in Access, NEW r2 \in Refresh,
              RotateRefresh(r, c, a2, r2)
       PROVE IndInv'
  <2>0. PICK f \in Family : f = refresh[r].family
    BY <1>0, <1>10 DEF TypeOK, RotateRefresh, RefreshRow
  <2>1. family[f].expires <= now + TokenIdleTTL
    BY <1>0, <1>10, <2>0 DEF RotateRefresh, IndInv, IdleWindow, Rows, TypeOK
  <2> QED
    BY <1>0, <1>10, <2>0, <2>1, RotateInv DEF RotateRefresh
<1>11. CASE UNCHANGED vars
  BY <1>11 DEF vars, IndInv, TypeOK, FreshKeys, ReferentialIntegrity, SessionCover,
     LiveRefresh, IdleWindow, Rows
<1> QED
  BY <1>1, <1>2, <1>3, <1>4, <1>5, <1>6, <1>7, <1>8, <1>9, <1>10, <1>11 DEF Next

\* The inductive invariant holds in every reachable state.
LEMMA Inductive == Spec => []IndInv
BY IndInit, IndNext, PTL DEF Spec

\* Every operation keeps the tables well formed.
THEOREM TypeCorrect == Spec => []TypeOK
<1>1. IndInv => TypeOK
  BY DEF IndInv
<1> QED
  BY <1>1, Inductive, PTL

\* Codes and families always name a client that has a row, tokens a family that
\* has one: no delete and no eviction leaves an orphan for a lookup to join.
THEOREM ReferencesHold == Spec => []ReferentialIntegrity
<1>1. IndInv => ReferentialIntegrity
  BY DEF IndInv
<1> QED
  BY <1>1, Inductive, PTL

\* A family always has exactly one unconsumed refresh token, which lives as long
\* as the family: renewToken never leaves a session that cannot be refreshed.
THEOREM SessionsCovered == Spec => []SessionCover
<1>1. IndInv => SessionCover
  BY DEF IndInv
<1> QED
  BY <1>1, Inductive, PTL

\* No access token outlives its family and no family the idle window, so
\* evicting an expired family never takes a token that could be used.
THEOREM IdleWindowHolds == Spec => []IdleWindow
<1>1. IndInv => IdleWindow
  BY DEF IndInv
<1> QED
  BY <1>1, Inductive, PTL

-----------------------------------------------------------------------------
(* The client cap. *)

\* The client rows are finitely many, so that they can be counted.
LEMMA RowsOfClient ==
    ASSUME TypeOK
    PROVE  Rows(client) \subseteq Client /\ IsFiniteSet(Rows(client))
           /\ Cardinality(Rows(client)) \in Nat
<1>1. Rows(client) \subseteq Client
  BY DEF Rows, TypeOK
<1>2. IsFiniteSet(Rows(client))
  BY <1>1, FS_Subset
<1> QED
  BY <1>1, <1>2, FS_CardinalityType

\* The clients an operator inserted fit under the cap.
LEMMA CapInit == Init => ClientCap
<1> SUFFICES ASSUME Init PROVE ClientCap
  OBVIOUS
<1>1. \A c \in StaticClient : client[c] \in ClientRow
  BY DEF Init, ClientRow
<1>2. \A c \in Client : client[c] # NULL <=> c \in StaticClient
  BY <1>1 DEF Init
<1>3. DOMAIN client = Client /\ StaticClient \subseteq Client
  BY DEF Init
<1>4. Rows(client) = StaticClient
  BY <1>2, <1>3 DEF Rows
<1> QED
  BY <1>4 DEF ClientCap

\* The rows a registration leaves: those its eviction kept, and the new one.
LEMMA CapAdd ==
    ASSUME NEW S, IsFiniteSet(S), NEW T, T \subseteq S, NEW c,
           Cardinality(S) <= MaxClients, c \in T \/ Cardinality(T) < MaxClients
    PROVE  Cardinality(T \cup {c}) <= MaxClients
<1>1. IsFiniteSet(T) /\ Cardinality(T) <= Cardinality(S)
  BY FS_Subset
<1>2. Cardinality(T) \in Nat /\ Cardinality(S) \in Nat
  BY <1>1, FS_CardinalityType
<1>3. CASE c \in T
  <2>1. T \cup {c} = T
    BY <1>3
  <2> QED
    BY <1>1, <1>2, <2>1
<1>4. CASE c \notin T
  <2>1. Cardinality(T \cup {c}) = Cardinality(T) + 1
    BY <1>1, <1>4, FS_AddElement
  <2> QED
    BY <1>2, <1>4, <2>1
<1> QED
  BY <1>3, <1>4

\* Every operation keeps the cap.
LEMMA CapNext == TypeOK /\ ClientCap /\ [Next]_vars => ClientCap'
<1> SUFFICES ASSUME TypeOK, ClientCap, [Next]_vars PROVE ClientCap'
  OBVIOUS
<1>0. /\ TypeOK' /\ now \in Nat
      /\ IsFiniteSet(Rows(client)) /\ Cardinality(Rows(client)) \in Nat
  BY TypeNext, RowsOfClient DEF TypeOK
<1>1. ASSUME Rows(client)' \subseteq Rows(client) PROVE ClientCap'
  <2>1. IsFiniteSet(Rows(client)') /\ Cardinality(Rows(client)') <= Cardinality(Rows(client))
    BY <1>0, <1>1, FS_Subset
  <2>2. Cardinality(Rows(client)') \in Nat
    BY <2>1, FS_CardinalityType
  <2> QED
    BY <1>0, <2>1, <2>2 DEF ClientCap
<1>2. ASSUME NEW T, T \subseteq Rows(client), NEW c, Rows(client)' \subseteq T \cup {c},
             c \in T \/ Cardinality(T) < MaxClients
      PROVE ClientCap'
  <2>1. Cardinality(T \cup {c}) <= MaxClients
    BY <1>0, <1>2, CapAdd DEF ClientCap
  <2>2. IsFiniteSet(T \cup {c})
    BY <1>0, <1>2, FS_Subset, FS_AddElement
  <2>3. /\ IsFiniteSet(Rows(client)')
        /\ Cardinality(Rows(client)') <= Cardinality(T \cup {c})
    BY <1>2, <2>2, FS_Subset
  <2>4. Cardinality(Rows(client)') \in Nat /\ Cardinality(T \cup {c}) \in Nat
    BY <2>2, <2>3, FS_CardinalityType
  <2> QED
    BY <2>1, <2>3, <2>4 DEF ClientCap
<1>3. CASE Tick \/ UNCHANGED vars
  <2>1. client' = client
    BY <1>3 DEF Tick, tables, vars
  <2> QED
    BY <1>1, <2>1 DEF Rows
<1>4. CASE Evict
  <2>1. Rows(client)' \subseteq Rows(client)
    BY <1>4 DEF Evict, Without, Rows, TypeOK
  <2> QED
    BY <1>1, <2>1
<1>5. ASSUME NEW c \in Client, RegisterClient(c) PROVE ClientCap'
  <2> DEFINE T == Rows(client) \ EvictedClients(now)
  <2>1. Rows(client)' \subseteq T \cup {c}
    BY <1>5 DEF RegisterClient, Without, Rows, TypeOK
  <2>2. Cardinality(T) < MaxClients
    BY <1>5 DEF RegisterClient
  <2>3. T \subseteq Rows(client)
    OBVIOUS
  <2> QED
    BY <1>2, <2>1, <2>2, <2>3
<1>6. ASSUME NEW c \in Client, RegisterCIMDClient(c) PROVE ClientCap'
  <2> DEFINE kept == Without(client, EvictedClients(now))
             T == Rows(kept)
  <2>1. Rows(client)' \subseteq T \cup {c}
    BY <1>6 DEF RegisterCIMDClient, Without, Rows, TypeOK
  <2>2. c \in T \/ Cardinality(T) < MaxClients
    BY <1>6 DEF RegisterCIMDClient, Rows, Without, TypeOK
  <2>3. T \subseteq Rows(client)
    BY DEF Rows, Without
  <2> QED
    BY <1>2, <2>1, <2>2, <2>3
<1>7. ASSUME NEW c \in Client, NEW t \in Nat, client' = Touch(c, t) PROVE ClientCap'
  <2>1. Rows(client)' \subseteq Rows(client)
    BY <1>7, TouchKeepsRows DEF Rows, Touch, TypeOK
  <2> QED
    BY <1>1, <2>1
<1>8. ASSUME client' = client PROVE ClientCap'
  BY <1>1, <1>8 DEF Rows
<1>9. ASSUME NEW k \in Code, NEW c \in Client, NEW b \in Binding,
             \/ CreateCode(k, c, b) \/ ExchangeRejected(k, c, b)
             \/ \E f \in Family, a \in Access, r \in Refresh : ExchangeCode(k, c, b, f, a, r)
      PROVE ClientCap'
  BY <1>0, <1>7, <1>8, <1>9 DEF CreateCode, InsertCode, ExchangeRejected, ConsumeCode,
     ExchangeCode, InsertTokenPair
<1>10. ASSUME NEW a \in Access, RenewToken(a) PROVE ClientCap'
  <2>1. family[access[a].family].client \in Client
    BY <1>10 DEF RenewToken, Usable, TypeOK, AccessRow, FamilyRow
  <2> QED
    BY <1>0, <1>7, <1>10, <2>1 DEF RenewToken, RenewRows
<1>11. ASSUME NEW r \in Refresh, NEW c \in Client,
              \/ ReplayRefresh(r, c)
              \/ \E a2 \in Access, r2 \in Refresh : RotateRefresh(r, c, a2, r2)
       PROVE ClientCap'
  BY <1>0, <1>7, <1>8, <1>11 DEF ReplayRefresh, RevokeFamily, RotateRefresh, RotateRows
<1> QED
  BY <1>3, <1>4, <1>5, <1>6, <1>9, <1>10, <1>11 DEF Next

\* However registrations, CIMD refreshes and evictions follow one another, the
\* table never holds more than maxClients clients.
THEOREM CapHolds == Spec => []ClientCap
<1>1. Init => TypeOK /\ ClientCap
  BY TypeInit, CapInit
<1>2. TypeOK /\ ClientCap /\ [Next]_vars => (TypeOK /\ ClientCap)'
  BY TypeNext, CapNext
<1> QED
  BY <1>1, <1>2, PTL DEF Spec

-----------------------------------------------------------------------------
(* Clients with a grant. *)

\* What the last DELETE of evictExpired selects has no code and no session that
\* is still good.
LEMMA EvictedHaveNoGrant ==
    ASSUME TypeOK, NEW c \in EvictedClients(now)
    PROVE  /\ \A k \in CodesOf({c}) : code[k].expires <= now
           /\ \A f \in FamiliesOf({c}) : family[f].state = "revoked" \/ family[f].expires <= now
<1>1. \A k \in CodesOf({c}) : k \in ExpiredCodes(now)
  BY DEF EvictedClients, IdleClients, CodesOf
<1>2. \A f \in FamiliesOf({c}) : family[f].state = "revoked" \/ family[f].expires <= now
  <2> SUFFICES ASSUME NEW f \in FamiliesOf({c}), ~(family[f].expires <= now)
               PROVE  family[f].state = "revoked"
    OBVIOUS
  <2>1. family[f] \in FamilyRow /\ f \in Rows(family) /\ family[f].client = c
    BY DEF FamiliesOf, Rows, TypeOK
  <2>2. f \notin ExpiredFamilies(now) /\ family[f].expires > now
    BY <2>1 DEF ExpiredFamilies, TypeOK, FamilyRow
  <2> QED
    BY <2>1, <2>2 DEF EvictedClients, IdleClients, FamilyRow
<1> QED
  BY <1>1, <1>2 DEF ExpiredCodes

\* No operation deletes a client with a good code or session.
LEMMA GrantStep == TypeOK /\ [Next]_vars => KeepsGrantedClients
<1> SUFFICES ASSUME TypeOK, [Next]_vars, NEW c \in Rows(client),
                    \/ \E k \in CodesOf({c}) : code[k].expires > now
                    \/ \E f \in FamiliesOf({c}) : /\ family[f].state = "live"
                                                 /\ family[f].expires > now
             PROVE  client'[c] # NULL
  BY DEF KeepsGrantedClients
<1>0. c \in Client /\ client[c] # NULL /\ now \in Nat
  BY DEF Rows, TypeOK
<1>1. c \notin EvictedClients(now)
  <2> SUFFICES ASSUME c \in EvictedClients(now) PROVE FALSE
    OBVIOUS
  <2>1. \A k \in CodesOf({c}) : code[k].expires \in Nat
    BY DEF CodesOf, Rows, TypeOK, CodeRow
  <2>2. \A f \in FamiliesOf({c}) : family[f].expires \in Nat
    BY DEF FamiliesOf, Rows, TypeOK, FamilyRow
  <2>3. /\ \A k \in CodesOf({c}) : code[k].expires <= now
        /\ \A f \in FamiliesOf({c}) : family[f].state = "revoked" \/ family[f].expires <= now
    BY EvictedHaveNoGrant
  <2>4. CASE \E k \in CodesOf({c}) : code[k].expires > now
    BY <1>0, <2>1, <2>3, <2>4 DEF CodesOf
  <2>5. CASE \E f \in FamiliesOf({c}) : family[f].state = "live" /\ family[f].expires > now
    <3>1. PICK f \in FamiliesOf({c}) : family[f].state = "live" /\ family[f].expires > now
      BY <2>5
    <3>2. family[f].expires <= now
      BY <2>3, <3>1
    <3> QED
      BY <1>0, <2>2, <3>1, <3>2 DEF FamiliesOf
  <2> QED
    BY <2>4, <2>5
<1>2. ASSUME client' = client PROVE client'[c] # NULL
  BY <1>0, <1>2
<1>3. ASSUME NEW d \in Client, NEW t \in Nat, client' = Touch(d, t) PROVE client'[c] # NULL
  BY <1>0, <1>3, TouchKeepsRows
<1>4. CASE Evict
  BY <1>0, <1>1, <1>4 DEF Evict, Without, TypeOK
<1>5. ASSUME NEW d \in Client, RegisterClient(d) PROVE client'[c] # NULL
  <2>1. NewClientRow(d, now) \in ClientRow
    BY <1>0 DEF NewClientRow, ClientRow
  <2> QED
    BY <1>0, <1>1, <1>5, <2>1 DEF RegisterClient, Without, TypeOK
<1>6. ASSUME NEW d \in Client, RegisterCIMDClient(d) PROVE client'[c] # NULL
  <2> DEFINE kept == Without(client, EvictedClients(now))
  <2>1. kept \in [Client -> ClientRow \cup {NULL}]
    BY WithoutType DEF TypeOK
  <2>2. UpsertClientRow(kept[d], d, now) # NULL
    BY <1>0, <2>1, UpsertType
  <2>3. client' = [kept EXCEPT ![d] = UpsertClientRow(kept[d], d, now)]
    BY <1>6 DEF RegisterCIMDClient
  <2>4. kept[c] = client[c]
    BY <1>0, <1>1 DEF Without, TypeOK
  <2> QED
    BY <1>0, <2>1, <2>2, <2>3, <2>4
<1>7. ASSUME NEW k \in Code, NEW d \in Client, NEW b \in Binding,
             \/ CreateCode(k, d, b) \/ ExchangeRejected(k, d, b)
             \/ \E f \in Family, a \in Access, r \in Refresh : ExchangeCode(k, d, b, f, a, r)
      PROVE client'[c] # NULL
  BY <1>0, <1>2, <1>3, <1>7 DEF CreateCode, InsertCode, ExchangeRejected, ConsumeCode,
     ExchangeCode, InsertTokenPair
<1>8. ASSUME NEW a \in Access, RenewToken(a) PROVE client'[c] # NULL
  <2>1. family[access[a].family].client \in Client
    BY <1>8 DEF RenewToken, Usable, TypeOK, AccessRow, FamilyRow
  <2> QED
    BY <1>0, <1>3, <1>8, <2>1 DEF RenewToken, RenewRows
<1>9. ASSUME NEW r \in Refresh, NEW d \in Client,
             \/ ReplayRefresh(r, d)
             \/ \E a2 \in Access, r2 \in Refresh : RotateRefresh(r, d, a2, r2)
      PROVE client'[c] # NULL
  BY <1>0, <1>2, <1>3, <1>9 DEF ReplayRefresh, RevokeFamily, RotateRefresh, RotateRows
<1>10. CASE Tick \/ UNCHANGED vars
  BY <1>2, <1>10 DEF Tick, tables, vars
<1> QED
  BY <1>4, <1>5, <1>6, <1>7, <1>8, <1>9, <1>10 DEF Next

\* No operation deletes a client that still has a good code or session.
THEOREM GrantsKeepClients == Spec => GrantKeepsClient
BY TypeCorrect, GrantStep, PTL DEF Spec, GrantKeepsClient
=============================================================================
