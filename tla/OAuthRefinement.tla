--------------------------- MODULE OAuthRefinement ---------------------------
(* OAuthStore and OAuthTx implement Sessions, for every value of their constants. *)
EXTENDS OAuthTxProofs

USE KeyAssumption, TTLAssumption, NullAssumption

absVars == <<now, absCode, absCodeDeadline, absSession, absDeadline, absToken, absHolder>>

\* A key of one table is no key of another.
LEMMA KeysApart ==
    /\ \A k \in Code : k \notin Client /\ k \notin Family /\ k \notin Access /\ k \notin Refresh
    /\ \A f \in Family : f \notin Client /\ f \notin Access /\ f \notin Refresh /\ f # NULL
    /\ \A r \in Refresh : r \notin Client /\ r \notin Access /\ r \notin Family
OBVIOUS

\* Empty tables map to the initial state of Sessions.
LEMMA PromiseInit == Init => Promise!Init
<1> SUFFICES ASSUME Init PROVE Promise!Init
  OBVIOUS
<1>1. \A x \in Code \cup Family \cup Refresh : x \notin used
  BY KeysApart DEF Init
<1>2. /\ absCode = [k \in Code |-> "unborn"]
      /\ absCodeDeadline = [k \in Code |-> 0]
  BY <1>1 DEF Init, absCode, absCodeDeadline
<1>3. /\ absSession = [f \in Family |-> "unborn"]
      /\ absDeadline = [f \in Family |-> 0]
  BY <1>1 DEF Init, absSession, absDeadline
<1>4. /\ absToken = [r \in Refresh |-> "unborn"]
      /\ absHolder = [r \in Refresh |-> NULL]
  BY <1>1 DEF Init, absToken, absHolder
<1> QED
  BY <1>2, <1>3, <1>4 DEF Init, Promise!Init

\* The mapping reads only the clock, the tables of codes, families and refresh
\* tokens, and which of their keys are used.
LEMMA SameRows ==
    ASSUME UNCHANGED <<now, code, family, refresh>>,
           \A x \in Code \cup Family \cup Refresh : x \in used' <=> x \in used
    PROVE  UNCHANGED absVars
<1>1. absCode' = absCode /\ absCodeDeadline' = absCodeDeadline
  BY DEF absCode, absCodeDeadline
<1>2. absSession' = absSession /\ absDeadline' = absDeadline
  BY DEF absSession, absDeadline
<1>3. absToken' = absToken /\ absHolder' = absHolder
  BY DEF absToken, absHolder
<1> QED
  BY <1>1, <1>2, <1>3 DEF absVars

\* How a refinement step is shown to update one entry of a mapped function.
LEMMA PointUpdate ==
    ASSUME NEW S, NEW g, NEW h, NEW k \in S, NEW v,
           g = [x \in S |-> g[x]], h = [x \in S |-> h[x]],
           h[k] = v, \A x \in S \ {k} : h[x] = g[x]
    PROVE  h = [g EXCEPT ![k] = v]
  OBVIOUS

-----------------------------------------------------------------------------
(* The effects of the operations, as the mapping sees them.  They take the *)
(* clock reading of their transaction.                                     *)

\* A code is inserted.
LEMMA IssueMap ==
    ASSUME IndInv, NEW k \in Code, NEW c \in Client, NEW b \in Binding, NEW t \in Nat,
           k \notin used, InsertCode(k, c, b, t)
    PROVE  /\ absCode[k] = "unborn" /\ absCode' = [absCode EXCEPT ![k] = "open"]
           /\ absCodeDeadline' = [absCodeDeadline EXCEPT ![k] = t + CodeTTL]
           /\ UNCHANGED <<absSession, absDeadline, absToken, absHolder>>
<1>0. TypeOK
  BY DEF IndInv
<1>1. /\ code[k] = NULL /\ used' = used \cup {k}
      /\ code' = [code EXCEPT ![k] = [client |-> c, bind |-> b, expires |-> t + CodeTTL]]
      /\ code'[k] # NULL
      /\ UNCHANGED <<family, refresh>>
  BY <1>0 DEF InsertCode, IndInv, FreshKeys, Rows, TypeOK, CodeRow
<1>2. absCode[k] = "unborn" /\ absCode' = [absCode EXCEPT ![k] = "open"]
  BY <1>0, <1>1 DEF absCode, TypeOK
<1>3. absCodeDeadline' = [absCodeDeadline EXCEPT ![k] = t + CodeTTL]
  BY <1>0, <1>1 DEF absCodeDeadline, TypeOK
<1>4. UNCHANGED <<absSession, absDeadline, absToken, absHolder>>
  BY <1>1, KeysApart DEF absSession, absDeadline, absToken, absHolder
<1> QED
  BY <1>2, <1>3, <1>4

\* A code is consumed.
LEMMA WasteMap ==
    ASSUME IndInv, NEW k \in Code, code[k] # NULL, ConsumeCode(k)
    PROVE  /\ absCode[k] = "open" /\ absCode' = [absCode EXCEPT ![k] = "spent"]
           /\ absCodeDeadline' = [absCodeDeadline EXCEPT ![k] = 0]
           /\ UNCHANGED <<absSession, absDeadline, absToken, absHolder>>
<1>0. TypeOK
  BY DEF IndInv
<1>1. /\ k \in used /\ code' = [code EXCEPT ![k] = NULL]
      /\ UNCHANGED <<family, refresh, used>>
  BY <1>0 DEF ConsumeCode, IndInv, FreshKeys, Rows, TypeOK
<1>2. code'[k] = NULL /\ \A x \in Code \ {k} : code'[x] = code[x]
  BY <1>0, <1>1 DEF TypeOK
<1>3. absCode[k] = "open" /\ absCode' = [absCode EXCEPT ![k] = "spent"]
  BY <1>1, <1>2 DEF absCode
<1>4. absCodeDeadline' = [absCodeDeadline EXCEPT ![k] = 0]
  BY <1>0, <1>1 DEF absCodeDeadline, TypeOK
<1>5. UNCHANGED <<absSession, absDeadline, absToken, absHolder>>
  BY <1>1 DEF absSession, absDeadline, absToken, absHolder
<1> QED
  BY <1>3, <1>4, <1>5

\* A code is exchanged for the first tokens of a session.
LEMMA GrantMap ==
    ASSUME IndInv, NEW k \in Code, NEW c \in Client, NEW f \in Family, NEW a \in Access,
           NEW r \in Refresh, NEW t \in Nat, code[k] # NULL, {f, a, r} \cap used = {},
           InsertTokenPair(k, c, f, a, r, t)
    PROVE  /\ absCode[k] = "open" /\ absCode' = [absCode EXCEPT ![k] = "spent"]
           /\ absCodeDeadline[k] = code[k].expires
           /\ absCodeDeadline' = [absCodeDeadline EXCEPT ![k] = 0]
           /\ absSession[f] = "unborn" /\ absSession' = [absSession EXCEPT ![f] = "live"]
           /\ absDeadline' = [absDeadline EXCEPT ![f] = t + TokenIdleTTL]
           /\ absToken[r] = "unborn" /\ absToken' = [absToken EXCEPT ![r] = "current"]
           /\ absHolder' = [absHolder EXCEPT ![r] = f]
<1>0. TypeOK
  BY DEF IndInv
<1> DEFINE exp == t + TokenIdleTTL
<1>1. /\ k \in used
      /\ code' = [code EXCEPT ![k] = NULL]
      /\ used' = used \cup {f, a, r}
  BY <1>0 DEF InsertTokenPair, IndInv, FreshKeys, Rows, TypeOK
<1>2. /\ family[f] = NULL /\ f \notin used
      /\ family' = [family EXCEPT ![f] = [client |-> c, expires |-> exp, state |-> "live"]]
      /\ family'[f] # NULL
  BY <1>0 DEF InsertTokenPair, IndInv, FreshKeys, Rows, TypeOK, FamilyRow
<1>3. /\ refresh[r] = NULL /\ r \notin used
      /\ refresh' = [refresh EXCEPT ![r] = [family |-> f, expires |-> exp, state |-> "live"]]
      /\ refresh'[r] # NULL
  BY <1>0 DEF InsertTokenPair, IndInv, FreshKeys, Rows, TypeOK, RefreshRow
<1>8. /\ code'[k] = NULL /\ \A x \in Code \ {k} : code'[x] = code[x]
      /\ \A x \in Code : x \in used' <=> x \in used
  BY <1>0, <1>1, KeysApart DEF TypeOK
<1>9. /\ \A x \in Family \ {f} : family'[x] = family[x]
      /\ family'[f].state = "live" /\ family'[f].expires = exp
      /\ \A x \in Family \ {f} : x \in used' <=> x \in used
  BY <1>0, <1>1, <1>2, KeysApart DEF TypeOK
<1>10. /\ \A x \in Refresh \ {r} : refresh'[x] = refresh[x]
      /\ refresh'[r].state = "live" /\ refresh'[r].family = f
      /\ \A x \in Refresh \ {r} : x \in used' <=> x \in used
  BY <1>0, <1>1, <1>3, KeysApart DEF TypeOK
<1>4. /\ absCode[k] = "open" /\ absCode' = [absCode EXCEPT ![k] = "spent"]
      /\ absCodeDeadline[k] = code[k].expires
      /\ absCodeDeadline' = [absCodeDeadline EXCEPT ![k] = 0]
  <2>1. /\ absCode[k] = "open" /\ absCode'[k] = "spent"
        /\ \A x \in Code \ {k} : absCode'[x] = absCode[x]
    BY <1>1, <1>8 DEF absCode
  <2>2. /\ absCodeDeadline[k] = code[k].expires /\ absCodeDeadline'[k] = 0
        /\ \A x \in Code \ {k} : absCodeDeadline'[x] = absCodeDeadline[x]
    BY <1>1, <1>8 DEF absCodeDeadline
  <2>3. /\ absCode = [x \in Code |-> absCode[x]]
        /\ absCode' = [x \in Code |-> absCode'[x]]
    BY DEF absCode
  <2>4. /\ absCodeDeadline = [x \in Code |-> absCodeDeadline[x]]
        /\ absCodeDeadline' = [x \in Code |-> absCodeDeadline'[x]]
    BY DEF absCodeDeadline
  <2>5. absCode' = [absCode EXCEPT ![k] = "spent"]
    BY <2>1, <2>3, PointUpdate
  <2>6. absCodeDeadline' = [absCodeDeadline EXCEPT ![k] = 0]
    BY <2>2, <2>4, PointUpdate
  <2> QED
    BY <2>1, <2>2, <2>5, <2>6
<1>5. /\ absSession[f] = "unborn" /\ absSession' = [absSession EXCEPT ![f] = "live"]
      /\ absDeadline' = [absDeadline EXCEPT ![f] = exp]
  <2>1. /\ absSession[f] = "unborn" /\ absSession'[f] = "live"
        /\ \A x \in Family \ {f} : absSession'[x] = absSession[x]
    BY <1>2, <1>9 DEF absSession
  <2>2. /\ absDeadline'[f] = exp
        /\ \A x \in Family \ {f} : absDeadline'[x] = absDeadline[x]
    BY <1>2, <1>9 DEF absDeadline
  <2>3. /\ absSession = [x \in Family |-> absSession[x]]
        /\ absSession' = [x \in Family |-> absSession'[x]]
    BY DEF absSession
  <2>4. /\ absDeadline = [x \in Family |-> absDeadline[x]]
        /\ absDeadline' = [x \in Family |-> absDeadline'[x]]
    BY DEF absDeadline
  <2>5. absSession' = [absSession EXCEPT ![f] = "live"]
    BY <2>1, <2>3, PointUpdate
  <2>6. absDeadline' = [absDeadline EXCEPT ![f] = exp]
    BY <2>2, <2>4, PointUpdate
  <2> QED
    BY <2>1, <2>5, <2>6
<1>6. /\ absToken[r] = "unborn" /\ absToken' = [absToken EXCEPT ![r] = "current"]
      /\ absHolder' = [absHolder EXCEPT ![r] = f]
  <2>1. /\ absToken[r] = "unborn" /\ absToken'[r] = "current"
        /\ \A x \in Refresh \ {r} : absToken'[x] = absToken[x]
    BY <1>3, <1>10 DEF absToken
  <2>2. /\ absHolder'[r] = f
        /\ \A x \in Refresh \ {r} : absHolder'[x] = absHolder[x]
    BY <1>3, <1>10 DEF absHolder
  <2>3. /\ absToken = [x \in Refresh |-> absToken[x]]
        /\ absToken' = [x \in Refresh |-> absToken'[x]]
    BY DEF absToken
  <2>4. /\ absHolder = [x \in Refresh |-> absHolder[x]]
        /\ absHolder' = [x \in Refresh |-> absHolder'[x]]
    BY DEF absHolder
  <2>5. absToken' = [absToken EXCEPT ![r] = "current"]
    BY <2>1, <2>3, PointUpdate
  <2>6. absHolder' = [absHolder EXCEPT ![r] = f]
    BY <2>2, <2>4, PointUpdate
  <2> QED
    BY <2>1, <2>5, <2>6
<1> QED
  BY <1>4, <1>5, <1>6

\* A session is extended, and one of its access tokens with it.
LEMMA ExtendMap ==
    ASSUME IndInv, NEW a \in Access, NEW f \in Family, NEW t \in Nat, family[f] # NULL,
           family[f].state = "live", RenewRows(a, f, t)
    PROVE  /\ absSession[f] = "live" /\ absDeadline[f] = family[f].expires
           /\ absDeadline' = [absDeadline EXCEPT ![f] = t + TokenIdleTTL]
           /\ UNCHANGED <<absCode, absCodeDeadline, absSession, absToken, absHolder>>
<1> DEFINE exp == t + TokenIdleTTL
<1>0. TypeOK
  BY DEF IndInv
<1>1. /\ family[f] \in FamilyRow /\ family' = [family EXCEPT ![f].expires = exp]
      /\ UNCHANGED <<code, used>>
  BY <1>0 DEF TypeOK, RenewRows
<1>2. family'[f] # NULL /\ family'[f].state = "live" /\ family'[f].expires = exp
  BY <1>0, <1>1 DEF TypeOK, FamilyRow
<1>3. /\ absSession[f] = "live" /\ absSession' = absSession
      /\ absDeadline[f] = family[f].expires
      /\ absDeadline' = [absDeadline EXCEPT ![f] = exp]
  <2>1. \A g \in Family : g # f => family'[g] = family[g]
    BY <1>0, <1>1 DEF TypeOK
  <2>2. family'[f].state = family[f].state
    BY <1>0, <1>1 DEF TypeOK, FamilyRow
  <2>3. \A g \in Family : /\ family'[g] = NULL <=> family[g] = NULL
                          /\ family[g] # NULL => family'[g].state = family[g].state
    BY <1>2, <2>1, <2>2
  <2>4. absSession' = absSession
    BY <1>1, <2>3 DEF absSession
  <2> HIDE DEF exp
  <2>5. absDeadline' = [absDeadline EXCEPT ![f] = exp]
    BY <1>2, <2>1 DEF absDeadline
  <2> QED
    BY <2>4, <2>5 DEF absSession, absDeadline
<1>4. absToken' = absToken /\ absHolder' = absHolder
  <2>1. \A r \in Refresh :
           /\ refresh'[r] # NULL <=> refresh[r] # NULL
           /\ refresh[r] # NULL => /\ refresh'[r].family = refresh[r].family
                                  /\ refresh'[r].state = refresh[r].state
    BY <1>0 DEF RenewRows, TypeOK, RefreshRow
  <2> QED
    BY <1>1, <2>1 DEF absToken, absHolder
<1>5. absCode' = absCode /\ absCodeDeadline' = absCodeDeadline
  BY <1>1 DEF absCode, absCodeDeadline
<1> QED
  BY <1>3, <1>4, <1>5

\* A session is revoked.
LEMMA RevokeMap ==
    ASSUME IndInv, NEW r \in Refresh, NEW f \in Family, refresh[r] # NULL,
           refresh[r].family = f, refresh[r].state = "consumed", family[f] # NULL, RevokeFamily(f)
    PROVE  /\ absToken[r] = "spent" /\ absHolder[r] = f
           /\ absSession' = [absSession EXCEPT ![f] = "revoked"]
           /\ UNCHANGED <<absCode, absCodeDeadline, absDeadline, absToken, absHolder>>
<1>0. TypeOK
  BY DEF IndInv
<1>1. /\ family[f] \in FamilyRow /\ family' = [family EXCEPT ![f].state = "revoked"]
      /\ UNCHANGED <<code, refresh, used>>
  BY <1>0 DEF TypeOK, RevokeFamily
<1>2. /\ family'[f] # NULL /\ family'[f].state = "revoked"
      /\ family'[f].expires = family[f].expires
  BY <1>0, <1>1 DEF TypeOK, FamilyRow
<1>3. \A x \in Family \ {f} : family'[x] = family[x]
  BY <1>0, <1>1 DEF TypeOK
<1>4. absDeadline' = absDeadline
  BY <1>1, <1>2, <1>3 DEF absDeadline
<1>5. absSession' = [absSession EXCEPT ![f] = "revoked"]
  <2>1. /\ absSession'[f] = "revoked"
        /\ \A x \in Family \ {f} : absSession'[x] = absSession[x]
    BY <1>1, <1>2, <1>3 DEF absSession
  <2>2. /\ absSession = [x \in Family |-> absSession[x]]
        /\ absSession' = [x \in Family |-> absSession'[x]]
    BY DEF absSession
  <2> QED
    BY <2>1, <2>2, PointUpdate
<1>6. /\ absToken[r] = "spent" /\ absHolder[r] = f
      /\ UNCHANGED <<absCode, absCodeDeadline, absToken, absHolder>>
  BY <1>1 DEF absCode, absCodeDeadline, absToken, absHolder
<1> QED
  BY <1>4, <1>5, <1>6

\* The refresh token of a session is replaced.
LEMMA RotateMap ==
    ASSUME IndInv, NEW r \in Refresh, NEW f \in Family, NEW a2 \in Access, NEW r2 \in Refresh,
           NEW t \in Nat, refresh[r] # NULL, refresh[r].family = f, refresh[r].state = "live",
           family[f] # NULL, family[f].state = "live", {a2, r2} \cap used = {},
           RotateRows(r, f, a2, r2, t)
    PROVE  /\ absSession[f] = "live" /\ absDeadline[f] = family[f].expires
           /\ absDeadline' = [absDeadline EXCEPT ![f] = t + TokenIdleTTL]
           /\ absToken[r] = "current" /\ absHolder[r] = f /\ absToken[r2] = "unborn"
           /\ absToken' = [absToken EXCEPT ![r] = "spent", ![r2] = "current"]
           /\ absHolder' = [absHolder EXCEPT ![r2] = f]
           /\ UNCHANGED <<absCode, absCodeDeadline, absSession>>
<1> DEFINE exp == t + TokenIdleTTL
<1>0. TypeOK
  BY DEF IndInv
<1>1. /\ refresh[r] \in RefreshRow /\ family[f] \in FamilyRow
      /\ family' = [family EXCEPT ![f].expires = exp]
      /\ code' = code /\ used' = used \cup {a2, r2}
  BY <1>0 DEF TypeOK, RotateRows
<1>2. family'[f] # NULL /\ family'[f].state = "live" /\ family'[f].expires = exp
  BY <1>0, <1>1 DEF TypeOK, FamilyRow
<1>3. refresh[r2] = NULL /\ r2 \notin used /\ r # r2
  BY <1>0, <1>1 DEF IndInv, FreshKeys, Rows, TypeOK
<1>4. /\ \A x \in Refresh \ {r, r2} : refresh'[x] = refresh[x]
      /\ refresh'[r] # NULL /\ refresh'[r].family = f /\ refresh'[r].state = "consumed"
      /\ refresh'[r2] # NULL /\ refresh'[r2].family = f /\ refresh'[r2].state = "live"
  BY <1>0, <1>1, <1>3 DEF TypeOK, RotateRows, RefreshRow
<1>5. /\ absSession[f] = "live" /\ absSession' = absSession
      /\ absDeadline[f] = family[f].expires
      /\ absDeadline' = [absDeadline EXCEPT ![f] = exp]
  <2>1. /\ \A x \in Family \ {f} : family'[x] = family[x]
        /\ \A x \in Family : x \in used' <=> x \in used
    BY <1>0, <1>1, KeysApart DEF TypeOK
  <2>2. /\ absSession[f] = "live"
        /\ \A x \in Family : absSession'[x] = absSession[x]
    BY <1>1, <1>2, <2>1 DEF absSession
  <2>3. absSession' = absSession
    BY <2>2 DEF absSession
  <2>4. /\ absDeadline[f] = family[f].expires /\ absDeadline'[f] = exp
        /\ \A x \in Family \ {f} : absDeadline'[x] = absDeadline[x]
    BY <1>1, <1>2, <2>1 DEF absDeadline
  <2>5. /\ absDeadline = [x \in Family |-> absDeadline[x]]
        /\ absDeadline' = [x \in Family |-> absDeadline'[x]]
    BY DEF absDeadline
  <2>6. absDeadline' = [absDeadline EXCEPT ![f] = exp]
    BY <2>4, <2>5, PointUpdate
  <2> QED
    BY <2>2, <2>3, <2>4, <2>6
<1>6. absToken[r] = "current" /\ absHolder[r] = f /\ absToken[r2] = "unborn"
  BY <1>1, <1>3 DEF absToken, absHolder
<1>7. absToken' = [absToken EXCEPT ![r] = "spent", ![r2] = "current"]
  BY <1>1, <1>3, <1>4, KeysApart DEF absToken
<1>8. absHolder' = [absHolder EXCEPT ![r2] = f]
  BY <1>1, <1>3, <1>4 DEF absHolder
<1>9. absCode' = absCode /\ absCodeDeadline' = absCodeDeadline
  BY <1>1, KeysApart DEF absCode, absCodeDeadline
<1> QED
  BY <1>5, <1>6, <1>7, <1>8, <1>9

\* Rows are deleted with their cascades.
LEMMA ReapMap ==
    ASSUME IndInv, NEW K, NEW S, K \subseteq Rows(code), S \subseteq Rows(family),
           code' = Without(code, K), family' = Without(family, S),
           refresh' = Without(refresh, RefreshOf(S)),
           \A x \in Code \cup Family \cup Refresh : x \in used' <=> x \in used
    PROVE  /\ \A k \in K : absCode[k] = "open" /\ absCodeDeadline[k] = code[k].expires
           /\ \A f \in S : absSession[f] = family[f].state /\ absDeadline[f] = family[f].expires
           /\ absCode' = [k \in Code |-> IF k \in K THEN "spent" ELSE absCode[k]]
           /\ absCodeDeadline' = [k \in Code |-> IF k \in K THEN 0 ELSE absCodeDeadline[k]]
           /\ absSession' = [f \in Family |-> IF f \in S THEN "ended" ELSE absSession[f]]
           /\ absDeadline' = [f \in Family |-> IF f \in S THEN 0 ELSE absDeadline[f]]
           /\ absToken' = [r \in Refresh |-> IF absHolder[r] \in S THEN "void" ELSE absToken[r]]
           /\ absHolder' = [r \in Refresh |-> IF absHolder[r] \in S THEN NULL ELSE absHolder[r]]
<1>0. TypeOK
  BY DEF IndInv
<1>1. /\ K \subseteq Code /\ S \subseteq Family
      /\ \A k \in K : code[k] # NULL
      /\ \A f \in S : family[f] # NULL
  BY <1>0 DEF Rows, TypeOK
<1>2. /\ \A k \in K : absCode[k] = "open" /\ absCodeDeadline[k] = code[k].expires
      /\ \A f \in S : absSession[f] = family[f].state /\ absDeadline[f] = family[f].expires
  BY <1>1 DEF absCode, absCodeDeadline, absSession, absDeadline
<1>3. /\ absCode' = [k \in Code |-> IF k \in K THEN "spent" ELSE absCode[k]]
      /\ absCodeDeadline' = [k \in Code |-> IF k \in K THEN 0 ELSE absCodeDeadline[k]]
  <2>1. \A k \in Code : /\ code'[k] = IF k \in K THEN NULL ELSE code[k]
                        /\ k \in used' <=> k \in used
                        /\ k \in K => k \in used
    BY <1>0, <1>1 DEF Without, TypeOK, IndInv, FreshKeys, Rows
  <2> QED
    BY <2>1 DEF absCode, absCodeDeadline
<1>4. /\ absSession' = [f \in Family |-> IF f \in S THEN "ended" ELSE absSession[f]]
      /\ absDeadline' = [f \in Family |-> IF f \in S THEN 0 ELSE absDeadline[f]]
  <2>1. \A f \in Family : /\ family'[f] = IF f \in S THEN NULL ELSE family[f]
                          /\ f \in used' <=> f \in used
                          /\ f \in S => f \in used
    BY <1>0, <1>1 DEF Without, TypeOK, IndInv, FreshKeys, Rows
  <2> QED
    BY <2>1 DEF absSession, absDeadline
<1>5. /\ absToken' = [r \in Refresh |-> IF absHolder[r] \in S THEN "void" ELSE absToken[r]]
      /\ absHolder' = [r \in Refresh |-> IF absHolder[r] \in S THEN NULL ELSE absHolder[r]]
  <2>1. \A r \in Refresh :
           /\ refresh'[r] = IF refresh[r] # NULL /\ refresh[r].family \in S
                            THEN NULL ELSE refresh[r]
           /\ r \in used' <=> r \in used
           /\ refresh[r] # NULL => r \in used
    BY <1>0 DEF Without, RefreshOf, TypeOK, IndInv, FreshKeys, Rows
  <2>2. NULL \notin S
    BY <1>1, KeysApart
  <2>3. \A r \in Refresh : (absHolder[r] \in S) <=> (refresh[r] # NULL /\ refresh[r].family \in S)
    BY <2>2 DEF absHolder
  <2>4. absToken' = [r \in Refresh |-> IF absHolder[r] \in S THEN "void" ELSE absToken[r]]
    BY <2>1, <2>3 DEF absToken
  <2>5. absHolder' = [r \in Refresh |-> IF absHolder[r] \in S THEN NULL ELSE absHolder[r]]
    BY <2>1, <2>3 DEF absHolder
  <2> QED
    BY <2>4, <2>5
<1> QED
  BY <1>2, <1>3, <1>4, <1>5

\* The mapping does not see the clock.
LEMMA TickMap == Tick => UNCHANGED <<absCode, absCodeDeadline, absSession, absDeadline,
                                     absToken, absHolder>>
BY DEF Tick, tables, absCode, absCodeDeadline, absSession, absDeadline, absToken, absHolder

-----------------------------------------------------------------------------
(* OAuthStore.                                                             *)

\* What evictExpired deletes, inside evict and the registrations, is a Reap.
LEMMA ReapStep ==
    ASSUME IndInv, EvictRows(now), now' = now,
           \A x \in Code \cup Family \cup Refresh : x \in used' <=> x \in used
    PROVE  Promise!Next
<1> DEFINE K == ExpiredCodes(now) \cup CodesOf(EvictedClients(now))
           S == ExpiredFamilies(now) \cup FamiliesOf(EvictedClients(now))
<1>0. TypeOK
  BY DEF IndInv
<1>1. /\ K \in SUBSET Code /\ S \in SUBSET Family
      /\ K \subseteq Rows(code) /\ S \subseteq Rows(family)
  BY <1>0 DEF ExpiredCodes, CodesOf, ExpiredFamilies, FamiliesOf, Rows, TypeOK
<1>2. \A k \in K : code[k].expires <= now
  <2>1. \A k \in CodesOf(EvictedClients(now)) : code[k].expires <= now
    BY <1>0, EvictedHaveNoGrant DEF CodesOf, Rows
  <2> QED
    BY <2>1 DEF ExpiredCodes, Rows
<1>3. \A f \in S : family[f].state = "revoked" \/ family[f].expires <= now
  <2>1. \A f \in FamiliesOf(EvictedClients(now)) :
           family[f].state = "revoked" \/ family[f].expires <= now
    BY <1>0, EvictedHaveNoGrant DEF FamiliesOf, Rows
  <2> QED
    BY <2>1 DEF ExpiredFamilies, Rows
<1>4. \A f \in S : family[f].state \in {"live", "revoked"}
  BY <1>0, <1>1 DEF Rows, TypeOK, FamilyRow
<1>5. /\ code' = Without(code, K) /\ family' = Without(family, S)
      /\ refresh' = Without(refresh, RefreshOf(S))
  BY DEF EvictRows, DeleteCascade
<1> HIDE DEF K, S
<1>6. Promise!Reap(K, S)
  BY <1>1, <1>2, <1>3, <1>4, <1>5, ReapMap DEF Promise!Reap
<1> QED
  BY <1>1, <1>6 DEF Promise!Next

\* Every operation of the store maps to a step of Sessions or a stutter.
LEMMA PromiseNext == IndInv /\ [Next]_vars => [Promise!Next]_absVars
<1> SUFFICES ASSUME IndInv, [Next]_vars PROVE Promise!Next \/ UNCHANGED absVars
  OBVIOUS
<1>0. TypeOK /\ now \in 0..MaxNow /\ now \in Nat /\ Promise!Reading(now)
  BY CapAssumption DEF IndInv, TypeOK, Promise!Reading
<1>1. CASE Tick
  BY <1>1, TickMap DEF Tick, Promise!Tick, Promise!Next
<1>2. CASE Evict
  BY <1>2, ReapStep DEF Evict
<1>3. ASSUME NEW c \in Client, RegisterClient(c) PROVE Promise!Next
  BY <1>3, ReapStep, KeysApart DEF RegisterClient
<1>4. ASSUME NEW c \in Client, RegisterCIMDClient(c) PROVE Promise!Next
  BY <1>4, ReapStep DEF RegisterCIMDClient
<1>5. ASSUME NEW k \in Code, NEW c \in Client, NEW b \in Binding, CreateCode(k, c, b)
      PROVE Promise!Next
  <2>1. Promise!Issue(k, now)
    BY <1>0, <1>5, IssueMap DEF CreateCode, Promise!Issue
  <2> QED
    BY <1>0, <2>1 DEF Promise!Next
<1>6. ASSUME NEW k \in Code, NEW c \in Client, NEW b \in Binding, ExchangeRejected(k, c, b)
      PROVE Promise!Next
  <2>1. Promise!Waste(k)
    BY <1>6, WasteMap DEF ExchangeRejected, Promise!Waste
  <2> QED
    BY <2>1 DEF Promise!Next
<1>7. ASSUME NEW k \in Code, NEW c \in Client, NEW b \in Binding, NEW f \in Family,
             NEW a \in Access, NEW r \in Refresh, ExchangeCode(k, c, b, f, a, r)
      PROVE Promise!Next
  <2>1. /\ code[k] # NULL /\ code[k].expires > now /\ {f, a, r} \cap used = {}
        /\ InsertTokenPair(k, c, f, a, r, now) /\ now' = now
    BY <1>7 DEF ExchangeCode, CodeValid
  <2>2. Promise!Grant(k, f, r, now)
    BY <1>0, <2>1, GrantMap DEF Promise!Grant
  <2> QED
    BY <1>0, <2>2 DEF Promise!Next
<1>8. ASSUME NEW a \in Access, RenewToken(a) PROVE Promise!Next
  <2>0. PICK f \in Family : f = access[a].family
    BY <1>0, <1>8 DEF TypeOK, RenewToken, Usable, AccessRow
  <2>1. /\ family[f] # NULL /\ family[f].state = "live" /\ family[f].expires > now
        /\ RenewRows(a, f, now) /\ now' = now
    BY <1>8, <2>0 DEF RenewToken, Usable
  <2>2. now + TokenIdleTTL >= family[f].expires
    BY <1>0, <2>1 DEF IndInv, IdleWindow, Rows, TypeOK
  <2>3. Promise!Extend(f, now)
    BY <1>0, <2>1, <2>2, ExtendMap DEF Promise!Extend
  <2> QED
    BY <1>0, <2>3 DEF Promise!Next
<1>9. ASSUME NEW r \in Refresh, NEW c \in Client, ReplayRefresh(r, c) PROVE Promise!Next
  <2>0. PICK f \in Family : f = refresh[r].family
    BY <1>0, <1>9 DEF TypeOK, ReplayRefresh, RefreshRow
  <2>1. Promise!Revoke(f, r)
    BY <1>9, <2>0, RevokeMap DEF ReplayRefresh, Promise!Revoke
  <2> QED
    BY <2>1 DEF Promise!Next
<1>10. ASSUME NEW r \in Refresh, NEW c \in Client, NEW a2 \in Access, NEW r2 \in Refresh,
              RotateRefresh(r, c, a2, r2)
       PROVE Promise!Next
  <2>0. PICK f \in Family : f = refresh[r].family
    BY <1>0, <1>10 DEF TypeOK, RotateRefresh, RefreshRow
  <2>1. /\ refresh[r] # NULL /\ refresh[r].state = "live" /\ family[f] # NULL
        /\ family[f].state = "live" /\ family[f].expires > now /\ {a2, r2} \cap used = {}
        /\ RotateRows(r, f, a2, r2, now) /\ now' = now
    BY <1>10, <2>0 DEF RotateRefresh
  <2>2. now + TokenIdleTTL >= family[f].expires
    BY <1>0, <2>1 DEF IndInv, IdleWindow, Rows, TypeOK
  <2>3. Promise!Rotate(f, r, r2, now)
    BY <1>0, <2>0, <2>1, <2>2, RotateMap DEF Promise!Rotate
  <2> QED
    BY <1>0, <2>3 DEF Promise!Next
<1>11. CASE UNCHANGED vars
  BY <1>11, SameRows DEF vars
<1> QED
  BY <1>1, <1>2, <1>3, <1>4, <1>5, <1>6, <1>7, <1>8, <1>9, <1>10, <1>11 DEF Next

\* The store implements Sessions: codes are redeemed once, a spent refresh token
\* revokes its session, and revoked or ended sessions never come back.
THEOREM StoreKeepsPromise == Spec => KeepsPromise
<1>1. [Promise!Next]_absVars => [Promise!Next]_(Promise!absVars)
  BY DEF absVars, Promise!absVars
<1> QED
  BY <1>1, PromiseInit, PromiseNext, Inductive, PTL DEF Spec, KeepsPromise, Promise!Spec

-----------------------------------------------------------------------------
(* OAuthTx.                                                                *)

\* A reading of an open transaction is one Sessions allows.
LEMMA TxReading ==
    ASSUME TxInv, NEW t \in Nat, t <= now, now <= t + MaxTxAge
    PROVE  t \in 0..MaxNow /\ TxPromise!Reading(t)
<1>1. now \in 0..MaxNow
  BY DEF TxInv, IndInv, TypeOK
<1> QED
  BY <1>1, CapAssumption DEF TxPromise!Reading

\* Empty tables map to the initial state of Sessions.
LEMMA TxPromiseInit == TxInit => TxPromise!Init
<1>1. Init => now = 0
  BY DEF Init
<1> QED
  BY <1>1, PromiseInit DEF TxInit, Promise!Init, TxPromise!Init

\* The rows a DELETE took, statement by statement, are a Reap when they go.
LEMMA TxReapStep ==
    ASSUME TxInv, NEW w \in Proc, NEW x \in TxRow, txn[w] = x, x \in DeleteTx, x.todo = {},
           DeleteGone(x.gone), now' = now,
           \A y \in Code \cup Family \cup Refresh : y \in used' <=> y \in used
    PROVE  TxPromise!Next
<1> DEFINE K == (x.gone \cap Code) \cup CodesOf(x.gone \cap Client)
           S == (x.gone \cap Family) \cup FamiliesOf(x.gone \cap Client)
<1>0. /\ IndInv /\ TypeOK /\ Over(x) /\ x.start \in Nat /\ x.start <= now /\ now \in Nat
      /\ x # Idle
  BY Kinds DEF TxInv, IndInv, TxFacts, DeleteTx, Clocks, TypeOK
<1>1. /\ K \in SUBSET Code /\ S \in SUBSET Family
      /\ K \subseteq Rows(code) /\ S \subseteq Rows(family)
  BY <1>0 DEF Over, CodesOf, FamiliesOf, Rows, TypeOK
<1>1a. /\ \A k \in Rows(code) : code[k].expires \in Nat
      /\ \A f \in Rows(family) : family[f].expires \in Nat /\ family[f].state \in {"live", "revoked"}
  <2> HIDE DEF K, S
  <2> QED
    BY <1>0 DEF Rows, TypeOK, CodeRow, FamilyRow
<1>2. \A c \in x.gone \cap Client : NoGrant(c, x.start)
  BY <1>0 DEF Over
<1>3. ASSUME NEW k \in K PROVE code[k].expires <= now
  <2>1. code[k].expires <= x.start
    BY <1>0, <1>2 DEF Over, NoGrant, CodesOf
  <2>2. code[k].expires \in Nat
    <3> HIDE DEF K, S
    <3> QED
      BY <1>1, <1>3, <1>1a
  <2> QED
    BY <1>0, <2>1, <2>2
<1>4. ASSUME NEW f \in S PROVE family[f].state = "revoked" \/ family[f].expires <= now
  <2>1. family[f].state = "revoked" \/ family[f].expires <= x.start
    BY <1>0, <1>2 DEF Over, NoGrant, FamiliesOf
  <2>2. family[f].expires \in Nat
    <3> HIDE DEF K, S
    <3> QED
      BY <1>1, <1>4, <1>1a
  <2> QED
    BY <1>0, <2>1, <2>2
<1>5. \A f \in S : family[f].state \in {"live", "revoked"}
  <2> HIDE DEF K, S
  <2> QED
    BY <1>1, <1>1a
<1>6. /\ code' = Without(code, K) /\ family' = Without(family, S)
      /\ refresh' = Without(refresh, RefreshOf(S))
  BY DEF DeleteGone, DeleteCascade
<1> HIDE DEF K, S
<1>7. TxPromise!Reap(K, S)
  BY <1>0, <1>1, <1>3, <1>4, <1>5, <1>6, ReapMap DEF TxPromise!Reap
<1> QED
  BY <1>1, <1>7 DEF TxPromise!Next

\* Every commit maps to a step of Sessions or a stutter.
LEMMA CommitStep ==
    ASSUME TxInv, NEW w \in Proc, Commits(w) \/ EvictCommit(w)
    PROVE  TxPromise!Next \/ UNCHANGED absVars
<1>0. IndInv /\ TypeOK
  BY DEF TxInv, IndInv
<1>1. PICK x \in TxRow : txn[w] = x
  BY DEF TxInv
<1>2. ASSUME x \in RenewTx \cup RotateTx \cup ExchangeTx
      PROVE  x.t \in 0..MaxNow /\ x.t \in Nat /\ TxPromise!Reading(x.t)
  BY <1>1, <1>2, RecentReading, TxReading
<1>3. ASSUME x \in RenewTx \cup RotateTx, OnFamily(x)
      PROVE  /\ x.f \in Family /\ family[x.f] # NULL
             /\ x.t + TokenIdleTTL >= family[x.f].expires
             /\ (x \in RenewTx \/ x.alive)
                => family[x.f].state = "live" /\ family[x.f].expires > x.t
  <2>1. x.f \in Family /\ x.t \in Nat
    BY <1>3 DEF RenewTx, RotateTx
  <2>2. Judged(x) /\ (x \in RenewTx \/ x.alive => Alive(x))
    BY <1>1, <1>3, Kinds DEF TxInv, TxFacts, Renewing, Rotating
  <2>3. family[x.f].expires \in Nat
    BY <1>0, <2>1, <2>2 DEF Judged, TypeOK, FamilyRow
  <2> QED
    BY <2>1, <2>2, <2>3, TTLAssumption DEF Judged, Alive
<1>4. CASE RenewCommit(w)
  <2>1. /\ x \in RenewTx /\ OnFamily(x) /\ x.a \in Access
        /\ RenewRows(x.a, x.f, x.t) /\ now' = now
    BY <1>1, <1>4, Kinds DEF RenewCommit, OnFamily, RenewTx
  <2>2. TxPromise!Extend(x.f, x.t)
    BY <1>0, <1>2, <1>3, <2>1, ExtendMap DEF TxPromise!Extend
  <2> QED
    BY <1>2, <1>3, <2>1, <2>2 DEF TxPromise!Next
<1>5. ASSUME NEW a2 \in Access, NEW r2 \in Refresh, RotateCommit(w, a2, r2)
      PROVE  TxPromise!Next
  <2>1. /\ x \in RotateTx /\ OnFamily(x) /\ x.r \in Refresh /\ {a2, r2} \cap used = {}
        /\ RotateRows(x.r, x.f, a2, r2, x.t) /\ now' = now
    BY <1>1, <1>5, Kinds DEF RotateCommit, OnFamily, RotateTx
  <2>2. /\ x.alive /\ refresh[x.r] # NULL /\ refresh[x.r].family = x.f
        /\ refresh[x.r].state = "live"
    BY <1>1, <1>5, <2>1 DEF RotateCommit, TxInv, TxFacts, Rotating
  <2>3. TxPromise!Rotate(x.f, x.r, r2, x.t)
    BY <1>0, <1>2, <1>3, <2>1, <2>2, RotateMap DEF TxPromise!Rotate
  <2> QED
    BY <1>2, <1>3, <2>1, <2>3 DEF TxPromise!Next
<1>6. CASE ReplayCommit(w)
  <2>1. /\ x \in RotateTx /\ OnFamily(x) /\ x.r \in Refresh /\ RevokeFamily(x.f) /\ now' = now
    BY <1>1, <1>6, Kinds DEF ReplayCommit, OnFamily, RotateTx
  <2>2. refresh[x.r] # NULL /\ refresh[x.r].family = x.f /\ refresh[x.r].state = "consumed"
    BY <1>1, <1>6, <2>1 DEF ReplayCommit, TxInv, TxFacts, Rotating
  <2>3. TxPromise!Revoke(x.f, x.r)
    BY <1>0, <1>3, <2>1, <2>2, RevokeMap DEF TxPromise!Revoke
  <2> QED
    BY <1>3, <2>1, <2>3 DEF TxPromise!Next
<1>7. CASE RejectCommit(w)
  <2>1. /\ x \in ExchangeTx /\ x.k \in Code /\ ConsumeCode(x.k) /\ now' = now
    BY <1>1, <1>7, Kinds DEF RejectCommit, ExchangeTx
  <2>2. code[x.k] # NULL
    BY <1>1, <1>7, <2>1 DEF RejectCommit, TxInv, TxFacts, Exchanging
  <2>3. TxPromise!Waste(x.k)
    BY <1>0, <2>1, <2>2, WasteMap DEF TxPromise!Waste
  <2> QED
    BY <2>1, <2>3 DEF TxPromise!Next
<1>8. ASSUME NEW f \in Family, NEW a \in Access, NEW r \in Refresh, ExchangeCommit(w, f, a, r)
      PROVE  TxPromise!Next \/ UNCHANGED absVars
  <2>1. /\ x \in ExchangeTx /\ x.k \in Code /\ x.c \in Client /\ x.pc = "exchangeCommit"
        /\ {f, a, r} \cap used = {} /\ now' = now
    BY <1>1, <1>8, Kinds DEF ExchangeCommit, ExchangeTx
  <2>2. code[x.k] # NULL /\ code[x.k].expires > x.t
    BY <1>1, <2>1 DEF TxInv, TxFacts, Exchanging, CodeValid
  <2>3. CASE UNCHANGED <<tables, used>>
    BY <2>1, <2>3, SameRows DEF tables
  <2>4. CASE InsertTokenPair(x.k, x.c, f, a, r, x.t)
    <3>1. TxPromise!Grant(x.k, f, r, x.t)
      BY <1>0, <1>2, <2>1, <2>2, <2>4, GrantMap DEF TxPromise!Grant
    <3> QED
      BY <1>2, <2>1, <3>1 DEF TxPromise!Next
  <2> QED
    BY <1>1, <1>8, <2>3, <2>4 DEF ExchangeCommit
<1>9. ASSUME NEW k \in Code, CreateCodeCommit(w, k)
      PROVE  TxPromise!Next \/ UNCHANGED absVars
  <2>1. x \in CreateTx /\ x.c \in Client /\ x.b \in Binding /\ k \notin used /\ now' = now
    BY <1>1, <1>9, Kinds DEF CreateCodeCommit, CreateTx
  <2>2. x.start \in Nat /\ x.start <= now /\ now <= x.start + MaxTxAge
    BY <1>1, <2>1, Kinds DEF CreateTx, TxInv, TxFacts, Clocks
  <2>3. x.start \in 0..MaxNow /\ TxPromise!Reading(x.start)
    BY <2>2, TxReading
  <2>4. CASE UNCHANGED <<tables, used>>
    BY <2>1, <2>4, SameRows DEF tables
  <2>5. CASE InsertCode(k, x.c, x.b, x.start)
    <3>1. TxPromise!Issue(k, x.start)
      BY <1>0, <2>1, <2>2, <2>3, <2>5, IssueMap DEF TxPromise!Issue
    <3> QED
      BY <2>3, <3>1 DEF TxPromise!Next
  <2> QED
    BY <1>1, <1>9, <2>4, <2>5 DEF CreateCodeCommit
<1>10. ASSUME NEW c \in Client, RegisterCommit(w, c) PROVE TxPromise!Next
  <2>1. /\ x \in DeleteTx /\ x.todo = {} /\ DeleteGone(x.gone) /\ now' = now
        /\ used' = used \/ used' = used \cup {c}
    BY <1>1, <1>10, Kinds DEF RegisterCommit, TxInv, TxFacts, Staged
  <2>2. \A y \in Code \cup Family \cup Refresh : y \in used' <=> y \in used
    BY <2>1, KeysApart
  <2> QED
    BY <1>1, <2>1, <2>2, TxReapStep
<1>11. CASE EvictCommit(w)
  <2>1. x \in DeleteTx /\ x.todo = {} /\ DeleteGone(x.gone) /\ now' = now /\ used' = used
    BY <1>1, <1>11, Kinds DEF EvictCommit
  <2> QED
    BY <1>1, <2>1, TxReapStep
<1> QED
  BY <1>4, <1>5, <1>6, <1>7, <1>8, <1>9, <1>10, <1>11 DEF Commits

\* Every other step is a tick or hidden.
LEMMA TxPromiseNext == TxInv /\ [TxNext]_txVars => [TxPromise!Next]_absVars
<1> SUFFICES ASSUME TxInv, [TxNext]_txVars PROVE TxPromise!Next \/ UNCHANGED absVars
  OBVIOUS
<1>1. CASE Tick
  BY <1>1, TickMap DEF Tick, TxPromise!Tick, TxPromise!Next
<1>2. CASE UNCHANGED vars
  BY <1>2, SameRows DEF vars
<1>3. CASE (\E w \in Worker : Commits(w)) \/ (\E w \in Evictor : EvictCommit(w))
  BY <1>3, CommitStep DEF Proc
<1> QED
  BY <1>1, <1>2, <1>3, OnlyCommits

\* The interleaved transactions keep the same promise, on readings of the clock at
\* most MaxTxAge old: of two exchanges of one code or two rotations of one token at
\* most one succeeds, and a replay that races a rotation revokes the session.
THEOREM TransactionsKeepPromise == TxSpec => TxKeepsPromise
<1>1. [TxPromise!Next]_absVars => [TxPromise!Next]_(TxPromise!absVars)
  BY DEF absVars, TxPromise!absVars
<1> QED
  BY <1>1, TxPromiseInit, TxPromiseNext, TxInductive, PTL
     DEF TxSpec, TxKeepsPromise, TxPromise!Spec
=============================================================================
