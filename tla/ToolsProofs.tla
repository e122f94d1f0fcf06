---------------------------- MODULE ToolsProofs -----------------------------
(***************************************************************************)
(* Proofs about Tools, for any corpus, queries and lookups: the calls and  *)
(* the tables are well typed, a search lists no chunk twice, abstains      *)
(* honestly and, undisturbed, answers for the whole corpus, a document     *)
(* reply is of one build and opens what the citation means, and the counts *)
(* of corpus_status are consistent.  First what the operators on orders    *)
(* and sequences do, then the tables, then each tool.                      *)
(***************************************************************************)
EXTENDS Tools, FiniteSetTheorems, FunctionTheorems, SequenceTheorems, TLAPS

-----------------------------------------------------------------------------
(* Orders and sequences.                                                   *)

Strict(S, R) ==
    /\ \A x \in S : <<x, x>> \notin R
    /\ \A x, y, z \in S : <<x, y>> \in R /\ <<y, z>> \in R => <<x, z>> \in R
    /\ \A x, y \in S : x # y => <<x, y>> \in R \/ <<y, x>> \in R

Distinct(s) == \A i, j \in 1..Len(s) : s[i] = s[j] => i = j

\* The members of a finite set in a strict order: each once, each at its place.
LEMMA OrderedLists ==
    ASSUME NEW S, IsFiniteSet(S), NEW R, Strict(S, R), NEW s, s = Ordered(S, R)
    PROVE  /\ s \in Seq(S) /\ Len(s) = Cardinality(S) /\ Distinct(s)
           /\ \A x \in S : \E i \in 1..Len(s) : s[i] = x
           /\ \A i, j \in 1..Len(s) : i < j => <<s[i], s[j]>> \in R
<1> DEFINE n == Cardinality(S)
           before(x) == {y \in S : <<y, x>> \in R}
           rank == [x \in S |-> Cardinality(before(x))]
<1>1. n \in Nat
  BY FS_CardinalityType
<1>2. \A x \in S : IsFiniteSet(before(x)) /\ Cardinality(before(x)) \in 0..n - 1
  <2> SUFFICES ASSUME NEW x \in S
               PROVE  IsFiniteSet(before(x)) /\ Cardinality(before(x)) \in 0..n - 1
    OBVIOUS
  <2>1. before(x) \in SUBSET (S \ {x})
    BY DEF Strict
  <2>2. IsFiniteSet(S \ {x}) /\ Cardinality(S \ {x}) = n - 1
    BY FS_RemoveElement
  <2>4. PICK others : others = S \ {x}
    OBVIOUS
  <2>5. before(x) \in SUBSET others /\ IsFiniteSet(others) /\ Cardinality(others) = n - 1
    BY <2>1, <2>2, <2>4
  <2> HIDE DEF before, n
  <2>3. IsFiniteSet(before(x)) /\ Cardinality(before(x)) <= n - 1
    BY <2>5, FS_Subset
  <2> QED
    BY <1>1, <2>3, FS_CardinalityType
<1>3. \A x, y \in S : <<x, y>> \in R => Cardinality(before(x)) < Cardinality(before(y))
  <2> SUFFICES ASSUME NEW x \in S, NEW y \in S, <<x, y>> \in R
               PROVE  Cardinality(before(x)) < Cardinality(before(y))
    OBVIOUS
  <2>1. before(x) \in SUBSET before(y) /\ x \in before(y) /\ x \notin before(x)
    BY DEF Strict
  <2>2. /\ Cardinality(before(x)) <= Cardinality(before(y))
        /\ Cardinality(before(x)) # Cardinality(before(y))
    BY <1>2, <2>1, FS_Subset
  <2> HIDE DEF before
  <2> QED
    BY <1>1, <1>2, <2>2
<1> HIDE DEF before, n
<1>4. rank \in Injection(S, 0..n - 1)
  <2>1. rank \in [S -> 0..n - 1]
    BY <1>2
  <2>2. ASSUME NEW x \in S, NEW y \in S, rank[x] = rank[y] PROVE x = y
    <3>1. rank[x] = Cardinality(before(x)) /\ rank[y] = Cardinality(before(y))
      OBVIOUS
    <3>2. Cardinality(before(x)) = Cardinality(before(y)) /\ Cardinality(before(x)) \in Int
      BY <1>1, <1>2, <2>2, <3>1
    <3>3. CASE <<x, y>> \in R
      <4>1. Cardinality(before(x)) < Cardinality(before(y))
        BY <1>3, <3>3
      <4> QED
        BY <3>2, <4>1
    <3>4. CASE <<y, x>> \in R
      <4>1. Cardinality(before(y)) < Cardinality(before(x))
        BY <1>3, <3>4
      <4> QED
        BY <3>2, <4>1
    <3> QED
      BY <3>3, <3>4 DEF Strict
  <2> HIDE DEF rank
  <2> QED
    BY <2>1, <2>2, Fun_IsInj
<1>5. \A i \in 1..n : \E x \in S : rank[x] = i - 1
  <2>1. IsFiniteSet(0..n - 1) /\ Cardinality(0..n - 1) = n
    BY <1>1, FS_Interval
  <2> HIDE DEF rank
  <2>2. rank \in Surjection(S, 0..n - 1)
    BY <1>4, <2>1, FS_Injection DEF n
  <2>3. \A m \in 0..n - 1 : \E x \in S : rank[x] = m
    BY <2>2, Fun_SurjectionProperties
  <2>4. \A i \in 1..n : i - 1 \in 0..n - 1
    BY <1>1
  <2> QED
    BY <2>3, <2>4
<1>6. \A i \in 1..n : s[i] \in S /\ Cardinality(before(s[i])) = i - 1
  <2> SUFFICES ASSUME NEW i \in 1..n PROVE s[i] \in S /\ Cardinality(before(s[i])) = i - 1
    OBVIOUS
  <2>1. \E x \in S : Cardinality(before(x)) = i - 1
    BY <1>5
  <2>2. s[i] = CHOOSE x \in S : Cardinality(before(x)) = i - 1
    BY DEF Ordered, before, n
  <2> QED
    BY <2>1, <2>2
<1>7. s \in [1..n -> S]
  BY <1>6 DEF Ordered, n
<1>8. s \in Seq(S) /\ Len(s) = n
  BY <1>1, <1>7
<1>9. Distinct(s)
  BY <1>1, <1>6, <1>8 DEF Distinct
<1>10. ASSUME NEW x \in S PROVE \E i \in 1..Len(s) : s[i] = x
  <2> DEFINE i == rank[x] + 1
  <2>1. rank[x] = Cardinality(before(x)) /\ i \in 1..n
    BY <1>1, <1>2
  <2>2. rank[s[i]] = rank[x] /\ s[i] \in S
    <3>1. s[i] \in S /\ Cardinality(before(s[i])) = i - 1
      BY <1>6, <2>1
    <3>2. rank[s[i]] = Cardinality(before(s[i]))
      BY <3>1
    <3>3. i - 1 = rank[x]
      BY <1>1, <1>2
    <3> QED
      BY <3>1, <3>2, <3>3
  <2> HIDE DEF rank
  <2>3. s[i] = x
    BY <1>4, <2>2, Fun_InjectionProperties
  <2> QED
    BY <1>8, <2>1, <2>3
<1>11. ASSUME NEW i \in 1..Len(s), NEW j \in 1..Len(s), i < j PROVE <<s[i], s[j]>> \in R
  <2>1. s[i] \in S /\ s[j] \in S /\ s[i] # s[j]
    BY <1>6, <1>8, <1>9, <1>11 DEF Distinct
  <2>2. ~ <<s[j], s[i]>> \in R
    BY <1>1, <1>3, <1>6, <1>8, <1>11, <2>1
  <2> QED
    BY <2>1, <2>2 DEF Strict
<1> QED
  BY <1>8, <1>9, <1>10, <1>11 DEF n

\* A set of numbers that is not empty has a least one.
LEMMA LeastNumber ==
    ASSUME NEW T \in SUBSET Nat, T # {}
    PROVE  \E x \in T : \A y \in T : x <= y
<1>1. PICK x \in T : \A y \in T : ~ (<<y, x>> \in OpToRel(<, Nat))
  BY NatLessThanWellFounded, WFMin
<1>2. \A y \in T : ~ (y < x)
  BY <1>1 DEF OpToRel
<1> QED
  BY <1>2

\* The items of a concatenation are those of its parts.
LEMMA Appended ==
    ASSUME NEW T, NEW s \in Seq(T), NEW t \in Seq(T), NEW u, u = s \o t
    PROVE  /\ u \in Seq(T) /\ Len(u) = Len(s) + Len(t)
           /\ \A i \in 1..Len(s) : u[i] = s[i]
           /\ \A i \in 1..Len(t) : u[Len(s) + i] = t[i]
<1>1. /\ u \in Seq(T) /\ Len(u) = Len(s) + Len(t)
      /\ \A i \in 1..Len(s) + Len(t) : u[i] = IF i <= Len(s) THEN s[i] ELSE t[i - Len(s)]
  BY ConcatProperties
<1>2. Len(s) \in Nat /\ Len(t) \in Nat
  BY LenProperties
<1>3. ASSUME NEW i \in 1..Len(s) PROVE u[i] = s[i]
  BY <1>1, <1>2
<1>4. ASSUME NEW i \in 1..Len(t) PROVE u[Len(s) + i] = t[i]
  <2>1. /\ Len(s) + i \in 1..Len(s) + Len(t) /\ ~ (Len(s) + i <= Len(s))
        /\ Len(s) + i - Len(s) = i
    BY <1>2
  <2> QED
    BY <1>1, <2>1
<1> QED
  BY <1>1, <1>3, <1>4

\* A limit keeps a prefix.
LEMMA LimitLists ==
    ASSUME NEW T, NEW s \in Seq(T), NEW n \in Nat, NEW t, t = Limit(s, n)
    PROVE  /\ t \in Seq(T) /\ Len(t) <= Len(s) /\ Len(t) <= n
           /\ Len(t) = n \/ Len(t) = Len(s)
           /\ \A i \in 1..Len(t) : t[i] = s[i]
<1> DEFINE m == IF Len(s) < n THEN Len(s) ELSE n
<1>1. m \in Nat /\ m <= Len(s) /\ m <= n /\ (m = n \/ m = Len(s)) /\ t = SubSeq(s, 1, m)
  BY DEF Limit
<1> HIDE DEF m
<1>2. \A i \in 1..m : s[i] \in T
  BY <1>1
<1>3. /\ t \in Seq(T) /\ Len(t) = (IF 1 <= m THEN m - 1 + 1 ELSE 0)
      /\ \A i \in 1..m - 1 + 1 : t[i] = s[1 + i - 1]
  BY <1>1, <1>2, SubSeqProperties
<1> QED
  BY <1>1, <1>3

\* The items of s at the indices I, in their order.
Picked(t, s, I) ==
    /\ \A i \in 1..Len(t) : \E j \in I : t[i] = s[j]
    /\ \A i, k \in 1..Len(t) : i < k => \E j, l \in I : j < l /\ t[i] = s[j] /\ t[k] = s[l]
    /\ \A j \in I : \E i \in 1..Len(t) : t[i] = s[j]

\* Keeping some indices keeps their items, in their order.
LEMMA KeptLists ==
    ASSUME NEW T, NEW s \in Seq(T), NEW I, I \subseteq 1..Len(s), NEW t, t = Kept(s, I)
    PROVE  t \in Seq(T) /\ Len(t) = Cardinality(I) /\ Len(t) <= Len(s) /\ Picked(t, s, I)
<1> DEFINE R == {p \in I \X I : p[1] < p[2]}
           o == Ordered(I, R)
<1>1. IsFiniteSet(I) /\ Cardinality(I) <= Len(s) /\ Cardinality(I) \in Nat
  <2>1. PICK n \in Nat : n = Len(s)
    BY LenProperties
  <2>2. /\ IsFiniteSet(1..n)
        /\ Cardinality(1..n) = IF 1 > n THEN 0 ELSE n - 1 + 1
    <3>1. 1 \in Int /\ n \in Int
      OBVIOUS
    <3> QED
      BY <3>1, FS_Interval
  <2>3. Cardinality(1..n) = n
    BY <2>2
  <2>4. PICK J : J = 1..n
    OBVIOUS
  <2>5. IsFiniteSet(J) /\ Cardinality(J) = n /\ I \subseteq J
    BY <2>1, <2>2, <2>3, <2>4
  <2>6. IsFiniteSet(I) /\ Cardinality(I) <= n
    BY <2>5, FS_Subset
  <2> QED
    BY <2>1, <2>6, FS_CardinalityType
<1>2. Strict(I, R)
  BY DEF Strict
<1>3. /\ o \in Seq(I) /\ Len(o) = Cardinality(I)
      /\ \A x \in I : \E i \in 1..Len(o) : o[i] = x
      /\ \A i, j \in 1..Len(o) : i < j => <<o[i], o[j]>> \in R
  <2> HIDE DEF R
  <2> QED
    BY <1>1, <1>2, OrderedLists
<1>4. \A i, j \in 1..Len(o) : i < j => o[i] < o[j]
  BY <1>3
<1>5. t = [i \in 1..Cardinality(I) |-> s[o[i]]]
  BY DEF Kept
<1> HIDE DEF o
<1>6. \A i \in 1..Cardinality(I) : o[i] \in I /\ s[o[i]] \in T
  <2>1. \A i \in 1..Cardinality(I) : o[i] \in I
    BY <1>3, ElementOfSeq
  <2> QED
    BY <2>1, ElementOfSeq
<1>7. t \in Seq(T) /\ Len(t) = Cardinality(I)
  BY <1>1, <1>5, <1>6
<1>8. \A i \in 1..Len(t) : o[i] \in I /\ t[i] = s[o[i]]
  BY <1>5, <1>6, <1>7
<1>9. Len(o) = Len(t)
  BY <1>3, <1>7
<1>10. \A i, k \in 1..Len(t) : i < k =>
          \E j, l \in I : j < l /\ t[i] = s[j] /\ t[k] = s[l]
  BY <1>4, <1>8, <1>9
<1>11. \A j \in I : \E i \in 1..Len(t) : t[i] = s[j]
  BY <1>3, <1>8, <1>9
<1> QED
  BY <1>1, <1>7, <1>8, <1>10, <1>11 DEF Picked

\* Keys of one length that tell the members apart.
LEMMA KeysOrder ==
    ASSUME NEW S, NEW n \in Nat, NEW key,
           \A x \in S : key[x] \in Seq(Int) /\ Len(key[x]) = n,
           \A x, y \in S : key[x] = key[y] => x = y
    PROVE  Strict(S, By(S, key))
<1>1. \A x, y \in S : <<x, y>> \in By(S, key) <=>
         \E i \in 1..n : key[x][i] < key[y][i] /\ \A j \in 1..i - 1 : key[x][j] = key[y][j]
  BY DEF By, Precedes
<1>2. \A x \in S : \A i \in 1..n : key[x][i] \in Int
  OBVIOUS
<1>3. \A x \in S : <<x, x>> \notin By(S, key)
  BY <1>1, <1>2
<1>4. ASSUME NEW x \in S, NEW y \in S, NEW z \in S,
             <<x, y>> \in By(S, key), <<y, z>> \in By(S, key)
      PROVE  <<x, z>> \in By(S, key)
  <2>1. PICK i \in 1..n : key[x][i] < key[y][i] /\ \A j \in 1..i - 1 : key[x][j] = key[y][j]
    BY <1>1, <1>4
  <2>2. PICK k \in 1..n : key[y][k] < key[z][k] /\ \A j \in 1..k - 1 : key[y][j] = key[z][j]
    BY <1>1, <1>4
  <2> DEFINE m == IF i < k THEN i ELSE k
  <2>3. m \in 1..n /\ m <= i /\ m <= k
    OBVIOUS
  <2>4. key[x][m] < key[z][m]
    <3>1. CASE i < k
      <4>1. m = i /\ key[y][i] = key[z][i]
        BY <2>2, <3>1
      <4> QED
        BY <2>1, <4>1
    <3>2. CASE ~(i < k) /\ k < i
      <4>1. m = k /\ key[x][k] = key[y][k]
        BY <2>1, <3>2
      <4> QED
        BY <2>2, <4>1
    <3>3. CASE ~(i < k) /\ ~(k < i)
      <4>1. m = i /\ k = i
        BY <3>3
      <4>2. key[x][i] \in Int /\ key[y][i] \in Int /\ key[z][i] \in Int
        BY <1>2
      <4> QED
        BY <2>1, <2>2, <4>1, <4>2
    <3> QED
      BY <3>1, <3>2, <3>3
  <2> HIDE DEF m
  <2>5. ASSUME NEW j \in 1..m - 1 PROVE key[x][j] = key[z][j]
    <3>1. j \in 1..i - 1 /\ j \in 1..k - 1
      BY <2>3
    <3> QED
      BY <2>1, <2>2, <3>1
  <2> QED
    BY <1>1, <2>3, <2>4, <2>5
<1>5. ASSUME NEW x \in S, NEW y \in S, x # y
      PROVE  <<x, y>> \in By(S, key) \/ <<y, x>> \in By(S, key)
  <2> DEFINE D == {i \in 1..n : key[x][i] # key[y][i]}
  <2>1. D # {}
    <3>1. CASE D = {}
      <4>1. \A i \in 1..n : key[x][i] = key[y][i]
        BY <3>1
      <4>2. key[x] = key[y]
        BY <4>1, SeqEqual
      <4> QED
        BY <1>5, <4>2
    <3> QED
      BY <3>1
  <2>2. D \in SUBSET Nat
    OBVIOUS
  <2> HIDE DEF D
  <2>3. PICK i \in D : \A j \in D : i <= j
    BY <2>1, <2>2, LeastNumber
  <2>4. i \in 1..n /\ key[x][i] # key[y][i] /\ \A j \in 1..i - 1 : key[x][j] = key[y][j]
    BY <2>3 DEF D
  <2>5. key[x][i] < key[y][i] \/ key[y][i] < key[x][i]
    BY <1>2, <2>4
  <2> QED
    BY <1>1, <2>4, <2>5
<1> QED
  BY <1>3, <1>4, <1>5 DEF Strict

-----------------------------------------------------------------------------
(* The tables.                                                             *)

Row == [doc: Doc, n: Nat, build: Nat]
ChunkRow == [row: Row, build: Nat]
JobKind == {"none", "normalize", "normalized", "chunks", "index", "weigh"}
JobRow == [kind: JobKind, doc: Doc \cup {NULL}, build: Nat, at: Nat, todo: SUBSET Row]

\* The rows of a document are of one parse, a control has one chunk at most.
Rows ==
    /\ server \in Servers /\ jobs \in 0..MaxJobs
    /\ control \in SUBSET Row /\ IsFiniteSet(control)
    /\ \A r \in control : <<r.doc, r.n>> \in Entry /\ r.build <= jobs
    /\ \A r, s \in control : r.doc = s.doc => r.build = s.build
    /\ chunk \in SUBSET ChunkRow /\ IsFiniteSet(chunk)
    /\ \A k \in chunk : k.build <= jobs
    /\ \A j, k \in chunk : j.row = k.row => j = k
    /\ vector \subseteq chunk \X Models /\ sparse \subseteq chunk

Edges ==
    /\ \A m \in edge : m = [from |-> m.from, names |-> m.names, to |-> m.to]
    /\ \A m \in edge : m.names \in Entry /\ m.from \in control /\ m.to \in control \cup {NULL}

OneCurrent ==
    /\ current \subseteq Listed
    /\ \A v, w \in current : v.fw = w.fw => v = w

\* What a job still holds of the tables while other statements come between.
JobHolds ==
    /\ job \in JobRow /\ job.build <= jobs
    /\ job.kind \in {"normalize", "normalized", "chunks"} => job.doc \in Doc
    /\ job.kind = "normalize" => \A r \in control : r.doc = job.doc => r.build = job.build
    /\ job.kind = "index" => \A r \in job.todo : \A k \in chunk : k.row # r

CorpusInv == Rows /\ Edges /\ OneCurrent /\ JobHolds

\* An entry is a document with a line of its tree.
LEMMA Entries ==
    /\ \A d \in Doc : \A n : <<d, n>> \in Entry <=> n \in 1..Len(Tree[d])
    /\ \A e \in Entry : e[1] \in Doc /\ e[2] \in Nat \ {0} /\ e = <<e[1], e[2]>>
    /\ \A d \in Doc : Tree[d] \in Seq(ParsedRow) /\ Len(Tree[d]) \in Nat
<1>1. \A d \in Doc : Tree[d] \in Seq(ParsedRow) /\ Len(Tree[d]) \in Nat
  BY CorpusAssumption, LenProperties DEF CorpusAssumption
<1> QED
  BY <1>1 DEF Entry

\* A corpus of finitely many documents has finitely many entries.
LEMMA EntryFinite == IsFiniteSet(Entry)
<1> DEFINE of == [d \in Doc |-> {d} \X (1..Len(Tree[d]))]
           all == {{d} \X (1..Len(Tree[d])) : d \in Doc}
<1>1. of \in Surjection(Doc, all)
  BY Fun_IsSurj
<1>2. IsFiniteSet(Doc)
  BY CorpusAssumption DEF CorpusAssumption
<1>3. IsFiniteSet(all)
  <2> HIDE DEF of, all
  <2> QED
    BY <1>1, <1>2, FS_Surjection
<1>4. ASSUME NEW d \in Doc PROVE IsFiniteSet({d} \X (1..Len(Tree[d])))
  <2>1. IsFiniteSet({d}) /\ IsFiniteSet(1..Len(Tree[d]))
    <3>1. 1 \in Int /\ Len(Tree[d]) \in Int
      BY Entries
    <3> QED
      BY <3>1, FS_Singleton, FS_Interval
  <2> QED
    BY <2>1, FS_Product
<1>5. \A T \in all : IsFiniteSet(T)
  BY <1>4
<1> HIDE DEF all
<1>6. IsFiniteSet(UNION all)
  BY <1>3, <1>5, FS_UNION
<1> QED
  BY <1>6 DEF Entry, all

\* The corpus the whole pipeline built is consistent.
LEMMA InitRows == CorpusInit => CorpusInv
<1> SUFFICES ASSUME CorpusInit PROVE CorpusInv
  OBVIOUS
<1>1. \A r \in control : /\ r \in Row /\ <<r.doc, r.n>> \in Entry /\ r.build = 0
  BY Entries DEF CorpusInit, Row
<1>2. IsFiniteSet(control)
  <2> DEFINE of == [e \in Entry |-> [doc |-> e[1], n |-> e[2], build |-> 0]]
  <2>1. of \in Surjection(Entry, control)
    BY Fun_IsSurj DEF CorpusInit
  <2> HIDE DEF of
  <2> QED
    BY <2>1, EntryFinite, FS_Surjection
<1>3. IsFiniteSet(chunk)
  <2> DEFINE of == [r \in control |-> [row |-> r, build |-> 0]]
  <2>1. of \in Surjection(control, chunk)
    BY Fun_IsSurj DEF CorpusInit
  <2> HIDE DEF of
  <2> QED
    BY <1>2, <2>1, FS_Surjection
<1>4. Rows
  <2>1. \A k \in chunk : k \in ChunkRow /\ k = [row |-> k.row, build |-> 0] /\ k.build = 0
    <3>1. \A r \in control : [row |-> r, build |-> 0] \in ChunkRow
      BY <1>1 DEF ChunkRow
    <3>2. \A k \in chunk : \E r \in control : k = [row |-> r, build |-> 0]
      BY DEF CorpusInit
    <3> QED
      BY <3>1, <3>2
  <2>2. server \in Servers /\ jobs = 0 /\ vector \subseteq chunk \X Models /\ sparse \subseteq chunk
    BY CorpusAssumption DEF CorpusInit, CorpusAssumption
  <2>3. jobs \in 0..MaxJobs
    BY <2>2, CorpusAssumption DEF CorpusAssumption
  <2>4. \A j, k \in chunk : j.row = k.row => j = k
    BY <2>1
  <2>5. /\ \A r \in control : <<r.doc, r.n>> \in Entry /\ r.build <= jobs
        /\ \A r, s \in control : r.doc = s.doc => r.build = s.build
        /\ \A k \in chunk : k.build <= jobs
    <3>1. \A r \in control : r.build <= jobs
      <4>1. ASSUME NEW r \in control PROVE r.build <= jobs
        <5>1. r.build = 0 /\ jobs = 0
          BY <1>1, <2>2
        <5> QED
          BY <5>1
      <4> QED
        BY <4>1
    <3>2. \A k \in chunk : k.build <= jobs
      BY <2>1, <2>2
    <3> QED
      BY <1>1, <3>1, <3>2
  <2>6. control \in SUBSET Row /\ chunk \in SUBSET ChunkRow
    BY <1>1, <2>1
  <2> QED
    BY <1>2, <1>3, <2>2, <2>3, <2>4, <2>5, <2>6 DEF Rows
<1>5. Edges
  <2>1. \A e \in Entry : (CHOOSE r \in control : r \in Named(e)) \in control
    <3> SUFFICES ASSUME NEW e \in Entry
                 PROVE  (CHOOSE r \in control : r \in Named(e)) \in control
      OBVIOUS
    <3>1. [doc |-> e[1], n |-> e[2], build |-> 0] \in control
      BY DEF CorpusInit
    <3>2. \E r \in control : r \in Named(e)
      BY <3>1, Entries DEF Named
    <3> QED
      BY <3>2
  <2>2. \A m \in Mapping : m.from \in Entry /\ m.to \in Entry
    BY CorpusAssumption DEF CorpusAssumption
  <2>3. \A x \in edge : \E a, b \in control : \E e \in Entry :
           x = [from |-> a, names |-> e, to |-> b]
    BY <2>1, <2>2 DEF CorpusInit
  <2> QED
    BY <2>3 DEF Edges
<1>6. OneCurrent
  <2>1. \A v \in Listed : v = [fw |-> v.fw, ver |-> v.ver] /\ v.ver \in Nat
    BY CorpusAssumption DEF CorpusAssumption
  <2> QED
    BY <2>1 DEF OneCurrent, CorpusInit
<1>7. JobHolds
  BY <1>4 DEF JobHolds, CorpusInit, NoJob, JobRow, JobKind, Rows
<1> QED
  BY <1>4, <1>5, <1>6, <1>7 DEF CorpusInv

\* A target is a row, or none.
LEMMA Targets ==
    ASSUME NEW e
    PROVE  /\ Target(e) \in control \cup {NULL}
           /\ Named(e) # {} => Target(e) \in control
BY DEF Target, Named

\* No statement mixes the builds of a document or gives a control two chunks.
LEMMA WriteRows == ASSUME CorpusInv, Write PROVE Rows'
<1>1. /\ server' = server /\ jobs' \in {jobs, jobs + 1} /\ jobs' \in 0..MaxJobs
      /\ jobs \in 0..MaxJobs /\ MaxJobs \in Nat
  <2>1. jobs \in 0..MaxJobs /\ MaxJobs \in Nat
    BY CorpusAssumption DEF CorpusAssumption, CorpusInv, Rows
  <2>2. /\ server' = server
        /\ jobs' = jobs \/ (jobs < MaxJobs /\ jobs' = jobs + 1)
    BY DEF Write, NormalizeDelete, DeleteOrphanChunks, InsertControl,
       ResolveControlMappings, UpsertControlMapping, DeleteChunksForControls, InsertChunk,
       UpsertChunkEmbedding, UpdateChunkSparse, JobEnds, Seed, corpus
  <2> QED
    BY <2>1, <2>2
<1>2. /\ server \in Servers
      /\ control \in SUBSET Row /\ IsFiniteSet(control)
      /\ \A r \in control : <<r.doc, r.n>> \in Entry /\ r.build <= jobs /\ r.build \in Nat
      /\ \A r, s \in control : r.doc = s.doc => r.build = s.build
      /\ chunk \in SUBSET ChunkRow /\ IsFiniteSet(chunk)
      /\ \A k \in chunk : k.build <= jobs /\ k.build \in Nat
      /\ \A j, k \in chunk : j.row = k.row => j = k
      /\ vector \subseteq chunk \X Models /\ sparse \subseteq chunk
  BY DEF CorpusInv, Rows, Row, ChunkRow
<1>3. JobHolds
  BY DEF CorpusInv
<1>4. /\ control' \in SUBSET Row /\ IsFiniteSet(control')
      /\ \A r \in control' : <<r.doc, r.n>> \in Entry /\ r.build <= jobs'
      /\ \A r, s \in control' : r.doc = s.doc => r.build = s.build
  <2>1. CASE control' \in SUBSET control
    BY <1>1, <1>2, <2>1, FS_Subset
  <2>2. CASE InsertControl
    <3> DEFINE new == [doc |-> job.doc, n |-> job.at + 1, build |-> job.build]
    <3>1. /\ job.doc \in Doc /\ job.at \in Nat /\ job.at < Len(Tree[job.doc])
          /\ job.build \in Nat /\ job.build <= jobs /\ jobs' = jobs
          /\ \A r \in control : r.doc = job.doc => r.build = job.build
      BY <1>3, <2>2 DEF InsertControl, JobHolds, JobRow
    <3>2. new \in Row /\ <<new.doc, new.n>> \in Entry /\ new.build = job.build /\ new.doc = job.doc
      BY <3>1, Entries DEF Row
    <3>3. control' = control \cup {new}
      BY <2>2 DEF InsertControl
    <3> HIDE DEF new
    <3>4. IsFiniteSet(control')
      BY <1>2, <3>3, FS_AddElement
    <3> QED
      BY <1>2, <3>1, <3>2, <3>3, <3>4
  <2>3. control' \in SUBSET control \/ InsertControl
    BY DEF Write, NormalizeDelete, DeleteOrphanChunks, ResolveControlMappings,
       UpsertControlMapping, DeleteChunksForControls, InsertChunk, UpsertChunkEmbedding,
       UpdateChunkSparse, JobEnds, Seed, corpus
  <2> QED
    BY <2>1, <2>2, <2>3
<1>5. /\ chunk' \in SUBSET ChunkRow /\ IsFiniteSet(chunk')
      /\ \A k \in chunk' : k.build <= jobs'
      /\ \A j, k \in chunk' : j.row = k.row => j = k
      /\ vector' \subseteq chunk' \X Models /\ sparse' \subseteq chunk'
  <2>1. CASE chunk' \in SUBSET chunk /\ vector' \subseteq chunk' \X Models /\ sparse' \subseteq chunk'
    BY <1>1, <1>2, <2>1, FS_Subset
  <2>2. ASSUME NEW r \in control, InsertChunk(r)
        PROVE  /\ chunk' \in SUBSET ChunkRow /\ IsFiniteSet(chunk')
               /\ \A k \in chunk' : k.build <= jobs'
               /\ \A j, k \in chunk' : j.row = k.row => j = k
               /\ vector' \subseteq chunk' \X Models /\ sparse' \subseteq chunk'
    <3> DEFINE new == [row |-> r, build |-> job.build]
    <3>1. /\ r \in Row /\ job.build \in Nat /\ job.build <= jobs /\ jobs' = jobs
          /\ \A k \in chunk : k.row # r
      BY <1>2, <1>3, <2>2 DEF InsertChunk, JobHolds, JobRow
    <3>2. new \in ChunkRow /\ new.row = r /\ new.build = job.build
      BY <3>1 DEF ChunkRow
    <3>3. chunk' = chunk \cup {new} /\ vector' = vector /\ sparse' = sparse
      BY <2>2 DEF InsertChunk
    <3> HIDE DEF new
    <3>4. IsFiniteSet(chunk')
      BY <1>2, <3>3, FS_AddElement
    <3>5. \A j, k \in chunk' : j.row = k.row => j = k
      BY <1>2, <3>1, <3>2, <3>3
    <3> QED
      BY <1>2, <3>1, <3>2, <3>3, <3>4, <3>5
  <2>3. \/ chunk' \in SUBSET chunk /\ vector' \subseteq chunk' \X Models /\ sparse' \subseteq chunk'
        \/ \E r \in control : InsertChunk(r)
    <3>1. \/ UNCHANGED <<chunk, vector, sparse>>
          \/ \E d \in Rebuilt : DeleteOrphanChunks(d)
          \/ DeleteChunksForControls
          \/ \E r \in control : InsertChunk(r)
          \/ \E k \in chunk : UpsertChunkEmbedding(k) \/ UpdateChunkSparse(k)
      BY DEF Write, NormalizeDelete, InsertControl, ResolveControlMappings,
         UpsertControlMapping, JobEnds, Seed, corpus
    <3>2. ASSUME NEW d \in Rebuilt, DeleteOrphanChunks(d)
          PROVE  chunk' \in SUBSET chunk /\ vector' \subseteq chunk' \X Models /\ sparse' \subseteq chunk'
      BY <1>2, <3>2 DEF DeleteOrphanChunks, Joined, VectorsOf
    <3>3. ASSUME DeleteChunksForControls
          PROVE  chunk' \in SUBSET chunk /\ vector' \subseteq chunk' \X Models /\ sparse' \subseteq chunk'
      BY <1>2, <3>3 DEF DeleteChunksForControls, VectorsOf
    <3>4. ASSUME NEW k \in chunk, UpsertChunkEmbedding(k) \/ UpdateChunkSparse(k)
          PROVE  chunk' \in SUBSET chunk /\ vector' \subseteq chunk' \X Models /\ sparse' \subseteq chunk'
      BY <1>2, <3>4, CorpusAssumption
      DEF UpsertChunkEmbedding, UpdateChunkSparse, CorpusAssumption
    <3> QED
      BY <1>2, <3>1, <3>2, <3>3, <3>4
  <2> QED
    BY <2>1, <2>2, <2>3
<1> QED
  BY <1>1, <1>2, <1>4, <1>5 DEF Rows

\* An edge is of a control that is there, and to one or to nothing.
LEMMA WriteEdges == ASSUME CorpusInv, Write PROVE Edges'
<1>1. Edges
  BY DEF CorpusInv
<1>2. ASSUME NEW d \in Doc, NormalizeDelete(d) PROVE Edges'
  <2>1. \A m \in edge' : \E o \in edge : o.from.doc # d /\
           m = [o EXCEPT !.to = IF @ # NULL /\ @.doc = d THEN NULL ELSE @]
    BY <1>2 DEF NormalizeDelete
  <2>2. control' = {r \in control : r.doc # d}
    BY <1>2 DEF NormalizeDelete
  <2> SUFFICES ASSUME NEW m \in edge'
               PROVE  /\ m = [from |-> m.from, names |-> m.names, to |-> m.to]
                      /\ m.names \in Entry /\ m.from \in control'
                      /\ m.to \in control' \cup {NULL}
    BY DEF Edges
  <2>3. PICK o \in edge : o.from.doc # d /\
           m = [o EXCEPT !.to = IF @ # NULL /\ @.doc = d THEN NULL ELSE @]
    BY <2>1
  <2>4. /\ o = [from |-> o.from, names |-> o.names, to |-> o.to]
        /\ o.names \in Entry /\ o.from \in control /\ o.to \in control \cup {NULL}
    BY <1>1 DEF Edges
  <2>5. m = [from |-> o.from, names |-> o.names,
             to |-> IF o.to # NULL /\ o.to.doc = d THEN NULL ELSE o.to]
    BY <2>3, <2>4
  <2> QED
    BY <2>2, <2>3, <2>4, <2>5
<1>3. CASE ResolveControlMappings
  <2>1. \A m \in edge' : \E o \in edge : m = [o EXCEPT !.to = Target(o.names)]
    BY <1>3 DEF ResolveControlMappings
  <2>2. control' = control
    BY <1>3 DEF ResolveControlMappings
  <2> SUFFICES ASSUME NEW m \in edge'
               PROVE  /\ m = [from |-> m.from, names |-> m.names, to |-> m.to]
                      /\ m.names \in Entry /\ m.from \in control'
                      /\ m.to \in control' \cup {NULL}
    BY DEF Edges
  <2>3. PICK o \in edge : m = [o EXCEPT !.to = Target(o.names)]
    BY <2>1
  <2>4. /\ o = [from |-> o.from, names |-> o.names, to |-> o.to]
        /\ o.names \in Entry /\ o.from \in control
    BY <1>1 DEF Edges
  <2>5. m = [from |-> o.from, names |-> o.names, to |-> Target(o.names)]
    BY <2>3, <2>4
  <2>6. Target(o.names) \in control \cup {NULL}
    BY Targets
  <2> QED
    BY <2>2, <2>4, <2>5, <2>6
<1>4. ASSUME NEW m \in Mapping, UpsertControlMapping(m) PROVE Edges'
  <2>1. /\ edge' = edge \cup {[from |-> Target(m.from), names |-> m.to, to |-> Target(m.to)]}
        /\ control' = control /\ Named(m.from) # {}
    BY <1>4 DEF UpsertControlMapping
  <2>2. Target(m.from) \in control /\ Target(m.to) \in control \cup {NULL}
    BY <2>1, Targets
  <2> DEFINE new == [from |-> Target(m.from), names |-> m.to, to |-> Target(m.to)]
  <2>3. /\ new = [from |-> new.from, names |-> new.names, to |-> new.to]
        /\ new.names \in Entry /\ new.from \in control /\ new.to \in control \cup {NULL}
    BY <2>2, CorpusAssumption DEF CorpusAssumption
  <2>4. edge' = edge \cup {new} /\ control' = control
    BY <2>1
  <2> HIDE DEF new
  <2> QED
    BY <1>1, <2>3, <2>4 DEF Edges
<1>5. CASE edge' = edge /\ control \subseteq control'
  BY <1>1, <1>5 DEF Edges
<1>6. \/ \E d \in Doc : NormalizeDelete(d)
      \/ ResolveControlMappings
      \/ \E m \in Mapping : UpsertControlMapping(m)
      \/ edge' = edge /\ control \subseteq control'
  BY CorpusAssumption
  DEF CorpusAssumption, Write, DeleteOrphanChunks, InsertControl, DeleteChunksForControls,
      InsertChunk, UpsertChunkEmbedding, UpdateChunkSparse, JobEnds, Seed, corpus
<1> QED
  BY <1>2, <1>3, <1>4, <1>5, <1>6

\* A seed leaves a framework one current version.
LEMMA WriteCurrent == ASSUME CorpusInv, Write PROVE OneCurrent'
<1>1. \/ current' = current
      \/ \E v \in Listed : current' = {w \in current : w.fw # v.fw} \cup {v}
  BY DEF Write, NormalizeDelete, DeleteOrphanChunks, InsertControl, ResolveControlMappings,
     UpsertControlMapping, DeleteChunksForControls, InsertChunk, UpsertChunkEmbedding,
     UpdateChunkSparse, JobEnds, Seed, corpus
<1> QED
  BY <1>1 DEF CorpusInv, OneCurrent

\* What a job still holds stays true under its own statements and a seed's.
LEMMA WriteJob == ASSUME CorpusInv, Write PROVE JobHolds'
<1>1. /\ job \in JobRow /\ job.build \in Nat /\ job.build <= jobs /\ jobs \in Nat
      /\ job.kind \in {"normalize", "normalized", "chunks"} => job.doc \in Doc
      /\ job.kind = "normalize" => \A r \in control : r.doc = job.doc => r.build = job.build
      /\ job.kind = "index" => \A r \in job.todo : \A k \in chunk : k.row # r
      /\ control \in SUBSET Row
  BY DEF CorpusInv, JobHolds, Rows, JobRow
<1>2. ASSUME NEW d \in Doc, NormalizeDelete(d) PROVE JobHolds'
  <2>1. /\ job' = [kind |-> "normalize", doc |-> d, build |-> jobs + 1, at |-> 0, todo |-> {}]
        /\ jobs' = jobs + 1 /\ control' = {r \in control : r.doc # d}
    BY <1>2 DEF NormalizeDelete, NoJob
  <2> QED
    BY <1>1, <2>1 DEF JobHolds, JobRow, JobKind
<1>3. CASE InsertControl
  <2>1. /\ job' = [job EXCEPT !.at = @ + 1] /\ job.kind = "normalize" /\ UNCHANGED <<jobs, chunk>>
        /\ control' = control \cup {[doc |-> job.doc, n |-> job.at + 1, build |-> job.build]}
    BY <1>3 DEF InsertControl
  <2>2. /\ job' \in JobRow /\ job'.kind = "normalize" /\ job'.doc = job.doc
        /\ job'.build = job.build
    BY <1>1, <2>1 DEF JobRow
  <2> QED
    BY <1>1, <2>1, <2>2 DEF JobHolds
<1>4. CASE ResolveControlMappings
  <2>1. job' = [job EXCEPT !.kind = "normalized"] /\ job.kind = "normalize" /\ UNCHANGED jobs
    BY <1>4 DEF ResolveControlMappings
  <2>2. /\ job' \in JobRow /\ job'.kind = "normalized" /\ job'.doc = job.doc
        /\ job'.build = job.build
    BY <1>1, <2>1 DEF JobRow, JobKind
  <2> QED
    BY <1>1, <2>1, <2>2 DEF JobHolds
<1>5. ASSUME NEW d \in Doc, DeleteOrphanChunks(d) PROVE JobHolds'
  <2>1. /\ job' = [kind |-> "chunks", doc |-> d, build |-> jobs', at |-> 0, todo |-> {}]
        /\ jobs' \in {jobs, jobs + 1}
    BY <1>5 DEF DeleteOrphanChunks, NoJob
  <2> QED
    BY <1>1, <2>1 DEF JobHolds, JobRow, JobKind
<1>6. CASE DeleteChunksForControls
  <2>1. /\ job' = [job EXCEPT !.kind = "index", !.todo = {r \in control : r.doc = job.doc}]
        /\ chunk' = {k \in chunk : k.row.doc # job.doc} /\ UNCHANGED jobs
    BY <1>6 DEF DeleteChunksForControls
  <2>2. {r \in control : r.doc = job.doc} \in SUBSET Row
    BY <1>1
  <2>3. /\ job' \in JobRow /\ job'.kind = "index" /\ job'.build = job.build
        /\ job'.todo = {r \in control : r.doc = job.doc}
    BY <1>1, <2>1, <2>2 DEF JobRow, JobKind
  <2> QED
    BY <1>1, <2>1, <2>3 DEF JobHolds
<1>7. ASSUME NEW r \in control, InsertChunk(r) PROVE JobHolds'
  <2>1. /\ job' = [job EXCEPT !.todo = @ \ {r}] /\ UNCHANGED jobs
        /\ chunk' = chunk \cup {[row |-> r, build |-> job.build]} /\ job.kind = "index"
    BY <1>7 DEF InsertChunk
  <2>2. /\ job' \in JobRow /\ job'.kind = "index" /\ job'.build = job.build
        /\ job'.todo = job.todo \ {r}
    BY <1>1, <2>1 DEF JobRow
  <2> QED
    BY <1>1, <2>1, <2>2 DEF JobHolds
<1>8. ASSUME NEW k \in chunk, UpdateChunkSparse(k) PROVE JobHolds'
  <2>1. job' = [job EXCEPT !.kind = "weigh"] /\ UNCHANGED jobs
    BY <1>8 DEF UpdateChunkSparse
  <2>2. job' \in JobRow /\ job'.kind = "weigh" /\ job'.build = job.build
    BY <1>1, <2>1 DEF JobRow, JobKind
  <2> QED
    BY <1>1, <2>1, <2>2 DEF JobHolds
<1>9. CASE JobEnds
  <2>1. job' = [kind |-> "none", doc |-> NULL, build |-> 0, at |-> 0, todo |-> {}]
        /\ UNCHANGED jobs
    BY <1>9 DEF JobEnds, NoJob
  <2> QED
    BY <1>1, <2>1 DEF JobHolds, JobRow, JobKind
<1>10. CASE UNCHANGED <<job, control, chunk>> /\ jobs' \in {jobs, jobs + 1}
  BY <1>1, <1>10 DEF JobHolds
<1>11. \/ \E d \in Rebuilt : NormalizeDelete(d) \/ DeleteOrphanChunks(d)
       \/ InsertControl \/ ResolveControlMappings \/ DeleteChunksForControls \/ JobEnds
       \/ \E r \in control : InsertChunk(r)
       \/ \E k \in chunk : UpdateChunkSparse(k)
       \/ UNCHANGED <<job, control, chunk>> /\ jobs' \in {jobs, jobs + 1}
  BY DEF Write, UpsertControlMapping, UpsertChunkEmbedding, Seed
<1>12. Rebuilt \subseteq Doc
  BY CorpusAssumption DEF CorpusAssumption
<1> QED
  BY <1>2, <1>3, <1>4, <1>5, <1>6, <1>7, <1>8, <1>9, <1>10, <1>11, <1>12

\* Every statement of a writer keeps the tables consistent.
LEMMA WriteKeeps == ASSUME CorpusInv, Write PROVE CorpusInv'
BY WriteRows, WriteEdges, WriteCurrent, WriteJob DEF CorpusInv

\* A statement of a tool leaves the tables alone.
LEMMA ReadKeeps == ASSUME CorpusInv, UNCHANGED <<corpus, job, jobs>> PROVE CorpusInv'
BY DEF CorpusInv, Rows, Edges, OneCurrent, JobHolds, corpus

\* Consistent tables are well typed.
LEMMA CorpusTyped == CorpusInv => CorpusTypeOK
<1> SUFFICES ASSUME CorpusInv PROVE CorpusTypeOK
  OBVIOUS
<1>1. /\ server \in Servers /\ jobs \in 0..MaxJobs
      /\ \A r \in control : <<r.doc, r.n>> \in Entry /\ r.build <= jobs /\ r.build \in Nat
      /\ \A k \in chunk : k.build <= jobs /\ k.build \in Nat
      /\ vector \subseteq chunk \X Models /\ sparse \subseteq chunk
  BY DEF CorpusInv, Rows, Row, ChunkRow
<1>2. \A m \in edge : m.from \in control /\ m.to \in control \cup {NULL}
  BY DEF CorpusInv, Edges
<1>3. \A v, w \in current : v.fw = w.fw => v = w
  BY DEF CorpusInv, OneCurrent
<1>4. job.kind \in {"none", "normalize", "normalized", "chunks", "index", "weigh"}
  BY DEF CorpusInv, JobHolds, JobRow, JobKind
<1>5. \A n \in Nat : n <= jobs => n \in 0..jobs
  BY <1>1
<1> QED
  BY <1>1, <1>2, <1>3, <1>4, <1>5 DEF CorpusTypeOK

-----------------------------------------------------------------------------
(* document.                                                               *)

DocFields == {"tool", "q", "at", "calm", "error", "found", "current", "gaps", "amended",
              "parent", "children", "outbound", "inbound", "relations", "lineage", "chunks",
              "text"}

DocShape(c) ==
    /\ DOMAIN c = DocFields /\ c.tool = "document" /\ c.q \in Lookups
    /\ c.at \in 0..14 /\ c.calm \in BOOLEAN /\ c.error \in BOOLEAN

\* What the sections have read is of the row that was found.
OfOneBuild(c) == c.found # NULL =>
    /\ \A r \in c.parent \cup c.children : r.doc = c.found.doc /\ r.build = c.found.build
    /\ \A m \in c.outbound : m.from = c.found
    /\ \A m \in c.inbound : m.to = c.found
    /\ \A k \in c.chunks : k.row = c.found

Unread(c) ==
    /\ c.found = NULL
    /\ {c.gaps, c.parent, c.children, c.outbound, c.inbound, c.chunks} = {{}}

\* The rows with the citation, and those the call means.
Carrying(q) == {r \in control : Carries(q, r)}
Asked(q) == {r \in Carrying(q) : /\ VersionOf(r) \in Listed
                                 /\ q.fw # 0 => r.doc.fw = q.fw
                                 /\ q.ver # 0 => r.doc.ver = q.ver
                                 /\ q.ver = 0 => IsCurrent(r)}
Others(q, fw) == \E r \in Carrying(q) : IsCurrent(r) /\ r.doc.fw # fw

OpensAsked(c) ==
    IF Asked(c.q) = {} THEN c.found = NULL
    ELSE /\ c.found \in Asked(c.q) /\ c.current = IsCurrent(c.found)
         /\ c.found.doc.role # "main" =>
               \A r \in Asked(c.q) : r.doc.role = "main" => c.current /\ ~IsCurrent(r)

\* The two parts of the lineage of a row.
RelationsOf(r) == {Currency(v) : v \in Related(VersionOf(r))}
LineageOf(r) == {Currency(v) : v \in {v \in Listed : v.fw = r.doc.fw}}

\* What an undisturbed call knows before its step i.
Knows(c, i) ==
    /\ i > 1 => OpensAsked(c)
    /\ "no_evidence" \in c.gaps <=> i > 1 /\ Asked(c.q) = {}
    /\ "version_not_found" \in c.gaps <=>
          /\ i > 2 /\ c.found = NULL /\ c.q.ver # 0
          /\ \E r \in Carrying(c.q) : c.q.fw # 0 => r.doc.fw = c.q.fw
    /\ "found_elsewhere" \in c.gaps <=>
          i > 3 /\ c.found = NULL /\ c.q.fw # 0 /\ Others(c.q, c.q.fw)
    /\ "ambiguous_citation" \in c.gaps <=>
          i > 4 /\ c.found # NULL /\ c.q.fw = 0 /\ Others(c.q, c.found.doc.fw)
    /\ i > 5 /\ c.found # NULL => c.amended = Amendments(c.found)
    /\ i > 10 /\ c.found # NULL /\ "lineage" \in c.q.include =>
          c.relations = RelationsOf(c.found)
    /\ i > 11 /\ c.found # NULL /\ "lineage" \in c.q.include =>
          c.lineage = LineageOf(c.found)

DocFacts(c) ==
    /\ DocShape(c) /\ c.at > 0 /\ DocNeeds(DocSteps[c.at], c)
    /\ OfOneBuild(c) /\ (c.at = 1 => Unread(c))
    /\ c.calm /\ ~c.error => Knows(c, c.at)

DocInv == \A c : c = call /\ c # NULL /\ c.tool = "document" => DocFacts(c)

\* The next step is the first that the call needs.
LEMMA DocAdvanced ==
    ASSUME NEW c, DocShape(c), c.at < 14, NEW a, a = DocAdvance(c)
    PROVE  /\ DocShape(a) /\ a.at \in c.at + 1..14
           /\ \A f \in DocFields \ {"at"} : a[f] = c[f]
           /\ \A i \in c.at + 1..a.at - 1 : ~DocNeeds(DocSteps[i], c)
           /\ DocNeeds(DocSteps[a.at], a)
<1> DEFINE later == {i \in c.at + 1..Len(DocSteps) : DocNeeds(DocSteps[i], c)}
           next == CHOOSE i \in later : \A j \in later : i <= j
<1>1. Len(DocSteps) = 14 /\ DocSteps[14] = "reply" /\ c.at \in 0..13
  BY DEF DocSteps, DocShape
<1>2. 14 \in later
  BY <1>1 DEF DocNeeds
<1>3. later \in SUBSET Nat
  BY <1>1
<1>4. \A i \in c.at + 1..14 : DocNeeds(DocSteps[i], c) => i \in later
  BY <1>1
<1>5. \A i \in later : i \in c.at + 1..14
  BY <1>1
<1>6. a = [c EXCEPT !.at = next]
  BY DEF DocAdvance
<1> HIDE DEF later
<1>7. \E i \in later : \A j \in later : i <= j
  BY <1>2, <1>3, LeastNumber
<1>8. next \in later /\ \A j \in later : next <= j
  BY <1>7
<1> HIDE DEF next
<1>9. next \in c.at + 1..14
  BY <1>5, <1>8
<1>10. DOMAIN a = DocFields /\ a.at = next /\ \A f \in DocFields \ {"at"} : a[f] = c[f]
  BY <1>6 DEF DocShape, DocFields
<1>11. \A i \in c.at + 1..next - 1 : ~DocNeeds(DocSteps[i], c)
  BY <1>1, <1>3, <1>4, <1>8, <1>9
<1>12. DocShape(a)
  <2>1. a.tool = c.tool /\ a.q = c.q /\ a.calm = c.calm /\ a.error = c.error
    BY <1>10 DEF DocFields
  <2> QED
    BY <1>1, <1>9, <1>10, <2>1 DEF DocShape
<1>13. DocNeeds(DocSteps[next], c)
  BY <1>8 DEF later
<1>14. DocNeeds(DocSteps[a.at], a)
  <2>1. a.found = c.found /\ a.q = c.q
    BY <1>10 DEF DocFields
  <2> QED
    BY <1>10, <1>13, <2>1 DEF DocNeeds
<1> QED
  BY <1>9, <1>10, <1>11, <1>12, <1>14

\* A step the call does not need would tell it nothing.
LEMMA KnowsOn ==
    ASSUME NEW c, NEW i \in 2..14, NEW j \in i..14, Knows(c, i),
           \A m \in i..j - 1 : ~DocNeeds(DocSteps[m], c)
    PROVE  Knows(c, j)
<1>1. j > 2 => i > 2 \/ ~(c.found = NULL /\ c.q.ver # 0)
  BY DEF DocNeeds, DocSteps
<1>2. j > 3 => i > 3 \/ ~(c.found = NULL /\ c.q.fw # 0)
  BY DEF DocNeeds, DocSteps
<1>3. j > 4 => i > 4 \/ ~(c.found # NULL /\ c.q.fw = 0)
  BY DEF DocNeeds, DocSteps
<1>4. j > 5 => i > 5 \/ c.found = NULL
  BY DEF DocNeeds, DocSteps
<1>5. j > 10 => i > 10 \/ ~(c.found # NULL /\ "lineage" \in c.q.include)
  BY DEF DocNeeds, DocSteps
<1>6. j > 11 => i > 11 \/ ~(c.found # NULL /\ "lineage" \in c.q.include)
  BY DEF DocNeeds, DocSteps
<1>7. i > 1 /\ j > 1 /\ (i > 2 => j > 2) /\ (i > 3 => j > 3) /\ (i > 4 => j > 4)
      /\ (i > 5 => j > 5) /\ (i > 10 => j > 10) /\ (i > 11 => j > 11)
  OBVIOUS
<1> QED
  BY <1>1, <1>2, <1>3, <1>4, <1>5, <1>6, <1>7 DEF Knows

\* A key that ends in an id.
TiedBy(s, p, r) ==
    /\ s \in Seq(Int) /\ Len(s) = Len(p) + 3
    /\ s[Len(p) + 1] = r.build /\ s[Len(p) + 2] = r.doc.id /\ s[Len(p) + 3] = r.n
    /\ \A i \in 1..Len(p) : s[i] = p[i]

\* The three last numbers of such a key are the id's.
LEMMA Tied ==
    ASSUME NEW p \in Seq(Int), NEW r \in Row, NEW s, s = p \o Id(r)
    PROVE  TiedBy(s, p, r)
<1>1. r.build \in Int /\ r.doc.id \in Int /\ r.n \in Int
  BY CorpusAssumption DEF CorpusAssumption, Row
<1>6. PICK t : t = Id(r)
  OBVIOUS
<1>2. t \in Seq(Int) /\ Len(t) = 3 /\ t[1] = r.build /\ t[2] = r.doc.id /\ t[3] = r.n
  BY <1>1, <1>6 DEF Id
<1>3. s = p \o t
  BY <1>6
<1>4. Len(p) \in Nat
  BY LenProperties
<1>5. /\ s \in Seq(Int) /\ Len(s) = Len(p) + Len(t)
      /\ \A i \in 1..Len(p) : s[i] = p[i]
      /\ \A i \in 1..Len(t) : s[Len(p) + i] = t[i]
  <2>1. t \in Seq(Int)
    BY <1>2
  <2> QED
    BY <1>3, <2>1, Appended
<1> QED
  BY <1>2, <1>4, <1>5 DEF TiedBy

\* A row is known by its id.
LEMMA SameRow ==
    ASSUME NEW r \in Row, NEW s \in Row, r.build = s.build, r.doc.id = s.doc.id, r.n = s.n
    PROVE  r = s
<1>1. r.doc = s.doc
  BY CorpusAssumption DEF CorpusAssumption, Row
<1> QED
  BY <1>1 DEF Row

\* A control has the fields of its entry.
LEMMA Cited ==
    ASSUME CorpusInv, NEW r \in control
    PROVE  /\ r \in Row /\ r.doc \in Doc /\ r.doc.fw \in Nat /\ r.doc.ver \in Nat
           /\ At(r) \in ParsedRow /\ At(r).cite \in Nat
<1>1. r \in Row /\ r.doc \in Doc /\ r.n \in 1..Len(Tree[r.doc])
  BY Entries DEF CorpusInv, Rows, Row
<1>2. At(r) \in ParsedRow
  BY <1>1, Entries, ElementOfSeq DEF At
<1>3. r.doc.fw \in Nat /\ r.doc.ver \in Nat
  BY <1>1, CorpusAssumption DEF CorpusAssumption
<1> QED
  BY <1>1, <1>2, <1>3 DEF ParsedRow

\* The row that is picked is one the call means, and of the main document of a
\* current version before any other.
LEMMA PickIsMeant ==
    ASSUME CorpusInv, NEW q, NEW row, row = Pick(q)
    PROVE  IF Asked(q) = {} THEN row = <<>>
           ELSE /\ row # <<>> /\ row[1] \in Asked(q)
                /\ row[1].doc.role # "main" =>
                      \A r \in Asked(q) : r.doc.role = "main" => IsCurrent(row[1]) /\ ~IsCurrent(r)
<1> DEFINE match == Asked(q)
           lead(r) == <<Flag(IsCurrent(r)), Flag(r.doc.role = "main"), r.doc.fw, At(r).cite>>
           key == [r \in match |-> lead(r) \o Id(r)]
<1>11. PICK list : list = Ordered(match, By(match, key))
  OBVIOUS
<1>1. row = Limit(list, 1)
  <2>1. match = {r \in control : /\ Carries(q, r) /\ VersionOf(r) \in Listed
                                 /\ q.fw # 0 => r.doc.fw = q.fw
                                 /\ IF q.ver # 0 THEN r.doc.ver = q.ver ELSE IsCurrent(r)}
    BY DEF Asked, Carrying
  <2> QED
    BY <1>11, <2>1 DEF Pick
<1>2. match \in SUBSET control /\ IsFiniteSet(match)
  BY FS_Subset DEF Asked, Carrying, CorpusInv, Rows
<1> HIDE DEF match
<1>3. \A r \in match : lead(r) \in Seq(Int) /\ Len(lead(r)) = 4 /\ r \in Row
  <2> SUFFICES ASSUME NEW r \in match
               PROVE  lead(r) \in Seq(Int) /\ Len(lead(r)) = 4 /\ r \in Row
    OBVIOUS
  <2>1. Flag(IsCurrent(r)) \in Int /\ Flag(r.doc.role = "main") \in Int
    BY DEF Flag
  <2> QED
    BY <1>2, <2>1, Cited
<1>4. \A r \in match : /\ key[r] \in Seq(Int) /\ Len(key[r]) = 7
                       /\ key[r][5] = r.build /\ key[r][6] = r.doc.id /\ key[r][7] = r.n
                       /\ \A i \in 1..4 : key[r][i] = lead(r)[i]
  <2> SUFFICES ASSUME NEW r \in match
               PROVE  /\ key[r] \in Seq(Int) /\ Len(key[r]) = 7
                      /\ key[r][5] = r.build /\ key[r][6] = r.doc.id /\ key[r][7] = r.n
                      /\ \A i \in 1..4 : key[r][i] = lead(r)[i]
    OBVIOUS
  <2>1. PICK p \in Seq(Int) : p = lead(r) /\ Len(p) = 4
    BY <1>3
  <2>2. PICK s : s = key[r]
    OBVIOUS
  <2>3. s = p \o Id(r) /\ r \in Row
    BY <1>3, <2>1, <2>2
  <2> HIDE DEF key, lead
  <2>4. TiedBy(s, p, r)
    BY <2>3, Tied
  <2> QED
    BY <2>1, <2>2, <2>4 DEF TiedBy
<1>5. \A r \in match : /\ lead(r)[1] = Flag(IsCurrent(r))
                       /\ lead(r)[2] = Flag(r.doc.role = "main")
  OBVIOUS
<1> HIDE DEF lead, key
<1>6. Strict(match, By(match, key))
  <2>1. ASSUME NEW x \in match, NEW y \in match, key[x] = key[y] PROVE x = y
    <3>1. x \in Row /\ y \in Row /\ x.build = y.build /\ x.doc.id = y.doc.id /\ x.n = y.n
      BY <1>3, <1>4, <2>1
    <3> QED
      BY <3>1, SameRow
  <2>2. \A x \in match : key[x] \in Seq(Int) /\ Len(key[x]) = 7
    BY <1>4
  <2> QED
    BY <2>1, <2>2, KeysOrder
<1>7. /\ list \in Seq(match) /\ Len(list) = Cardinality(match)
      /\ \A x \in match : \E i \in 1..Len(list) : list[i] = x
      /\ \A i, j \in 1..Len(list) : i < j => <<list[i], list[j]>> \in By(match, key)
  <2>1. IsFiniteSet(match)
    BY <1>2
  <2>2. PICK R : R = By(match, key)
    OBVIOUS
  <2>3. Strict(match, R) /\ list = Ordered(match, R)
    BY <1>6, <1>11, <2>2
  <2>4. /\ list \in Seq(match) /\ Len(list) = Cardinality(match)
        /\ \A x \in match : \E i \in 1..Len(list) : list[i] = x
        /\ \A i, j \in 1..Len(list) : i < j => <<list[i], list[j]>> \in R
    BY <2>1, <2>3, OrderedLists
  <2> QED
    BY <2>2, <2>4
<1>8. /\ row \in Seq(match) /\ Len(row) <= Len(list) /\ Len(row) <= 1
      /\ Len(row) = 1 \/ Len(row) = Len(list)
      /\ \A i \in 1..Len(row) : row[i] = list[i]
  <2>1. PICK m \in Nat : m = 1
    OBVIOUS
  <2>2. list \in Seq(match)
    BY <1>7
  <2> QED
    <3>1. row = Limit(list, m)
      BY <1>1, <2>1
    <3>2. /\ row \in Seq(match) /\ Len(row) <= Len(list) /\ Len(row) <= m
          /\ Len(row) = m \/ Len(row) = Len(list)
          /\ \A i \in 1..Len(row) : row[i] = list[i]
      BY <2>2, <3>1, LimitLists
    <3> QED
      BY <2>1, <3>2
<1>9. CASE match = {}
  <2>1. Len(list) = 0
    BY <1>7, <1>9, FS_EmptySet
  <2> QED
    BY <1>8, <1>9, <2>1 DEF match
<1>10. CASE match # {}
  <2>1. Cardinality(match) \in Nat \ {0}
    BY <1>2, <1>10, FS_EmptySet, FS_CardinalityType
  <2>2. Len(row) = 1 /\ row # <<>> /\ row[1] = list[1] /\ list[1] \in match
    <3>1. Len(list) \in Nat \ {0} /\ Len(row) \in Nat
      BY <1>7, <1>8, <2>1, LenProperties
    <3>2. Len(row) = 1
      <4>1. (Len(row) = 1 \/ Len(row) = Len(list)) /\ Len(row) <= 1
        BY <1>8
      <4> QED
        BY <3>1, <4>1
    <3>3. row # <<>> /\ row[1] = list[1]
      BY <1>8, <3>2
    <3> QED
      BY <1>7, <3>1, <3>2, <3>3, ElementOfSeq
  <2>3. \A r \in match : r # list[1] => <<list[1], r>> \in By(match, key)
    BY <1>7, <2>1
  <2>4. ASSUME list[1].doc.role # "main", NEW r \in match, r.doc.role = "main"
        PROVE  IsCurrent(list[1]) /\ ~IsCurrent(r)
    <3>1. Precedes(key[list[1]], key[r])
      BY <2>2, <2>3, <2>4 DEF By
    <3>2. /\ key[list[1]][1] = Flag(IsCurrent(list[1])) /\ key[r][1] = Flag(IsCurrent(r))
          /\ key[list[1]][2] = 1 /\ key[r][2] = 0 /\ Len(key[list[1]]) = 7
      <4>1. \A x \in match : /\ key[x][1] = Flag(IsCurrent(x)) /\ Len(key[x]) = 7
                             /\ key[x][2] = Flag(x.doc.role = "main")
        <5> SUFFICES ASSUME NEW x \in match
                     PROVE  /\ key[x][1] = Flag(IsCurrent(x)) /\ Len(key[x]) = 7
                            /\ key[x][2] = Flag(x.doc.role = "main")
          OBVIOUS
        <5>1. Len(key[x]) = 7 /\ \A i \in 1..4 : key[x][i] = lead(x)[i]
          BY <1>4
        <5> QED
          BY <1>5, <5>1
      <4>2. Flag(list[1].doc.role = "main") = 1 /\ Flag(r.doc.role = "main") = 0
        BY <2>4 DEF Flag
      <4> QED
        BY <2>2, <4>1, <4>2
    <3>3. key[list[1]][1] < key[r][1]
      <4>1. PICK i \in 1..7 : /\ key[list[1]][i] < key[r][i]
                              /\ \A j \in 1..i - 1 : key[list[1]][j] = key[r][j]
        BY <3>1, <3>2 DEF Precedes
      <4>2. i # 2
        BY <3>2, <4>1
      <4>3. ~ (i > 2)
        BY <3>2, <4>1
      <4> QED
        BY <4>1, <4>2, <4>3
    <3> QED
      BY <3>2, <3>3 DEF Flag
  <2> QED
    BY <1>10, <2>2, <2>4 DEF match
<1> QED
  BY <1>9, <1>10

\* A call whose step has done its part.
Fit(c) ==
    /\ DocShape(c) /\ c.at \in 1..13 /\ OfOneBuild(c)
    /\ c.calm /\ ~c.error => Knows(c, c.at + 1)

\* A call that has done its step knows at the next one all it has to know there.
LEMMA DocGoesOn ==
    ASSUME NEW c, Fit(c), NEW a, a = DocAdvance(c)
    PROVE  DocFacts(a)
<1>1. DocShape(c) /\ c.at \in 1..13
  BY DEF Fit
<1>2. /\ DocShape(a) /\ a.at \in c.at + 1..14
      /\ \A f \in DocFields \ {"at"} : a[f] = c[f]
      /\ \A i \in c.at + 1..a.at - 1 : ~DocNeeds(DocSteps[i], c)
      /\ DocNeeds(DocSteps[a.at], a)
  BY <1>1, DocAdvanced
<1>3. a.at \in 2..14
  BY <1>1, <1>2
<1>4. /\ a.q = c.q /\ a.calm = c.calm /\ a.error = c.error /\ a.found = c.found
      /\ a.current = c.current /\ a.gaps = c.gaps /\ a.amended = c.amended
      /\ a.parent = c.parent /\ a.children = c.children /\ a.outbound = c.outbound
      /\ a.inbound = c.inbound /\ a.relations = c.relations /\ a.lineage = c.lineage
      /\ a.chunks = c.chunks
  BY <1>2 DEF DocFields
<1>5. OfOneBuild(a)
  BY <1>4 DEF Fit, OfOneBuild
<1>6. ASSUME a.calm, ~a.error PROVE Knows(a, a.at)
  <2>1. PICK i \in 2..14 : i = c.at + 1
    BY <1>1
  <2>2. PICK j \in i..14 : j = a.at
    BY <1>2, <2>1
  <2>3. Knows(c, i)
    BY <1>4, <1>6, <2>1 DEF Fit
  <2>4. Knows(c, j)
    BY <1>2, <2>1, <2>2, <2>3, KnowsOn
  <2>5. Knows(a, j)
    BY <1>4, <2>4 DEF Knows, OpensAsked
  <2> QED
    BY <2>2, <2>5
<1> QED
  BY <1>2, <1>3, <1>5, <1>6 DEF DocFacts

\* No row is NULL.
LEMMA NotRow == NULL \notin Row
BY CorpusAssumption DEF CorpusAssumption, Row

\* What findControl leaves is known: the row that is meant, or a miss.
LEMMA FindFits ==
    ASSUME CorpusInv, NEW c, DocFacts(c), c.at = 1, NEW row, row = Pick(c.q), NEW d,
           d = IF row = <<>> THEN [c EXCEPT !.gaps = {"no_evidence"}]
               ELSE [c EXCEPT !.found = row[1], !.current = IsCurrent(row[1])]
    PROVE  Fit(d)
<1>1. DocShape(c) /\ Unread(c)
  BY DEF DocFacts
<1>2. PICK q : q = c.q
  OBVIOUS
<1>3. IF Asked(q) = {} THEN row = <<>>
      ELSE /\ row # <<>> /\ row[1] \in Asked(q)
           /\ row[1].doc.role # "main" =>
                 \A r \in Asked(q) : r.doc.role = "main" => IsCurrent(row[1]) /\ ~IsCurrent(r)
  BY <1>2, PickIsMeant
<1>4. CASE Asked(q) = {}
  <2>1. d = [c EXCEPT !.gaps = {"no_evidence"}]
    BY <1>3, <1>4
  <2>2. /\ DocShape(d) /\ d.at = 1 /\ d.q = q /\ d.found = NULL /\ d.gaps = {"no_evidence"}
    BY <1>1, <1>2, <2>1 DEF DocShape, DocFields, Unread
  <2>3. Knows(d, 2)
    BY <1>4, <2>2 DEF Knows, OpensAsked
  <2>4. OfOneBuild(d)
    BY <2>2 DEF OfOneBuild
  <2> QED
    BY <2>2, <2>3, <2>4 DEF Fit
<1>5. CASE Asked(q) # {}
  <2>1. d = [c EXCEPT !.found = row[1], !.current = IsCurrent(row[1])]
    BY <1>3, <1>5
  <2>2. /\ DocShape(d) /\ d.at = 1 /\ d.q = q /\ d.found = row[1]
        /\ d.current = IsCurrent(row[1]) /\ d.gaps = {}
        /\ d.parent = {} /\ d.children = {} /\ d.outbound = {} /\ d.inbound = {}
        /\ d.chunks = {}
    <3>1. /\ c.gaps = {} /\ c.parent = {} /\ c.children = {} /\ c.outbound = {}
          /\ c.inbound = {} /\ c.chunks = {}
      BY <1>1 DEF Unread
    <3> QED
      BY <1>1, <1>2, <2>1, <3>1 DEF DocShape, DocFields
  <2>3. row[1] # NULL
    <3>1. row[1] \in Row
      BY <1>3, <1>5 DEF Asked, Carrying, CorpusInv, Rows
    <3> QED
      BY <3>1, NotRow
  <2>4. OpensAsked(d)
    BY <1>3, <1>5, <2>2 DEF OpensAsked
  <2>5. Knows(d, 2)
    BY <1>5, <2>2, <2>3, <2>4 DEF Knows
  <2>6. OfOneBuild(d)
    BY <2>2 DEF OfOneBuild
  <2> QED
    BY <2>2, <2>5, <2>6 DEF Fit
<1> QED
  BY <1>4, <1>5

\* The three diagnostics.
LEMMA TellFits ==
    ASSUME NEW c, DocFacts(c), NEW kind, NEW rows, NEW d,
           d = [c EXCEPT !.gaps = @ \cup IF rows = {} THEN {} ELSE {kind}],
           \/ /\ c.at = 2 /\ kind = "version_not_found"
              /\ rows = {r \in control : /\ Carries(c.q, r)
                                         /\ (c.q.fw # 0 => r.doc.fw = c.q.fw)}
           \/ /\ c.at = 3 /\ kind = "found_elsewhere"
              /\ rows = citationFrameworks(c.q, c.q.fw)
           \/ /\ c.at = 4 /\ kind = "ambiguous_citation"
              /\ rows = citationFrameworks(c.q, c.found.doc.fw)
    PROVE  Fit(d)
<1>1. DocShape(c) /\ OfOneBuild(c) /\ DocNeeds(DocSteps[c.at], c)
  BY DEF DocFacts
<1>2. DocShape(d) /\ \A f \in DocFields \ {"gaps"} : d[f] = c[f]
  BY <1>1 DEF DocShape, DocFields
<1>3. d.gaps = c.gaps \cup IF rows = {} THEN {} ELSE {kind}
  BY <1>1 DEF DocShape, DocFields
<1>4. /\ d.at = c.at /\ d.q = c.q /\ d.calm = c.calm /\ d.error = c.error /\ d.found = c.found
      /\ d.current = c.current /\ d.amended = c.amended
      /\ d.parent = c.parent /\ d.children = c.children /\ d.outbound = c.outbound
      /\ d.inbound = c.inbound /\ d.relations = c.relations /\ d.lineage = c.lineage
      /\ d.chunks = c.chunks
  BY <1>2 DEF DocFields
<1>5. OfOneBuild(d)
  BY <1>1, <1>4 DEF OfOneBuild
<1>6. ASSUME d.calm, ~d.error PROVE Knows(d, d.at + 1)
  <2>1. Knows(c, c.at)
    BY <1>4, <1>6 DEF DocFacts
  <2>2. CASE c.at = 2
    <3>1. c.found = NULL /\ c.q.ver # 0
      BY <1>1, <2>2 DEF DocNeeds, DocSteps
    <3>2. kind = "version_not_found"
          /\ (rows # {} <=> \E r \in Carrying(c.q) : c.q.fw # 0 => r.doc.fw = c.q.fw)
      BY <2>2 DEF Carrying
    <3> QED
      BY <1>3, <1>4, <2>1, <2>2, <3>1, <3>2 DEF Knows, OpensAsked
  <2>3. CASE c.at = 3
    <3>1. c.found = NULL /\ c.q.fw # 0
      BY <1>1, <2>3 DEF DocNeeds, DocSteps
    <3>2. kind = "found_elsewhere" /\ (rows # {} <=> Others(c.q, c.q.fw))
      BY <2>3 DEF Carrying, Others, citationFrameworks
    <3> QED
      BY <1>3, <1>4, <2>1, <2>3, <3>1, <3>2 DEF Knows, OpensAsked
  <2>4. CASE c.at = 4
    <3>1. c.found # NULL /\ c.q.fw = 0
      BY <1>1, <2>4 DEF DocNeeds, DocSteps
    <3>2. kind = "ambiguous_citation" /\ (rows # {} <=> Others(c.q, c.found.doc.fw))
      BY <2>4 DEF Carrying, Others, citationFrameworks
    <3> QED
      BY <1>3, <1>4, <2>1, <2>4, <3>1, <3>2 DEF Knows, OpensAsked
  <2> QED
    BY <2>2, <2>3, <2>4
<1> QED
  BY <1>2, <1>4, <1>5, <1>6 DEF Fit

\* The sections: what each reads belongs to the row that was found.
LEMMA SectionFits ==
    ASSUME CorpusInv, NEW c, DocFacts(c), c.at \in 5..13, NEW f, NEW v,
           NEW d, d = [c EXCEPT ![f] = v],
           \/ c.at = 5 /\ f = "amended" /\ v = Amendments(c.found)
           \/ /\ c.at = 6 /\ f = "parent"
              /\ v = IF c.found \in control THEN Parent(c.found) ELSE {}
           \/ c.at = 7 /\ f = "children" /\ v = Children(c.found)
           \/ c.at = 8 /\ f = "outbound" /\ v = {m \in edge : m.from = c.found}
           \/ c.at = 9 /\ f = "inbound" /\ v = {m \in edge : m.to = c.found}
           \/ /\ c.at = 10 /\ f = "relations"
              /\ v = RelationsOf(c.found)
           \/ /\ c.at = 11 /\ f = "lineage"
              /\ v = LineageOf(c.found)
           \/ c.at = 13 /\ f = "text"
    PROVE  Fit(d)
<1>1. DocShape(c) /\ OfOneBuild(c) /\ DocNeeds(DocSteps[c.at], c)
  BY DEF DocFacts
<1>2. f \in DocFields \ {"tool", "q", "at", "calm", "error", "found", "current", "gaps", "chunks"}
  BY DEF DocFields
<1>3. DocShape(d) /\ d[f] = v /\ \A g \in DocFields \ {f} : d[g] = c[g]
  BY <1>1, <1>2 DEF DocShape, DocFields
<1>4. /\ d.at = c.at /\ d.q = c.q /\ d.calm = c.calm /\ d.error = c.error /\ d.found = c.found
      /\ d.current = c.current /\ d.gaps = c.gaps /\ d.chunks = c.chunks
  BY <1>2, <1>3 DEF DocFields
<1>5. /\ f # "amended" => d.amended = c.amended
      /\ f # "parent" => d.parent = c.parent
      /\ f # "children" => d.children = c.children
      /\ f # "outbound" => d.outbound = c.outbound
      /\ f # "inbound" => d.inbound = c.inbound
      /\ f # "relations" => d.relations = c.relations
      /\ f # "lineage" => d.lineage = c.lineage
  BY <1>3 DEF DocFields
<1>6. OfOneBuild(d)
  <2> SUFFICES ASSUME c.found # NULL PROVE OfOneBuild(d)
    BY <1>4 DEF OfOneBuild
  <2>1. /\ \A r \in d.parent : r.doc = c.found.doc /\ r.build = c.found.build
        /\ \A r \in d.children : r.doc = c.found.doc /\ r.build = c.found.build
    <3>1. \A r, s \in control : r.doc = s.doc => r.build = s.build
      BY DEF CorpusInv, Rows
    <3>2. \A r \in d.parent : r.doc = c.found.doc /\ r.build = c.found.build
      BY <1>1, <1>3, <1>5, <3>1 DEF OfOneBuild, Parent
    <3>3. \A r \in d.children : r.doc = c.found.doc /\ r.build = c.found.build
      BY <1>1, <1>3, <1>5, <3>1 DEF OfOneBuild, Parent, Children
    <3> QED
      BY <3>2, <3>3
  <2>2. /\ \A m \in d.outbound : m.from = c.found
        /\ \A m \in d.inbound : m.to = c.found
    BY <1>1, <1>3, <1>5 DEF OfOneBuild
  <2> QED
    BY <1>1, <1>4, <2>1, <2>2 DEF OfOneBuild
<1>7. ASSUME d.calm, ~d.error PROVE Knows(d, d.at + 1)
  <2>1. Knows(c, c.at) /\ c.at \in 5..13
    BY <1>4, <1>7 DEF DocFacts
  <2>2. /\ c.at + 1 > 5 /\ c.found # NULL => d.amended = Amendments(d.found)
        /\ c.at + 1 > 10 /\ c.found # NULL /\ "lineage" \in c.q.include =>
              d.relations = RelationsOf(d.found)
    BY <1>3, <1>4, <1>5, <2>1 DEF Knows
  <2>3. c.at + 1 > 11 /\ c.found # NULL /\ "lineage" \in c.q.include =>
           d.lineage = LineageOf(d.found)
    <3>1. CASE c.at = 11
      BY <1>3, <1>4, <3>1
    <3>2. CASE c.at # 11
      BY <1>3, <1>4, <1>5, <2>1, <3>2 DEF Knows
    <3> QED
      BY <3>1, <3>2
  <2>4. OpensAsked(d) <=> OpensAsked(c)
    BY <1>4 DEF OpensAsked
  <2>5. c.at > 4 /\ d.at + 1 > 4
    BY <1>4, <2>1
  <2> QED
    BY <1>4, <2>1, <2>2, <2>3, <2>4, <2>5 DEF Knows
<1> QED
  BY <1>3, <1>4, <1>6, <1>7 DEF Fit

\* The chunks are read of the row that was found.
LEMMA ChunksFit ==
    ASSUME NEW c, DocFacts(c), c.at = 12, NEW rows, rows = {k \in chunk : k.row = c.found},
           NEW d, d = [c EXCEPT !.chunks = rows,
                          !.gaps = @ \cup IF rows = {} THEN {"no_chunks"} ELSE {}]
    PROVE  Fit(d)
<1>1. DocShape(c) /\ OfOneBuild(c)
  BY DEF DocFacts
<1>2. /\ DocShape(d) /\ d.chunks = rows
      /\ d.gaps = c.gaps \cup IF rows = {} THEN {"no_chunks"} ELSE {}
      /\ d.at = c.at /\ d.q = c.q /\ d.calm = c.calm /\ d.error = c.error /\ d.found = c.found
      /\ d.current = c.current /\ d.amended = c.amended
      /\ d.parent = c.parent /\ d.children = c.children /\ d.outbound = c.outbound
      /\ d.inbound = c.inbound /\ d.relations = c.relations /\ d.lineage = c.lineage
  BY <1>1 DEF DocShape, DocFields
<1>3. OfOneBuild(d)
  BY <1>1, <1>2 DEF OfOneBuild
<1>4. ASSUME d.calm, ~d.error PROVE Knows(d, d.at + 1)
  <2>1. Knows(c, 12)
    BY <1>2, <1>4 DEF DocFacts
  <2> QED
    BY <1>2, <2>1 DEF Knows, OpensAsked
<1> QED
  BY <1>2, <1>3, <1>4 DEF Fit

\* A failed diagnostic costs only the calm.
LEMMA DiagnosticFits ==
    ASSUME NEW c, DocFacts(c), c.at \in 1..13, NEW d, d = [c EXCEPT !.calm = FALSE]
    PROVE  Fit(d)
<1>1. DocShape(c) /\ OfOneBuild(c)
  BY DEF DocFacts
<1>2. /\ DocShape(d) /\ ~d.calm /\ d.at = c.at /\ d.found = c.found
      /\ d.parent = c.parent /\ d.children = c.children /\ d.outbound = c.outbound
      /\ d.inbound = c.inbound /\ d.chunks = c.chunks
  BY <1>1 DEF DocShape, DocFields
<1> QED
  BY <1>1, <1>2 DEF Fit, OfOneBuild

\* A statement of a tool does not change what a call knows.
LEMMA FactsStand ==
    ASSUME UNCHANGED corpus, NEW c, DocFacts(c)
    PROVE  DocFacts(c)'
<1>1. UNCHANGED <<control, current>>
  BY DEF corpus
<1>2. DocShape(c)' /\ OfOneBuild(c)' /\ (c.at = 1 => Unread(c))' /\ DocNeeds(DocSteps[c.at], c)'
  BY DEF DocFacts, DocShape, OfOneBuild, Unread, DocNeeds, DocFields
<1>3. Knows(c, c.at) => Knows(c, c.at)'
  <2>1. \A q : Carrying(q)' = Carrying(q)
    BY <1>1 DEF Carrying, Carries, At
  <2>2. \A r : IsCurrent(r)' <=> IsCurrent(r)
    BY <1>1 DEF IsCurrent, VersionOf
  <2>3. \A q : Asked(q)' = Asked(q)
    BY <2>1, <2>2 DEF Asked
  <2>4. \A q, fw : Others(q, fw)' <=> Others(q, fw)
    BY <2>1, <2>2 DEF Others
  <2>5. \A r : Amendments(r)' = Amendments(r)
    BY <1>1 DEF Amendments, VersionOf, At
  <2>6. \A v : Currency(v)' = Currency(v)
    BY <1>1 DEF Currency
  <2>7. OpensAsked(c)' <=> OpensAsked(c)
    <3>1. IsCurrent(c.found)' = IsCurrent(c.found)
      BY <1>1 DEF IsCurrent, VersionOf
    <3> QED
      BY <2>2, <2>3, <3>1 DEF OpensAsked
  <2>8. \A r : RelationsOf(r)' = RelationsOf(r) /\ LineageOf(r)' = LineageOf(r)
    BY <2>6 DEF RelationsOf, LineageOf
  <2> QED
    BY <2>1, <2>3, <2>4, <2>5, <2>7, <2>8 DEF Knows
<1> QED
  BY <1>2, <1>3 DEF DocFacts

\* A document call continues with what it knows.
LEMMA Continued == ASSUME NEW d, Fit(d), DocContinue(d) PROVE DocInv'
<1> SUFFICES ASSUME NEW c, c = call' PROVE DocFacts(c)'
  BY DEF DocInv
<1>1. c = DocAdvance(d) /\ UNCHANGED <<corpus, job, jobs>>
  BY DEF DocContinue
<1>2. DocFacts(c)
  BY <1>1, DocGoesOn
<1> QED
  BY <1>1, <1>2, FactsStand

\* Without a document call there is nothing to know.
LEMMA NoDocument == ASSUME call' = NULL \/ call'.tool # "document" PROVE DocInv'
BY DEF DocInv

\* A new call knows nothing and starts with findControl.
LEMMA StartFits == ASSUME NEW q \in Lookups, NEW a, a = DocAdvance(NewLookup(q)) PROVE DocFacts(a)
<1>1. PICK c : c = NewLookup(q)
  OBVIOUS
<1>2. /\ DocShape(c) /\ c.at = 0 /\ c.found = NULL
      /\ c.gaps = {} /\ c.parent = {} /\ c.children = {} /\ c.outbound = {}
      /\ c.inbound = {} /\ c.chunks = {}
  BY <1>1 DEF NewLookup, DocShape, DocFields
<1>3. /\ DocShape(a) /\ a.at \in 1..14
      /\ \A f \in DocFields \ {"at"} : a[f] = c[f]
      /\ \A i \in 1..a.at - 1 : ~DocNeeds(DocSteps[i], c)
      /\ DocNeeds(DocSteps[a.at], a)
  <2>1. c.at < 14 /\ a = DocAdvance(c)
    BY <1>1, <1>2
  <2>2. c.at + 1 = 1
    BY <1>2
  <2> QED
    BY <1>2, <2>1, <2>2, DocAdvanced
<1>4. DocNeeds(DocSteps[1], c)
  BY DEF DocNeeds, DocSteps
<1>5. a.at = 1
  BY <1>3, <1>4
<1>6. /\ a.found = NULL
      /\ a.gaps = {} /\ a.parent = {} /\ a.children = {} /\ a.outbound = {}
      /\ a.inbound = {} /\ a.chunks = {}
  BY <1>2, <1>3 DEF DocFields
<1>7. OfOneBuild(a) /\ Unread(a) /\ Knows(a, 1)
  BY <1>6 DEF OfOneBuild, Unread, Knows
<1> QED
  BY <1>3, <1>5, <1>7 DEF DocFacts

\* Each step has a number of its own.
LEMMA StepNumber ==
    ASSUME DocInv, Looking, NEW c, c = call
    PROVE  /\ DocFacts(c) /\ DocShape(c) /\ c.at \in 1..14
           /\ \A i \in 1..14 : DocAt(DocSteps[i]) => c.at = i
<1>1. DocFacts(c)
  BY DEF DocInv, Looking
<1>2. DocShape(c) /\ c.at \in 1..14
  BY <1>1 DEF DocFacts, DocShape
<1>3. \A i, j \in 1..14 : DocSteps[i] = DocSteps[j] => i = j
  BY DEF DocSteps
<1> QED
  BY <1>1, <1>2, <1>3 DEF DocAt

\* Every statement of the document tool keeps what its call knows.
LEMMA DocumentReads == ASSUME CorpusInv, DocInv, DocumentNext PROVE DocInv'
<1>1. ASSUME NEW q \in Lookups, DocumentStart(q) PROVE DocInv'
  <2> SUFFICES ASSUME NEW c, c = call' PROVE DocFacts(c)'
    BY DEF DocInv
  <2>1. c = DocAdvance(NewLookup(q)) /\ UNCHANGED <<corpus, job, jobs>>
    BY <1>1 DEF DocumentStart, DocContinue
  <2> QED
    BY <2>1, StartFits, FactsStand
<1>2. CASE CorpusStatus \/ StatusReturn \/ DocumentReturn
  BY <1>2, NoDocument DEF CorpusStatus, StatusReturn, DocumentReturn
<1>3. ASSUME Looking, ~(CorpusStatus \/ StatusReturn \/ DocumentReturn),
             ~ \E q \in Lookups : DocumentStart(q)
      PROVE  DocInv'
  <2>1. PICK c : c = call
    OBVIOUS
  <2>2. /\ DocFacts(c) /\ DocShape(c) /\ c.at \in 1..14
        /\ \A i \in 1..14 : DocAt(DocSteps[i]) => c.at = i
    BY <1>3, <2>1, StepNumber
  <2>3. CASE findControl
    <3>1. c.at = 1
      BY <2>2, <2>3 DEF findControl, DocSteps
    <3>2. PICK row : row = Pick(c.q)
      OBVIOUS
    <3>3. PICK d : d = IF row = <<>> THEN [c EXCEPT !.gaps = {"no_evidence"}]
                       ELSE [c EXCEPT !.found = row[1], !.current = IsCurrent(row[1])]
      OBVIOUS
    <3>4. DocContinue(d)
      BY <2>1, <2>3, <3>2, <3>3 DEF findControl, DocContinue
    <3> QED
      BY <2>2, <3>1, <3>2, <3>3, <3>4, FindFits, Continued
  <2>4. ASSUME NEW kind, NEW rows, Tell(kind, rows),
               \/ /\ c.at = 2 /\ kind = "version_not_found"
                  /\ rows = {r \in control : /\ Carries(c.q, r)
                                             /\ (c.q.fw # 0 => r.doc.fw = c.q.fw)}
               \/ /\ c.at = 3 /\ kind = "found_elsewhere"
                  /\ rows = citationFrameworks(c.q, c.q.fw)
               \/ /\ c.at = 4 /\ kind = "ambiguous_citation"
                  /\ rows = citationFrameworks(c.q, c.found.doc.fw)
        PROVE  DocInv'
    <3>1. PICK d : d = [c EXCEPT !.gaps = @ \cup IF rows = {} THEN {} ELSE {kind}]
      OBVIOUS
    <3>2. DocContinue(d)
      BY <2>1, <2>4, <3>1 DEF Tell, DocContinue
    <3>3. Fit(d)
      BY <2>2, <2>4, <3>1, TellFits
    <3> QED
      BY <3>2, <3>3, Continued
  <2>5. CASE citationVersions
    <3>1. c.at = 2
      BY <2>2, <2>5 DEF citationVersions, DocSteps
    <3>2. PICK rows : rows = {r \in control : /\ Carries(c.q, r)
                                              /\ (c.q.fw # 0 => r.doc.fw = c.q.fw)}
      OBVIOUS
    <3>3. Tell("version_not_found", rows)
      BY <2>1, <2>5, <3>2 DEF citationVersions, Tell, DocContinue
    <3> QED
      BY <2>4, <3>1, <3>2, <3>3
  <2>6. CASE FoundElsewhere
    <3>1. c.at = 3
      BY <2>2, <2>6 DEF FoundElsewhere, DocSteps
    <3>2. PICK rows : rows = citationFrameworks(c.q, c.q.fw)
      OBVIOUS
    <3>3. Tell("found_elsewhere", rows)
      BY <2>1, <2>6, <3>2 DEF FoundElsewhere, Tell, DocContinue
    <3> QED
      BY <2>4, <3>1, <3>2, <3>3
  <2>7. CASE AmbiguousCitation
    <3>1. c.at = 4
      BY <2>2, <2>7 DEF AmbiguousCitation, DocSteps
    <3>2. PICK rows : rows = citationFrameworks(c.q, c.found.doc.fw)
      OBVIOUS
    <3>3. Tell("ambiguous_citation", rows)
      BY <2>1, <2>7, <3>2 DEF AmbiguousCitation, Tell, DocContinue
    <3> QED
      BY <2>4, <3>1, <3>2, <3>3
  <2>8. ASSUME NEW i \in 5..13, NEW f, NEW v, c.at = i, DocContinue([call EXCEPT ![f] = v]),
               \/ i = 5 /\ f = "amended" /\ v = Amendments(c.found)
               \/ /\ i = 6 /\ f = "parent"
                  /\ v = IF c.found \in control THEN Parent(c.found) ELSE {}
               \/ i = 7 /\ f = "children" /\ v = Children(c.found)
               \/ i = 8 /\ f = "outbound" /\ v = {m \in edge : m.from = c.found}
               \/ i = 9 /\ f = "inbound" /\ v = {m \in edge : m.to = c.found}
               \/ /\ i = 10 /\ f = "relations"
                  /\ v = RelationsOf(c.found)
               \/ /\ i = 11 /\ f = "lineage"
                  /\ v = LineageOf(c.found)
               \/ i = 13 /\ f = "text"
        PROVE  DocInv'
    <3>1. PICK d : d = [c EXCEPT ![f] = v]
      OBVIOUS
    <3>2. DocContinue(d)
      BY <2>1, <2>8, <3>1 DEF DocContinue
    <3>3. Fit(d)
      BY <2>2, <2>8, <3>1, SectionFits
    <3> QED
      BY <3>2, <3>3, Continued
  <2>9. CASE controlAmendments
    <3>1. c.at = 5
      BY <2>2, <2>9 DEF controlAmendments, DocSteps
    <3>2. PICK v : v = Amendments(c.found)
      OBVIOUS
    <3>3. DocContinue([call EXCEPT !["amended"] = v])
      BY <2>1, <2>9, <3>2 DEF controlAmendments, DocContinue
    <3> QED
      BY <2>8, <3>1, <3>2, <3>3
  <2>10. CASE controlParent
    <3>1. c.at = 6
      BY <2>2, <2>10 DEF controlParent, DocSteps
    <3>2. PICK v : v = IF c.found \in control THEN Parent(c.found) ELSE {}
      OBVIOUS
    <3>3. DocContinue([call EXCEPT !["parent"] = v])
      BY <2>1, <2>10, <3>2 DEF controlParent, DocContinue
    <3> QED
      BY <2>8, <3>1, <3>2, <3>3
  <2>11. CASE controlChildren
    <3>1. c.at = 7
      BY <2>2, <2>11 DEF controlChildren, DocSteps
    <3>2. PICK v : v = Children(c.found)
      OBVIOUS
    <3>3. DocContinue([call EXCEPT !["children"] = v])
      BY <2>1, <2>11, <3>2 DEF controlChildren, DocContinue
    <3> QED
      BY <2>8, <3>1, <3>2, <3>3
  <2>12. CASE outboundMappings
    <3>1. c.at = 8
      BY <2>2, <2>12 DEF outboundMappings, DocSteps
    <3>2. PICK v : v = {m \in edge : m.from = c.found}
      OBVIOUS
    <3>3. DocContinue([call EXCEPT !["outbound"] = v])
      BY <2>1, <2>12, <3>2 DEF outboundMappings, DocContinue
    <3> QED
      BY <2>8, <3>1, <3>2, <3>3
  <2>13. CASE inboundMappings
    <3>1. c.at = 9
      BY <2>2, <2>13 DEF inboundMappings, DocSteps
    <3>2. PICK v : v = {m \in edge : m.to = c.found}
      OBVIOUS
    <3>3. DocContinue([call EXCEPT !["inbound"] = v])
      BY <2>1, <2>13, <3>2 DEF inboundMappings, DocContinue
    <3> QED
      BY <2>8, <3>1, <3>2, <3>3
  <2>14. CASE versionRelations
    <3>1. c.at = 10
      BY <2>2, <2>14 DEF versionRelations, DocSteps
    <3>2. PICK v : v = RelationsOf(c.found)
      OBVIOUS
    <3>3. DocContinue([call EXCEPT !["relations"] = v])
      BY <2>1, <2>14, <3>2 DEF versionRelations, RelationsOf, DocContinue
    <3> QED
      BY <2>8, <3>1, <3>2, <3>3
  <2>15. CASE versionLineage
    <3>1. c.at = 11
      BY <2>2, <2>15 DEF versionLineage, DocSteps
    <3>2. PICK v : v = LineageOf(c.found)
      OBVIOUS
    <3>3. DocContinue([call EXCEPT !["lineage"] = v])
      BY <2>1, <2>15, <3>2 DEF versionLineage, LineageOf, DocContinue
    <3>4. PICK i \in 5..13 : i = 11
      OBVIOUS
    <3> QED
      BY <2>8, <3>1, <3>2, <3>3, <3>4
  <2>16. CASE controlChunks
    <3>1. c.at = 12
      BY <2>2, <2>16 DEF controlChunks, DocSteps
    <3>2. PICK rows : rows = {k \in chunk : k.row = c.found}
      OBVIOUS
    <3>3. PICK d : d = [c EXCEPT !.chunks = rows,
                           !.gaps = @ \cup IF rows = {} THEN {"no_chunks"} ELSE {}]
      OBVIOUS
    <3>4. DocContinue(d)
      BY <2>1, <2>16, <3>2, <3>3 DEF controlChunks, DocContinue
    <3>5. Fit(d)
      BY <2>2, <3>1, <3>2, <3>3, ChunksFit
    <3> QED
      BY <3>4, <3>5, Continued
  <2>17. CASE ProjectDocument
    <3>1. c.at = 13
      BY <2>2, <2>17 DEF ProjectDocument, DocSteps
    <3>2. PICK v : v = IF server.reduced \/ c.found = NULL THEN {}
                       ELSE {c.found} \cup c.amended \cup {k.row : k \in c.chunks}
      OBVIOUS
    <3>3. DocContinue([call EXCEPT !["text"] = v])
      BY <2>1, <2>17, <3>2 DEF ProjectDocument, DocContinue
    <3> QED
      BY <2>8, <3>1, <3>3
  <2>18. CASE DiagnosticFails
    <3>1. c.at \in 1..13
      BY <2>1, <2>2, <2>18 DEF DiagnosticFails, Diagnostics, DocSteps
    <3>2. PICK d : d = [c EXCEPT !.calm = FALSE]
      OBVIOUS
    <3>3. DocContinue(d)
      BY <2>1, <2>18, <3>2 DEF DiagnosticFails, DocContinue
    <3> QED
      BY <2>2, <3>1, <3>2, <3>3, DiagnosticFits, Continued
  <2>19. CASE DocumentFails
    <3> SUFFICES ASSUME NEW d, d = call' PROVE DocFacts(d)'
      BY DEF DocInv
    <3>1. d = [NewLookup(c.q) EXCEPT !.at = Len(DocSteps), !.error = TRUE]
          /\ UNCHANGED <<corpus, job, jobs>>
      BY <2>1, <2>19 DEF DocumentFails
    <3>2. /\ DocShape(d) /\ d.at = 14 /\ d.error /\ d.found = NULL
      BY <2>2, <3>1 DEF NewLookup, DocShape, DocFields, DocSteps
    <3>3. DocNeeds(DocSteps[14], d)
      BY DEF DocNeeds, DocSteps
    <3>4. DocFacts(d)
      BY <3>2, <3>3 DEF DocFacts, OfOneBuild
    <3> QED
      BY <3>1, <3>4, FactsStand
  <2> QED
    BY <1>3, <2>3, <2>5, <2>6, <2>7, <2>9, <2>10, <2>11, <2>12, <2>13, <2>14, <2>15, <2>16,
       <2>17, <2>18, <2>19 DEF DocumentNext
<1>4. \/ Looking \/ CorpusStatus \/ StatusReturn \/ \E q \in Lookups : DocumentStart(q)
  BY DEF DocumentNext, findControl, citationVersions, FoundElsewhere, AmbiguousCitation,
     controlAmendments, controlParent, controlChildren, outboundMappings, inboundMappings,
     versionRelations, versionLineage, controlChunks, ProjectDocument, DiagnosticFails,
     DocumentFails, DocumentReturn, DocAt
<1> QED
  BY <1>1, <1>2, <1>3, <1>4

\* A write in between leaves a call that is no longer calm, with what it has read.
LEMMA DocumentDisturbed == ASSUME CorpusInv, DocInv, Write PROVE DocInv'
<1> SUFFICES ASSUME NEW c, c = call', c # NULL, c.tool = "document" PROVE DocFacts(c)'
  BY DEF DocInv
<1>1. UNCHANGED <<corpus, call>> \/ Disturb
  BY DEF Write, NormalizeDelete, DeleteOrphanChunks, InsertControl, ResolveControlMappings,
     UpsertControlMapping, DeleteChunksForControls, InsertChunk, UpsertChunkEmbedding,
     UpdateChunkSparse, JobEnds, Seed
<1>2. CASE UNCHANGED <<corpus, call>>
  <2>1. DocFacts(c)
    BY <1>2 DEF DocInv
  <2> QED
    BY <1>2, <2>1, FactsStand
<1>3. CASE Disturb
  <2>1. PICK d : d = call
    OBVIOUS
  <2>2. d # NULL /\ c = [d EXCEPT !.calm = FALSE]
    BY <1>3, <2>1 DEF Disturb
  <2>3. d.tool = "document"
    BY <2>2
  <2>4. DocFacts(d)
    BY <2>1, <2>2, <2>3 DEF DocInv
  <2>5. /\ DOMAIN c = DocFields /\ ~c.calm /\ c.calm \in BOOLEAN
        /\ c.tool = d.tool /\ c.q = d.q /\ c.at = d.at /\ c.error = d.error
        /\ c.found = d.found /\ c.gaps = d.gaps /\ c.parent = d.parent
        /\ c.children = d.children /\ c.outbound = d.outbound /\ c.inbound = d.inbound
        /\ c.chunks = d.chunks
    BY <2>2, <2>4 DEF DocFacts, DocShape, DocFields
  <2>6. /\ DocShape(c)' /\ OfOneBuild(c)' /\ (c.at = 1 => Unread(c))'
        /\ DocNeeds(DocSteps[c.at], c)' /\ c.at > 0
    BY <2>4, <2>5 DEF DocFacts, DocShape, OfOneBuild, Unread, DocNeeds
  <2> QED
    BY <2>5, <2>6 DEF DocFacts
<1> QED
  BY <1>1, <1>2, <1>3

\* What a call knows at its reply is what the tool promises.
LEMMA DocumentKept == CorpusInv /\ DocInv => DocumentAnswers
<1> SUFFICES ASSUME CorpusInv, DocInv, Opened PROVE OneBuild /\ (call.calm => OpensTheMeant)
  BY DEF DocumentAnswers
<1>1. PICK c : c = call
  OBVIOUS
<1>2. DocFacts(c) /\ Looking /\ DocSteps[c.at] = "reply" /\ ~c.error
  BY <1>1 DEF DocInv, Opened, DocAt, Looking
<1>3. c.at = 14 /\ OfOneBuild(c) /\ (c.calm => Knows(c, 14))
  <2>1. c.at \in 1..14
    BY <1>2 DEF DocFacts, DocShape
  <2>2. c.at = 14
    BY <1>2, <2>1 DEF DocSteps
  <2> QED
    BY <1>2, <2>2 DEF DocFacts
<1>4. OneBuild
  BY <1>1, <1>3 DEF OneBuild, OfOneBuild
<1>5. ASSUME call.calm PROVE OpensTheMeant
  <2>1. Knows(c, 14)
    BY <1>1, <1>3, <1>5
  <2>2. PICK q : q = c.q
    OBVIOUS
  <2>3. PICK carry : carry = {r \in control : Carries(q, r)}
    OBVIOUS
  <2>4. PICK asked : asked = {r \in carry : /\ VersionOf(r) \in Listed
                                            /\ q.fw # 0 => r.doc.fw = q.fw
                                            /\ q.ver # 0 => r.doc.ver = q.ver
                                            /\ q.ver = 0 => IsCurrent(r)}
    OBVIOUS
  <2>5. carry = Carrying(q)
    BY <2>3 DEF Carrying
  <2>6. asked = Asked(q)
    BY <2>4, <2>5 DEF Asked
  <2>7. \A r \in asked : r # NULL
    BY <2>3, <2>4, NotRow DEF CorpusInv, Rows
  <2>8. CASE asked = {}
    <3>1. /\ c.found = NULL /\ "no_evidence" \in c.gaps
          /\ "version_not_found" \in c.gaps <=>
                q.ver # 0 /\ \E r \in carry : q.fw # 0 => r.doc.fw = q.fw
          /\ "found_elsewhere" \in c.gaps <=>
                q.fw # 0 /\ \E r \in carry : IsCurrent(r) /\ r.doc.fw # q.fw
      BY <2>1, <2>2, <2>5, <2>6, <2>8 DEF Knows, OpensAsked, Others
    <3> QED
      BY <1>1, <2>2, <2>3, <2>4, <2>8, <3>1 DEF OpensTheMeant
  <2>9. CASE asked # {}
    <3>1. /\ c.found \in asked /\ c.found # NULL /\ c.current = IsCurrent(c.found)
          /\ c.found.doc.role # "main" =>
                \A r \in asked : r.doc.role = "main" => c.current /\ ~IsCurrent(r)
      BY <2>1, <2>2, <2>6, <2>7, <2>9 DEF Knows, OpensAsked
    <3>2. "ambiguous_citation" \in c.gaps <=>
             q.fw = 0 /\ \E r \in carry : IsCurrent(r) /\ r.doc.fw # c.found.doc.fw
      BY <2>1, <2>2, <2>5, <3>1 DEF Knows, Others
    <3>3. \A a \in control : a.doc.role = "amendment" /\ At(a).amends = At(c.found).cite
             /\ VersionOf(a) = VersionOf(c.found) => a \in c.amended
      BY <2>1, <3>1 DEF Knows, Amendments
    <3>4. ASSUME "lineage" \in q.include PROVE LineageAgrees
      <4>1. c.relations = RelationsOf(c.found) /\ c.lineage = LineageOf(c.found)
        BY <2>1, <2>2, <3>1, <3>4 DEF Knows
      <4>2. VersionOf(c.found) \in Listed /\ VersionOf(c.found).fw = c.found.doc.fw
        BY <2>4, <3>1 DEF VersionOf
      <4>3. Currency(VersionOf(c.found))
              = [version |-> VersionOf(c.found), current |-> c.current]
        BY <3>1 DEF Currency, IsCurrent
      <4>4. [version |-> VersionOf(c.found), current |-> c.current] \in c.lineage
        BY <4>1, <4>2, <4>3 DEF LineageOf
      <4>5. \A v, w : Currency(v).version = Currency(w).version => Currency(v) = Currency(w)
        BY DEF Currency
      <4>6. \A x \in c.relations, y \in c.lineage : x.version = y.version => x = y
        BY <4>1, <4>5 DEF RelationsOf, LineageOf
      <4> QED
        BY <1>1, <4>4, <4>6 DEF LineageAgrees
    <3> QED
      BY <1>1, <2>2, <2>3, <2>4, <2>9, <3>1, <3>2, <3>3, <3>4 DEF OpensTheMeant
  <2> QED
    BY <2>8, <2>9
<1> QED
  BY <1>4, <1>5

-----------------------------------------------------------------------------
(* search: the lists.                                                      *)

Once(s) == \A i, j \in 1..Len(s) : s[i].chunk = s[j].chunk => i = j

\* A key that ends in the id of a chunk.
TiedByChunk(s, p, k) ==
    /\ s \in Seq(Int) /\ Len(s) = Len(p) + 4
    /\ s[Len(p) + 1] = k.build /\ s[Len(p) + 2] = k.row.build
    /\ s[Len(p) + 3] = k.row.doc.id /\ s[Len(p) + 4] = k.row.n

\* The four last numbers of such a key are the id's.
LEMMA TiedChunk ==
    ASSUME NEW p \in Seq(Int), NEW k \in ChunkRow, NEW s, s = p \o ChunkId(k)
    PROVE  TiedByChunk(s, p, k)
<1>1. k.build \in Int /\ k.row \in Row
  BY DEF ChunkRow
<1>2. k.row.build \in Int /\ k.row.doc.id \in Int /\ k.row.n \in Int
  BY <1>1, CorpusAssumption DEF CorpusAssumption, Row
<1>3. PICK t : t = ChunkId(k)
  OBVIOUS
<1>4. PICK u : u = <<k.build>>
  OBVIOUS
<1>5. /\ t \in Seq(Int) /\ Len(t) = 4 /\ t[1] = k.build /\ t[2] = k.row.build
      /\ t[3] = k.row.doc.id /\ t[4] = k.row.n
  <2>1. PICK r \in Row : r = k.row
    BY <1>1
  <2>5. t = u \o Id(r)
    BY <1>3, <1>4, <2>1 DEF ChunkId
  <2>3. u \in Seq(Int) /\ Len(u) = 1 /\ u[1] = k.build
    BY <1>1, <1>4
  <2>4. u \in Seq(Int)
    BY <2>3
  <2>2. TiedBy(t, u, r)
    BY <2>4, <2>5, Tied
  <2> QED
    BY <2>1, <2>2, <2>3 DEF TiedBy
<1>6. s = p \o t
  BY <1>3
<1>7. Len(p) \in Nat
  BY LenProperties
<1>8. /\ s \in Seq(Int) /\ Len(s) = Len(p) + Len(t)
      /\ \A i \in 1..Len(p) : s[i] = p[i]
      /\ \A i \in 1..Len(t) : s[Len(p) + i] = t[i]
  <2>1. t \in Seq(Int)
    BY <1>5
  <2> QED
    BY <1>6, <2>1, Appended
<1>9. 1 \in 1..Len(t) /\ 2 \in 1..Len(t) /\ 3 \in 1..Len(t) /\ 4 \in 1..Len(t)
  BY <1>5
<1>10. /\ s[Len(p) + 1] = t[1] /\ s[Len(p) + 2] = t[2]
       /\ s[Len(p) + 3] = t[3] /\ s[Len(p) + 4] = t[4]
  BY <1>8, <1>9
<1> QED
  BY <1>5, <1>8, <1>10 DEF TiedByChunk

\* A chunk is known by its id.
LEMMA SameChunk ==
    ASSUME NEW j \in ChunkRow, NEW k \in ChunkRow, j.build = k.build,
           j.row.build = k.row.build, j.row.doc.id = k.row.doc.id, j.row.n = k.row.n
    PROVE  j = k
<1>1. j.row = k.row
  BY SameRow DEF ChunkRow
<1> QED
  BY <1>1 DEF ChunkRow

Keyed(found, lead) == [k \in found |-> lead[k] \o ChunkId(k)]
Leads(found, lead, m) == \A k \in found : lead[k] \in Seq(Int) /\ Len(lead[k]) = m

\* A key that ends in the chunk's id orders any set of chunks.
LEMMA ChunksOrder ==
    ASSUME NEW found \in SUBSET ChunkRow, NEW m \in Nat, NEW lead,
           Leads(found, lead, m),
           NEW key, key = Keyed(found, lead)
    PROVE  Strict(found, By(found, key))
<1>1. \A k \in found : /\ key[k] \in Seq(Int) /\ Len(key[k]) = m + 4
                       /\ key[k][m + 1] = k.build /\ key[k][m + 2] = k.row.build
                       /\ key[k][m + 3] = k.row.doc.id /\ key[k][m + 4] = k.row.n
  <2> SUFFICES ASSUME NEW k \in found
               PROVE  /\ key[k] \in Seq(Int) /\ Len(key[k]) = m + 4
                      /\ key[k][m + 1] = k.build /\ key[k][m + 2] = k.row.build
                      /\ key[k][m + 3] = k.row.doc.id /\ key[k][m + 4] = k.row.n
    OBVIOUS
  <2>1. PICK p \in Seq(Int) : p = lead[k] /\ Len(p) = m
    BY DEF Leads
  <2>2. PICK s : s = key[k]
    OBVIOUS
  <2>3. s = p \o ChunkId(k)
    BY <2>1, <2>2 DEF Keyed
  <2>5. k \in ChunkRow
    OBVIOUS
  <2>4. TiedByChunk(s, p, k)
    BY <2>3, <2>5, TiedChunk
  <2> QED
    BY <2>1, <2>2, <2>4 DEF TiedByChunk
<1>2. ASSUME NEW x \in found, NEW y \in found, key[x] = key[y] PROVE x = y
  <2>1. /\ x \in ChunkRow /\ y \in ChunkRow /\ x.build = y.build
        /\ x.row.build = y.row.build /\ x.row.doc.id = y.row.doc.id /\ x.row.n = y.row.n
    <3>1. /\ key[x][m + 1] = x.build /\ key[x][m + 2] = x.row.build
          /\ key[x][m + 3] = x.row.doc.id /\ key[x][m + 4] = x.row.n
      BY <1>1
    <3>2. /\ key[y][m + 1] = y.build /\ key[y][m + 2] = y.row.build
          /\ key[y][m + 3] = y.row.doc.id /\ key[y][m + 4] = y.row.n
      BY <1>1
    <3> QED
      BY <1>2, <3>1, <3>2
  <2> QED
    BY <2>1, SameChunk
<1>3. PICK n \in Nat : n = m + 4
  OBVIOUS
<1>4. \A x \in found : key[x] \in Seq(Int) /\ Len(key[x]) = n
  BY <1>1, <1>3
<1> QED
  BY <1>2, <1>4, KeysOrder

\* A limit repeats nothing that its list does not.
LEMMA DistinctLimit ==
    ASSUME NEW T, NEW s \in Seq(T), Distinct(s), NEW n \in Nat, NEW t, t = Limit(s, n)
    PROVE  t \in Seq(T) /\ Distinct(t)
<1>1. /\ t \in Seq(T) /\ Len(t) <= Len(s)
      /\ \A i \in 1..Len(t) : t[i] = s[i]
  BY LimitLists
<1>2. Len(s) \in Nat /\ Len(t) \in Nat
  BY <1>1, LenProperties
<1>3. \A i \in 1..Len(t) : i \in 1..Len(s)
  BY <1>1, <1>2
<1> QED
  BY <1>1, <1>3 DEF Distinct

\* ORDER BY and LIMIT: each chunk once.
LEMMA ArmLists ==
    ASSUME NEW found, found \subseteq ChunkRow, IsFiniteSet(found), NEW m \in Nat, NEW lead,
           Leads(found, lead, m),
           NEW key, key = Keyed(found, lead),
           NEW n \in Nat, NEW s, s = Limit(Ordered(found, By(found, key)), n)
    PROVE  s \in Seq(found) /\ Distinct(s)
<1>1. Strict(found, By(found, key))
  BY ChunksOrder
<1>2. PICK o : o = Ordered(found, By(found, key))
  OBVIOUS
<1>3. o \in Seq(found) /\ Distinct(o)
  BY <1>1, <1>2, OrderedLists
<1>4. o \in Seq(found)
  BY <1>3
<1>5. s = Limit(o, n)
  BY <1>2
<1>6. Distinct(o)
  BY <1>3
<1> QED
  BY <1>4, <1>5, <1>6, DistinctLimit

\* A limit lists a chunk once when its list does.
LEMMA OnceLimit ==
    ASSUME NEW T, NEW s \in Seq(T), Once(s), NEW n \in Nat, NEW t, t = Limit(s, n)
    PROVE  t \in Seq(T) /\ Once(t)
<1>1. /\ t \in Seq(T) /\ Len(t) <= Len(s)
      /\ \A i \in 1..Len(t) : t[i] = s[i]
  BY LimitLists
<1>2. Len(s) \in Nat /\ Len(t) \in Nat
  BY <1>1, LenProperties
<1>3. \A i \in 1..Len(t) : i \in 1..Len(s)
  BY <1>1, <1>2
<1> QED
  BY <1>1, <1>3 DEF Once

\* So do some of the hits of a list.
LEMMA OnceKept ==
    ASSUME NEW T, NEW s \in Seq(T), Once(s), NEW I, I \subseteq 1..Len(s),
           NEW t, t = Kept(s, I)
    PROVE  t \in Seq(T) /\ Once(t)
<1>1. t \in Seq(T) /\ Picked(t, s, I)
  BY KeptLists
<1>2. Len(t) \in Nat
  BY <1>1, LenProperties
<1>3. ASSUME NEW i \in 1..Len(t), NEW k \in 1..Len(t), i < k PROVE t[i].chunk # t[k].chunk
  <2>1. PICK j \in I, l \in I : j < l /\ t[i] = s[j] /\ t[k] = s[l]
    BY <1>1, <1>3 DEF Picked
  <2>2. j \in 1..Len(s) /\ l \in 1..Len(s) /\ j # l
    BY <2>1
  <2> QED
    BY <2>1, <2>2 DEF Once
<1> QED
  BY <1>1, <1>2, <1>3 DEF Once

\* So do two lists of different chunks, one after the other.
LEMMA OnceAppended ==
    ASSUME NEW T, NEW s \in Seq(T), NEW t \in Seq(T), Once(s), Once(t),
           \A i \in 1..Len(s), j \in 1..Len(t) : s[i].chunk # t[j].chunk,
           NEW u, u = s \o t
    PROVE  u \in Seq(T) /\ Once(u)
<1>1. /\ u \in Seq(T) /\ Len(u) = Len(s) + Len(t)
      /\ \A i \in 1..Len(s) : u[i] = s[i]
      /\ \A i \in 1..Len(t) : u[Len(s) + i] = t[i]
  BY Appended
<1>2. Len(s) \in Nat /\ Len(t) \in Nat
  BY LenProperties
<1>3. \A i \in 1..Len(u) : i \in 1..Len(s) \/ (i - Len(s) \in 1..Len(t) /\ i > Len(s))
  BY <1>1, <1>2
<1>4. \A i \in 1..Len(u) : i \notin 1..Len(s) =>
         i - Len(s) \in 1..Len(t) /\ u[i] = t[i - Len(s)]
  <2> SUFFICES ASSUME NEW i \in 1..Len(u), i \notin 1..Len(s)
               PROVE  i - Len(s) \in 1..Len(t) /\ u[i] = t[i - Len(s)]
    OBVIOUS
  <2>1. PICK j \in 1..Len(t) : j = i - Len(s)
    BY <1>3
  <2>2. i = Len(s) + j
    BY <1>2, <2>1
  <2> QED
    BY <1>1, <2>1, <2>2
<1>5. ASSUME NEW i \in 1..Len(u), NEW j \in 1..Len(u), u[i].chunk = u[j].chunk PROVE i = j
  <2>1. CASE i \in 1..Len(s) /\ j \in 1..Len(s)
    BY <1>1, <1>5, <2>1 DEF Once
  <2>2. CASE i \in 1..Len(s) /\ j \notin 1..Len(s)
    <3>1. PICK b \in 1..Len(t) : u[j] = t[b]
      BY <1>4, <2>2
    <3>2. u[i] = s[i] /\ s[i].chunk # t[b].chunk
      BY <1>1, <2>2
    <3> QED
      BY <1>5, <3>1, <3>2
  <2>3. CASE i \notin 1..Len(s) /\ j \in 1..Len(s)
    <3>1. PICK a \in 1..Len(t) : u[i] = t[a]
      BY <1>4, <2>3
    <3>2. u[j] = s[j] /\ s[j].chunk # t[a].chunk
      BY <1>1, <2>3
    <3> QED
      BY <1>5, <3>1, <3>2
  <2>4. CASE i \notin 1..Len(s) /\ j \notin 1..Len(s)
    <3>2. PICK a \in 1..Len(t) : a = i - Len(s) /\ u[i] = t[a]
      BY <1>4, <2>4
    <3>3. PICK b \in 1..Len(t) : b = j - Len(s) /\ u[j] = t[b]
      BY <1>4, <2>4
    <3>4. t[a].chunk = t[b].chunk
      BY <1>5, <3>2, <3>3
    <3>5. a = b
      BY <3>4 DEF Once
    <3>1. i - Len(s) = j - Len(s)
      BY <3>2, <3>3, <3>5
    <3> QED
      BY <1>1, <1>2, <3>1
  <2> QED
    BY <2>1, <2>2, <2>3, <2>4
<1> QED
  BY <1>1, <1>5 DEF Once

\* The hits that are not listed already.
LEMMA OnceBeside ==
    ASSUME NEW T, NEW s \in Seq(T), NEW t \in Seq(T), Once(t),
           NEW u, u = Beside(t, s)
    PROVE  /\ u \in Seq(T) /\ Once(u)
           /\ \A i \in 1..Len(s), j \in 1..Len(u) : s[i].chunk # u[j].chunk
<1>1. PICK I : I = {i \in 1..Len(t) : t[i].chunk \notin Chunks(s)}
  OBVIOUS
<1>2. u = Kept(t, I) /\ I \subseteq 1..Len(t)
  BY <1>1 DEF Beside
<1>3. u \in Seq(T) /\ Once(u)
  BY <1>2, OnceKept
<1>4. Picked(u, t, I)
  BY <1>2, KeptLists
<1>5. \A j \in 1..Len(u) : u[j].chunk \notin Chunks(s)
  BY <1>1, <1>4 DEF Picked
<1>6. \A i \in 1..Len(s) : s[i].chunk \in Chunks(s)
  BY DEF Chunks
<1> QED
  BY <1>3, <1>5, <1>6

-----------------------------------------------------------------------------
(* search: fusion.                                                         *)

\* A common positive factor changes no comparison.
LEMMA Cancels ==
    ASSUME NEW x \in Int, NEW y \in Int, NEW d \in Nat \ {0}
    PROVE  /\ x * d > y * d => x > y
           /\ x > y => x * d > y * d
           /\ x * d = y * d => x = y
<1>1. ASSUME NEW a \in Int, NEW b \in Int, a > b PROVE a * d > b * d
  <2>1. PICK e \in Int : e = a - b
    OBVIOUS
  <2>2. e > 0 /\ a = b + e
    BY <1>1, <2>1
  <2>3. e * d > 0
    BY <2>2
  <2>4. a * d = b * d + e * d
    BY <2>2
  <2>5. b * d \in Int /\ e * d \in Int
    OBVIOUS
  <2> QED
    BY <2>3, <2>4, <2>5
<1>2. x * d \in Int /\ y * d \in Int
  OBVIOUS
<1>3. x > y => x * d > y * d
  BY <1>1
<1>4. y > x => y * d > x * d
  BY <1>1
<1> QED
  BY <1>2, <1>3, <1>4

\* Fractions are compared by cross multiplication.
LEMMA Fractions ==
    ASSUME NEW a \in Nat, NEW b \in Nat \ {0}, NEW c \in Nat, NEW d \in Nat \ {0},
           NEW e \in Nat, NEW f \in Nat \ {0}
    PROVE  /\ a * d > c * b /\ c * f > e * d => a * f > e * b
           /\ a * d > c * b /\ c * f = e * d => a * f > e * b
           /\ a * d = c * b /\ c * f > e * d => a * f > e * b
           /\ a * d = c * b /\ c * f = e * d => a * f = e * b
<1> DEFINE x == a * d
           y == c * b
           z == c * f
           w == e * d
           u == a * f
           v == e * b
<1>1. /\ x \in Int /\ y \in Int /\ z \in Int /\ w \in Int /\ u \in Int /\ v \in Int
      /\ x * f = u * d /\ y * f = z * b /\ w * b = v * d
  OBVIOUS
<1> HIDE DEF x, y, z, w, u, v
<1>2. (x > y => x * f > y * f) /\ (x = y => x * f = y * f)
  BY <1>1, Cancels
<1>3. (z > w => z * b > w * b) /\ (z = w => z * b = w * b)
  BY <1>1, Cancels
<1>4. (u * d > v * d => u > v) /\ (u * d = v * d => u = v)
  BY <1>1, Cancels
<1>5. x * f \in Int /\ y * f \in Int /\ z * b \in Int /\ w * b \in Int /\ u * d \in Int
      /\ v * d \in Int
  BY <1>1
<1>6. /\ x > y /\ z > w => u > v
      /\ x > y /\ z = w => u > v
      /\ x = y /\ z > w => u > v
      /\ x = y /\ z = w => u = v
  <2>1. PICK p \in Int, q \in Int, r \in Int :
           /\ p = u * d /\ q = z * b /\ r = v * d
           /\ p = x * f /\ q = y * f /\ r = w * b
    BY <1>1, <1>5
  <2> QED
    BY <1>2, <1>3, <1>4, <2>1
<1> QED
  BY <1>6 DEF x, y, z, w, u, v

\* A fused score is a fraction with a positive denominator.
LEMMA Scored ==
    ASSUME NEW h, h.vrank \in Nat, h.brank \in Nat, NEW weight \in Nat,
           NEW s, s = Score(h, weight)
    PROVE  s[1] \in Nat /\ s[2] \in Nat \ {0}
<1> DEFINE v == IF h.vrank > 0 THEN <<2, RRFK + h.vrank>> ELSE <<0, 1>>
           b == IF h.brank > 0 THEN <<weight, RRFK + h.brank>> ELSE <<0, 1>>
<1>1. RRFK \in Nat
  BY SearchAssumption DEF SearchAssumption
<1>2. v[1] \in Nat /\ v[2] \in Nat \ {0}
  BY <1>1
<1>3. b[1] \in Nat /\ b[2] \in Nat \ {0}
  BY <1>1
<1>4. s[1] = v[1] * b[2] + b[1] * v[2] /\ s[2] = v[2] * b[2]
  BY DEF Score
<1> HIDE DEF v, b
<1>5. \A m, n \in Nat : m * n \in Nat
  OBVIOUS
<1>6. \A m, n \in Nat \ {0} : m * n \in Nat \ {0}
  <2> SUFFICES ASSUME NEW m \in Nat \ {0}, NEW n \in Nat \ {0} PROVE m * n \in Nat \ {0}
    OBVIOUS
  <2>1. m * n > 0 * n
    BY Cancels
  <2> QED
    BY <1>5, <2>1
<1>7. s[2] \in Nat \ {0}
  BY <1>2, <1>3, <1>4, <1>6
<1>8. v[1] * b[2] \in Nat /\ b[1] * v[2] \in Nat
  BY <1>2, <1>3, <1>5
<1> QED
  BY <1>4, <1>7, <1>8

\* Ids alone order the chunks.
LEMMA IdsOrder ==
    ASSUME NEW S \in SUBSET ChunkRow
    PROVE  /\ \A x \in S : ~Precedes(ChunkId(x), ChunkId(x))
           /\ \A x, y, z \in S : Precedes(ChunkId(x), ChunkId(y))
                 /\ Precedes(ChunkId(y), ChunkId(z)) => Precedes(ChunkId(x), ChunkId(z))
           /\ \A x, y \in S : x # y => \/ Precedes(ChunkId(x), ChunkId(y))
                                       \/ Precedes(ChunkId(y), ChunkId(x))
<1>1. PICK lead : lead = [k \in S |-> <<>>]
  OBVIOUS
<1>2. PICK key : key = Keyed(S, lead)
  OBVIOUS
<1>3. \A k \in S : key[k] = ChunkId(k)
  <2> SUFFICES ASSUME NEW k \in S PROVE key[k] = ChunkId(k)
    OBVIOUS
  <2>1. PICK t : t = ChunkId(k)
    OBVIOUS
  <2>2. t \in Seq(Int)
    <3>1. k \in ChunkRow
      OBVIOUS
    <3>2. k.build \in Int /\ k.row \in Row
      BY <3>1 DEF ChunkRow
    <3>3. k.row.build \in Int /\ k.row.doc.id \in Int /\ k.row.n \in Int
      BY <3>2, CorpusAssumption DEF CorpusAssumption, Row
    <3> QED
      BY <2>1, <3>2, <3>3 DEF ChunkId, Id
  <2>3. <<>> \o t = t
    BY <2>2, ConcatEmptySeq
  <2> QED
    BY <1>1, <1>2, <2>1, <2>3 DEF Keyed
<1>4. Strict(S, By(S, key))
  <2>1. PICK m \in Nat : m = 0
    OBVIOUS
  <2>2. Leads(S, lead, m)
    BY <1>1, <2>1 DEF Leads
  <2> QED
    BY <1>2, <2>2, ChunksOrder
<1>5. \A x, y \in S : <<x, y>> \in By(S, key) <=> Precedes(ChunkId(x), ChunkId(y))
  BY <1>3 DEF By
<1> QED
  BY <1>4, <1>5 DEF Strict

\* Score, then chunk id, is a strict order of the fused hits.
LEMMA AboveOrders ==
    ASSUME NEW S \in SUBSET ChunkRow, NEW weight \in Nat, NEW hits,
           \A h \in hits : h.chunk \in S /\ h.vrank \in Nat /\ h.brank \in Nat,
           \A g, h \in hits : g.chunk = h.chunk => g = h
    PROVE  Strict(hits, {p \in hits \X hits : Above(p[1], p[2], weight)})
<1> DEFINE num == [h \in hits |-> Score(h, weight)[1]]
           den == [h \in hits |-> Score(h, weight)[2]]
           low(g, h) == Precedes(ChunkId(g.chunk), ChunkId(h.chunk))
<1>1. \A h \in hits : num[h] \in Nat /\ den[h] \in Nat \ {0}
  <2> SUFFICES ASSUME NEW h \in hits PROVE num[h] \in Nat /\ den[h] \in Nat \ {0}
    OBVIOUS
  <2>1. PICK s : s = Score(h, weight)
    OBVIOUS
  <2>2. s[1] \in Nat /\ s[2] \in Nat \ {0}
    BY <2>1, Scored
  <2> QED
    BY <2>1, <2>2
<1>2. \A g, h \in hits : Above(g, h, weight) <=>
         \/ num[g] * den[h] > num[h] * den[g]
         \/ num[g] * den[h] = num[h] * den[g] /\ low(g, h)
  BY DEF Above
<1>3. /\ \A h \in hits : ~low(h, h)
      /\ \A g, h, k \in hits : low(g, h) /\ low(h, k) => low(g, k)
      /\ \A g, h \in hits : g # h => low(g, h) \/ low(h, g)
  BY IdsOrder
<1> HIDE DEF num, den, low
<1>4. \A g, h \in hits : num[g] * den[h] \in Int
  BY <1>1
<1>5. \A h \in hits : ~Above(h, h, weight)
  BY <1>2, <1>3, <1>4
<1>6. ASSUME NEW g \in hits, NEW h \in hits, NEW k \in hits,
             Above(g, h, weight), Above(h, k, weight)
      PROVE  Above(g, k, weight)
  <2>1. PICK a \in Nat, c \in Nat, e \in Nat : a = num[g] /\ c = num[h] /\ e = num[k]
    BY <1>1
  <2>2. PICK b \in Nat \ {0}, d \in Nat \ {0}, f \in Nat \ {0} :
           b = den[g] /\ d = den[h] /\ f = den[k]
    BY <1>1
  <2>3. /\ a * d > c * b /\ c * f > e * d => a * f > e * b
        /\ a * d > c * b /\ c * f = e * d => a * f > e * b
        /\ a * d = c * b /\ c * f > e * d => a * f > e * b
        /\ a * d = c * b /\ c * f = e * d => a * f = e * b
    BY Fractions
  <2>4. a * d > c * b \/ (a * d = c * b /\ low(g, h))
    BY <1>2, <1>6, <2>1, <2>2
  <2>5. c * f > e * d \/ (c * f = e * d /\ low(h, k))
    BY <1>2, <1>6, <2>1, <2>2
  <2>6. a * f > e * b \/ (a * f = e * b /\ low(g, k))
    BY <1>3, <2>3, <2>4, <2>5
  <2> QED
    BY <1>2, <2>1, <2>2, <2>6
<1>7. ASSUME NEW g \in hits, NEW h \in hits, g # h
      PROVE  Above(g, h, weight) \/ Above(h, g, weight)
  <2>1. PICK x \in Int, y \in Int : x = num[g] * den[h] /\ y = num[h] * den[g]
    BY <1>4
  <2>2. x > y \/ y > x \/ x = y
    OBVIOUS
  <2> QED
    BY <1>2, <1>3, <1>7, <2>1, <2>2
<1> QED
  BY <1>5, <1>6, <1>7 DEF Strict

-----------------------------------------------------------------------------
(* search: from the arms to the hits.                                      *)

\* A rank of the dense arm needs an embedder that vectors are of.
Vouched(h) == h.vrank > 0 => server.embedder \in Models
Ranked(S) == {h \in [chunk: S, vrank: Nat, brank: Nat] : Vouched(h)}
Hit(S) == {h \in [chunk: S, vrank: Nat, brank: Nat, current: BOOLEAN, pinned: BOOLEAN] :
             Vouched(h)}

\* The members of a list are finitely many, and a rank is the rank of a member.
LEMMA MembersFinite ==
    ASSUME NEW T, NEW s \in Seq(T)
    PROVE  /\ IsFiniteSet(Members(s)) /\ Members(s) \subseteq T
           /\ Members(s) # {} => s # <<>>
           /\ \A k : Rank(s, k) \in Nat /\ (Rank(s, k) > 0 => k \in Members(s))
<1>1. Len(s) \in Nat /\ \A i \in 1..Len(s) : s[i] \in T
  BY LenProperties, ElementOfSeq
<1>2. IsFiniteSet(1..Len(s))
  BY <1>1, FS_Interval
<1>3. s \in Surjection(1..Len(s), Members(s))
  <2>1. s \in [1..Len(s) -> Members(s)]
    BY <1>1, LenProperties DEF Members
  <2>2. \A k \in Members(s) : \E i \in 1..Len(s) : s[i] = k
    BY DEF Members
  <2> QED
    BY <2>1, <2>2, Fun_IsSurj
<1>4. IsFiniteSet(Members(s))
  BY <1>2, <1>3, FS_Surjection
<1>5. ASSUME NEW k PROVE Rank(s, k) \in Nat /\ (Rank(s, k) > 0 => k \in Members(s))
  <2>1. CASE k \in Members(s)
    <3>1. \E i \in 1..Len(s) : s[i] = k
      BY <2>1 DEF Members
    <3>2. Rank(s, k) = CHOOSE i \in 1..Len(s) : s[i] = k
      BY <2>1 DEF Rank
    <3>3. Rank(s, k) \in 1..Len(s)
      BY <3>1, <3>2
    <3> QED
      BY <1>1, <2>1, <3>3
  <2>2. CASE k \notin Members(s)
    BY <2>2 DEF Rank
  <2> QED
    BY <2>1, <2>2
<1>6. s = <<>> => Members(s) = {}
  BY DEF Members
<1> QED
  BY <1>1, <1>4, <1>5, <1>6 DEF Members

\* A fusion lists a chunk once, ranked by the dense arm only if that arm ran.
LEMMA Fused ==
    ASSUME NEW S \in SUBSET ChunkRow, NEW dense \in Seq(S), NEW lexical \in Seq(S),
           dense # <<>> => server.embedder \in Models,
           NEW weight \in Nat, NEW t, t = fuseRRF(dense, lexical, weight)
    PROVE  t \in Seq(Ranked(S)) /\ Once(t)
<1> DEFINE all == Members(dense) \cup Members(lexical)
           of == [k \in all |-> [chunk |-> k, vrank |-> Rank(dense, k), brank |-> Rank(lexical, k)]]
           hits == {[chunk |-> k, vrank |-> Rank(dense, k), brank |-> Rank(lexical, k)] :
                       k \in all}
           R == {p \in hits \X hits : Above(p[1], p[2], weight)}
<1>1. /\ IsFiniteSet(Members(dense)) /\ Members(dense) \subseteq S
      /\ Members(dense) # {} => dense # <<>>
      /\ \A k : Rank(dense, k) \in Nat /\ (Rank(dense, k) > 0 => k \in Members(dense))
  BY MembersFinite
<1>2. /\ IsFiniteSet(Members(lexical)) /\ Members(lexical) \subseteq S
      /\ \A k : Rank(lexical, k) \in Nat
  BY MembersFinite
<1>3. IsFiniteSet(all) /\ all \subseteq S
  BY <1>1, <1>2, FS_Union
<1>4. IsFiniteSet(hits)
  <2>1. of \in Surjection(all, hits)
    BY Fun_IsSurj
  <2> HIDE DEF of, hits, all
  <2> QED
    BY <1>3, <2>1, FS_Surjection
<1>5. t = Ordered(hits, R)
  BY DEF fuseRRF
<1>6. \A h \in hits : h \in Ranked(S)
  <2> SUFFICES ASSUME NEW k \in all
               PROVE  [chunk |-> k, vrank |-> Rank(dense, k), brank |-> Rank(lexical, k)]
                        \in Ranked(S)
    OBVIOUS
  <2>1. Rank(dense, k) > 0 => server.embedder \in Models
    BY <1>1
  <2> QED
    BY <1>1, <1>2, <1>3, <2>1 DEF Ranked, Vouched
<1>7. \A g, h \in hits : g.chunk = h.chunk => g = h
  OBVIOUS
<1> HIDE DEF hits
<1>8. \A h \in hits : h.chunk \in S /\ h.vrank \in Nat /\ h.brank \in Nat
  BY <1>6 DEF Ranked
<1>9. Strict(hits, R)
  BY <1>7, <1>8, AboveOrders
<1> HIDE DEF R
<1>10. t \in Seq(hits) /\ Distinct(t)
  BY <1>4, <1>5, <1>9, OrderedLists
<1>11. Len(t) \in Nat /\ \A i \in 1..Len(t) : t[i] \in hits
  BY <1>10, LenProperties, ElementOfSeq
<1>12. t \in Seq(Ranked(S))
  BY <1>6, <1>10, <1>11
<1>13. Once(t)
  BY <1>7, <1>10, <1>11 DEF Once, Distinct
<1> QED
  BY <1>12, <1>13

\* Hydration drops hits, and repeats none (hydrate).
LEMMA HydratedOnce ==
    ASSUME NEW S, NEW fused \in Seq(Ranked(S)), Once(fused), NEW t, t = Hydrated(fused)
    PROVE  t \in Seq(Hit(S)) /\ Once(t)
<1>1. PICK I : I = {i \in 1..Len(fused) : fused[i].chunk \in Joined}
  OBVIOUS
<1>2. PICK found : found = Kept(fused, I)
  OBVIOUS
<1>3. I \subseteq 1..Len(fused)
  BY <1>1
<1>4. found \in Seq(Ranked(S)) /\ Once(found)
  BY <1>2, <1>3, OnceKept
<1>5. Len(found) \in Nat /\ \A i \in 1..Len(found) : found[i] \in Ranked(S)
  BY <1>4, LenProperties, ElementOfSeq
<1>6. t = [i \in 1..Len(found) |->
             [chunk |-> found[i].chunk, vrank |-> found[i].vrank, brank |-> found[i].brank,
              current |-> IsCurrent(found[i].chunk.row), pinned |-> FALSE]]
  BY <1>1, <1>2 DEF Hydrated
<1>7. \A i \in 1..Len(found) : t[i] \in Hit(S) /\ t[i].chunk = found[i].chunk
  <2> SUFFICES ASSUME NEW i \in 1..Len(found)
               PROVE  t[i] \in Hit(S) /\ t[i].chunk = found[i].chunk
    OBVIOUS
  <2>1. PICK h \in Ranked(S) : h = found[i]
    BY <1>5
  <2>2. t[i] = [chunk |-> h.chunk, vrank |-> h.vrank, brank |-> h.brank,
                current |-> IsCurrent(h.chunk.row), pinned |-> FALSE]
    BY <1>6, <2>1
  <2>3. IsCurrent(h.chunk.row) \in BOOLEAN
    BY DEF IsCurrent
  <2> QED
    BY <2>1, <2>2, <2>3 DEF Ranked, Hit, Vouched
<1>8. t \in Seq(Hit(S)) /\ Len(t) = Len(found)
  BY <1>5, <1>6, <1>7
<1> QED
  BY <1>4, <1>7, <1>8 DEF Once

\* The cap of a framework's hits reorders hits, and repeats none (capPerFramework).
LEMMA CappedOnce ==
    ASSUME NEW T, NEW hits \in Seq(T), Once(hits), NEW cap, NEW topK \in Nat,
           NEW t, t = capPerFramework(hits, cap, topK)
    PROVE  t \in Seq(T) /\ Once(t)
<1>1. PICK I : I = {j \in 1..Len(hits) : Cardinality(Ahead(hits, j)) < cap}
  OBVIOUS
<1>2. PICK J : J = 1..Len(hits) \ I
  OBVIOUS
<1>3. I \subseteq 1..Len(hits) /\ J \subseteq 1..Len(hits) /\ I \cap J = {}
  BY <1>1, <1>2
<1>4. PICK a : a = Kept(hits, I)
  OBVIOUS
<1>5. PICK b : b = Kept(hits, J)
  OBVIOUS
<1>6. a \in Seq(T) /\ Once(a) /\ Picked(a, hits, I)
  BY <1>3, <1>4, OnceKept, KeptLists
<1>7. b \in Seq(T) /\ Once(b) /\ Picked(b, hits, J)
  BY <1>3, <1>5, OnceKept, KeptLists
<1>8. ASSUME NEW i \in 1..Len(a), NEW j \in 1..Len(b) PROVE a[i].chunk # b[j].chunk
  <2>1. PICK x \in I : a[i] = hits[x]
    BY <1>6 DEF Picked
  <2>2. PICK y \in J : b[j] = hits[y]
    BY <1>7 DEF Picked
  <2>3. x \in 1..Len(hits) /\ y \in 1..Len(hits) /\ x # y
    BY <1>3
  <2> QED
    BY <2>1, <2>2, <2>3 DEF Once
<1>9. PICK u : u = a \o b
  OBVIOUS
<1>10. u \in Seq(T) /\ Once(u)
  BY <1>6, <1>7, <1>8, <1>9, OnceAppended
<1>11. t = Limit(u, topK)
  BY <1>1, <1>2, <1>4, <1>5, <1>9 DEF capPerFramework
<1> QED
  BY <1>10, <1>11, OnceLimit

\* A pinned chunk is not listed again among the fused ones (mergePinned).
LEMMA MergedOnce ==
    ASSUME NEW T, NEW pinned \in Seq(T), NEW fused \in Seq(T), Once(pinned), Once(fused),
           NEW topK \in Nat, NEW t, t = mergePinned(pinned, fused, topK)
    PROVE  t \in Seq(T) /\ Once(t)
<1>1. PICK u : u = Beside(fused, pinned)
  OBVIOUS
<1>2. /\ u \in Seq(T) /\ Once(u)
      /\ \A i \in 1..Len(pinned), j \in 1..Len(u) : pinned[i].chunk # u[j].chunk
  BY <1>1, OnceBeside
<1>3. PICK n \in Nat : n = IF topK > Len(pinned) THEN topK - Len(pinned) ELSE 0
  <2>1. PICK m \in Nat : m = Len(pinned)
    BY LenProperties
  <2>2. (IF topK > m THEN topK - m ELSE 0) \in Nat
    OBVIOUS
  <2> QED
    BY <2>1, <2>2
<1>4. PICK v : v = Limit(u, n)
  OBVIOUS
<1>5. u \in Seq(T) /\ Once(u)
  BY <1>2
<1>6. v \in Seq(T) /\ Once(v)
  BY <1>4, <1>5, OnceLimit
<1>7. /\ v \in Seq(T) /\ Len(v) <= Len(u) /\ Len(v) <= n
      /\ Len(v) = n \/ Len(v) = Len(u)
      /\ \A i \in 1..Len(v) : v[i] = u[i]
  BY <1>4, <1>5, LimitLists
<1>8. \A i \in 1..Len(pinned), j \in 1..Len(v) : pinned[i].chunk # v[j].chunk
  <2>1. Len(u) \in Nat /\ Len(v) \in Nat
    BY <1>5, <1>6, LenProperties
  <2>2. \A j \in 1..Len(v) : j \in 1..Len(u) /\ v[j] = u[j]
    BY <1>7, <2>1
  <2> QED
    BY <1>2, <2>2
<1>9. t = pinned \o v
  BY <1>1, <1>3, <1>4 DEF mergePinned
<1> QED
  BY <1>6, <1>8, <1>9, OnceAppended

\* An older hit is appended only if its chunk is not listed yet (appendNonCurrent).
LEMMA OlderOnce ==
    ASSUME NEW T, NEW hits \in Seq(T), NEW found \in Seq(T), Once(hits), Once(found),
           NEW t, t = appendNonCurrent(hits, bestHitPerFramework(found))
    PROVE  t \in Seq(T) /\ Once(t)
<1>1. PICK I : I = {j \in 1..Len(found) : ~\E i \in 1..j - 1 :
                      VersionOf(found[i].chunk.row) = VersionOf(found[j].chunk.row)}
  OBVIOUS
<1>2. I \subseteq 1..Len(found)
  BY <1>1
<1>3. PICK best : best = Kept(found, I)
  OBVIOUS
<1>4. best \in Seq(T) /\ Once(best)
  BY <1>2, <1>3, OnceKept
<1>5. PICK u : u = Beside(best, hits)
  OBVIOUS
<1>6. /\ u \in Seq(T) /\ Once(u)
      /\ \A i \in 1..Len(hits), j \in 1..Len(u) : hits[i].chunk # u[j].chunk
  BY <1>4, <1>5, OnceBeside
<1>7. t = hits \o u
  BY <1>1, <1>3, <1>5 DEF appendNonCurrent, bestHitPerFramework
<1> QED
  BY <1>6, <1>7, OnceAppended

-----------------------------------------------------------------------------
(* search: the call.                                                       *)

SearchFields == {"tool", "q", "at", "calm", "error", "embedded", "pinned", "dense", "lexical",
                 "hits", "older", "urls", "gaps", "abstain", "text"}

Seen == {k \in ChunkRow : k.build <= jobs}

SearchTyped(c) ==
    /\ DOMAIN c = SearchFields /\ c.tool = "search" /\ c.q \in Queries /\ c.at \in 0..11
    /\ c.pinned \in Seq(Hit(Seen)) /\ Once(c.pinned)
    /\ c.dense \in Seq(Seen) /\ (c.dense # <<>> => server.embedder \in Models)
    /\ c.lexical \in Seq(Seen)
    /\ c.older # NULL => c.older \in Seq(Ranked(Seen)) /\ Once(c.older)
    /\ c.hits \in Seq(Hit(Seen)) /\ Once(c.hits)

\* The hits that the dense arm ranked are all below the floor, and there are some.
TooFar(hits) ==
    /\ server.floor > 0 /\ \E i \in 1..Len(hits) : hits[i].vrank > 0
    /\ \A i \in 1..Len(hits) :
          hits[i].vrank > 0 => At(hits[i].chunk.row).sim < server.floor

Honest(c) ==
    /\ c.abstain <=> \E g \in c.gaps : g.blocks
    /\ c.hits = <<>> => c.abstain
    /\ c.hits # <<>> => (c.abstain <=> TooFar(c.hits))

\* Before the shaping only the filter's gaps are known, and they block an empty reply.
SearchFacts(c) ==
    /\ SearchTyped(c) /\ c.at > 0
    /\ c.at = 7 => c.older # NULL
    /\ c.at <= 9 => c.gaps = {}
    /\ c.at = 10 => \A g \in c.gaps : g.blocks => c.hits = <<>>
    /\ c.at = 11 /\ ~c.error => Honest(c)

SearchInv == \A c : c = call /\ c # NULL /\ c.tool = "search" => SearchFacts(c)

\* A call whose step has done its part.
Ready(c) ==
    /\ SearchTyped(c) /\ c.at \in 0..10
    /\ c.at < 9 => c.gaps = {}
    /\ c.at <= 9 => \A g \in c.gaps : g.blocks => c.hits = <<>>
    /\ c.at = 10 => Honest(c)

\* A search that has done its step holds at the next one all it has to hold there.
LEMMA SearchGoesOn ==
    ASSUME NEW c, Ready(c), NEW a, a = Advance(c)
    PROVE  SearchFacts(a)
<1> DEFINE later == {i \in c.at + 1..Len(Steps) : Needs(Steps[i], c)}
           next == CHOOSE i \in later : \A j \in later : i <= j
<1>1. /\ Len(Steps) = 11 /\ c.at \in 0..10 /\ Steps[7] = "olderhydrate"
      /\ Steps[10] = "shape" /\ Steps[11] = "reply"
  BY DEF Steps, Ready
<1>2. 11 \in later /\ (c.at < 10 => 10 \in later)
  BY <1>1 DEF Needs
<1>3. later \in SUBSET Nat /\ \A i \in later : i \in c.at + 1..11
  BY <1>1
<1>4. 7 \in later => c.older # NULL
  BY <1>1 DEF Needs
<1>5. a = [c EXCEPT !.at = next]
  BY DEF Advance
<1> HIDE DEF later
<1>6. \E i \in later : \A j \in later : i <= j
  BY <1>2, <1>3, LeastNumber
<1>7. next \in later /\ \A j \in later : next <= j
  BY <1>6
<1> HIDE DEF next
<1>8. next \in c.at + 1..11 /\ (c.at < 10 => next <= 10) /\ (next = 7 => c.older # NULL)
  <2>1. next \in c.at + 1..11
    BY <1>3, <1>7
  <2>2. c.at < 10 => next <= 10
    BY <1>2, <1>7
  <2>3. next = 7 => c.older # NULL
    BY <1>4, <1>7
  <2> QED
    BY <2>1, <2>2, <2>3
<1>9. /\ DOMAIN a = SearchFields /\ a.at = next /\ a.tool = c.tool /\ a.q = c.q
      /\ a.pinned = c.pinned /\ a.dense = c.dense /\ a.lexical = c.lexical
      /\ a.older = c.older /\ a.hits = c.hits /\ a.gaps = c.gaps /\ a.abstain = c.abstain
      /\ a.error = c.error
  BY <1>5 DEF Ready, SearchTyped, SearchFields
<1>10. a.at \in 1..11 /\ SearchTyped(a)
  BY <1>1, <1>8, <1>9 DEF Ready, SearchTyped
<1>11. /\ a.at = 7 => a.older # NULL
       /\ a.at <= 9 => a.gaps = {}
       /\ a.at = 10 => \A g \in a.gaps : g.blocks => a.hits = <<>>
  BY <1>1, <1>8, <1>9 DEF Ready
<1>12. a.at = 11 => Honest(a)
  BY <1>1, <1>8, <1>9 DEF Ready, Honest
<1> QED
  BY <1>10, <1>11, <1>12 DEF SearchFacts

\* A list of a set is a list of every larger set.
LEMMA SeqGrows ==
    ASSUME NEW S, NEW T, S \subseteq T, NEW s \in Seq(S)
    PROVE  s \in Seq(T)
<1>1. Len(s) \in Nat /\ s \in [1..Len(s) -> S]
  BY LenProperties
<1>2. s \in [1..Len(s) -> T]
  BY <1>1
<1> QED
  BY <1>1, <1>2

\* Nothing a search holds is lost while builds are numbered on.
LEMMA SearchStands ==
    ASSUME server' = server, jobs \in Nat, jobs' \in Nat, jobs <= jobs', NEW c, SearchFacts(c)
    PROVE  SearchFacts(c)'
<1>1. Seen \subseteq Seen'
  BY DEF Seen, ChunkRow
<1>2. PICK S : S = Seen
  OBVIOUS
<1>3. PICK T : T = Seen'
  OBVIOUS
<1>4. S \subseteq T
  BY <1>1, <1>2, <1>3
<1>5. Hit(S) \subseteq Hit(T) /\ Ranked(S) \subseteq Ranked(T)
  BY <1>4 DEF Hit, Ranked
<1>6. Hit(T) = Hit(Seen)' /\ Ranked(T) = Ranked(Seen)'
  BY <1>3 DEF Hit, Ranked, Vouched
<1>7. /\ c.pinned \in Seq(Hit(T)) /\ c.hits \in Seq(Hit(T))
      /\ c.dense \in Seq(T) /\ c.lexical \in Seq(T)
      /\ c.older # NULL => c.older \in Seq(Ranked(T))
  <2>1. /\ c.pinned \in Seq(Hit(S)) /\ c.hits \in Seq(Hit(S))
        /\ c.dense \in Seq(S) /\ c.lexical \in Seq(S)
        /\ c.older # NULL => c.older \in Seq(Ranked(S))
    BY <1>2 DEF SearchFacts, SearchTyped
  <2>2. c.pinned \in Seq(Hit(T)) /\ c.hits \in Seq(Hit(T))
    BY <1>5, <2>1, SeqGrows
  <2>3. c.dense \in Seq(T) /\ c.lexical \in Seq(T)
    BY <1>4, <2>1, SeqGrows
  <2>4. c.older # NULL => c.older \in Seq(Ranked(T))
    BY <1>5, <2>1, SeqGrows
  <2> QED
    BY <2>2, <2>3, <2>4
<1>8. SearchTyped(c)'
  BY <1>3, <1>6, <1>7 DEF SearchFacts, SearchTyped, SearchFields, Once
<1>9. Honest(c) => Honest(c)'
  BY DEF Honest, TooFar, At
<1> QED
  BY <1>8, <1>9 DEF SearchFacts

\* A search continues with what it holds.
LEMMA SearchContinued == ASSUME CorpusInv, NEW d, Ready(d), Continue(d) PROVE SearchInv'
<1> SUFFICES ASSUME NEW c, c = call' PROVE SearchFacts(c)'
  BY DEF SearchInv
<1>1. c = Advance(d) /\ UNCHANGED <<corpus, job, jobs>>
  BY DEF Continue
<1>2. SearchFacts(c)
  BY <1>1, SearchGoesOn
<1>3. server' = server /\ jobs' = jobs /\ jobs \in Nat
  BY <1>1, CorpusAssumption DEF corpus, CorpusInv, Rows, CorpusAssumption
<1>4. jobs' \in Nat /\ jobs <= jobs'
  BY <1>3
<1> QED
  BY <1>2, <1>3, <1>4, SearchStands

\* Without a search there is nothing to hold.
LEMMA NoSearch == ASSUME call' = NULL \/ call'.tool # "search" PROVE SearchInv'
BY DEF SearchInv

\* What a statement may write into a part of the call.
PartTyped(f, v) ==
    \/ f = "embedded" \/ f = "urls"
    \/ f = "pinned" /\ v \in Seq(Hit(Seen)) /\ Once(v)
    \/ f = "dense" /\ v \in Seq(Seen) /\ (v # <<>> => server.embedder \in Models)
    \/ f = "lexical" /\ v \in Seq(Seen)
    \/ f = "older" /\ v \in Seq(Ranked(Seen)) /\ Once(v)
    \/ f = "hits" /\ v \in Seq(Hit(Seen)) /\ Once(v)

\* A statement before the filter writes one part of the call.
LEMMA PartReady ==
    ASSUME NEW c, SearchFacts(c), c.at \in 1..8, NEW f, NEW v, NEW d, d = [c EXCEPT ![f] = v],
           PartTyped(f, v)
    PROVE  Ready(d)
<1>1. SearchTyped(c) /\ c.gaps = {}
  BY DEF SearchFacts
<1>2. f \in SearchFields \ {"tool", "q", "at", "gaps"}
  BY DEF SearchFields, PartTyped
<1>3. DOMAIN d = SearchFields /\ d[f] = v /\ \A g \in SearchFields \ {f} : d[g] = c[g]
  BY <1>1, <1>2 DEF SearchTyped, SearchFields
<1>4. d.tool = c.tool /\ d.q = c.q /\ d.at = c.at /\ d.gaps = c.gaps
  BY <1>2, <1>3 DEF SearchFields
<1>5. /\ f # "pinned" => d.pinned = c.pinned
      /\ f # "dense" => d.dense = c.dense
      /\ f # "lexical" => d.lexical = c.lexical
      /\ f # "older" => d.older = c.older
      /\ f # "hits" => d.hits = c.hits
  BY <1>3 DEF SearchFields
<1>6. SearchTyped(d)
  BY <1>1, <1>3, <1>4, <1>5 DEF SearchTyped, PartTyped
<1> QED
  BY <1>1, <1>4, <1>6 DEF Ready

\* A chunk that joins its control has the fields of that control's entry.
LEMMA JoinedRows ==
    ASSUME CorpusInv
    PROVE  /\ IsFiniteSet(chunk) /\ Joined \subseteq chunk /\ chunk \subseteq Seen
           /\ Seen \subseteq ChunkRow
           /\ \A k \in Joined : /\ At(k.row) \in ParsedRow
                                /\ k.row.doc.fw \in Nat /\ k.row.doc.ver \in Nat
<1>1. IsFiniteSet(chunk) /\ Joined \subseteq chunk
  BY DEF CorpusInv, Rows, Joined
<1>2. chunk \subseteq Seen /\ Seen \subseteq ChunkRow
  BY DEF CorpusInv, Rows, Seen
<1>3. ASSUME NEW k \in Joined
      PROVE  At(k.row) \in ParsedRow /\ k.row.doc.fw \in Nat /\ k.row.doc.ver \in Nat
  <2>1. PICK r \in control : r = k.row
    BY <1>3 DEF Joined
  <2> QED
    BY <2>1, Cited
<1> QED
  BY <1>1, <1>2, <1>3

\* What an arm lists is joined, seen, and there.
LEMMA ArmSees ==
    ASSUME CorpusInv, NEW found \in SUBSET Joined, NEW weight,
           \A k \in found : weight[k] \in Int,
           NEW key, key = [k \in found |-> <<weight[k]>> \o ChunkId(k)],
           NEW t, t = Limit(Ordered(found, By(found, key)), ArmLimit)
    PROVE  t \in Seq(Seen) /\ (t # <<>> => found # {})
<1>1. found \subseteq ChunkRow /\ found \subseteq Seen /\ IsFiniteSet(found)
  BY JoinedRows, FS_Subset
<1>2. PICK lead : lead = [k \in found |-> <<weight[k]>>]
  OBVIOUS
<1>3. PICK m \in Nat : m = 1
  OBVIOUS
<1>4. Leads(found, lead, m)
  BY <1>2, <1>3 DEF Leads
<1>5. key = Keyed(found, lead)
  BY <1>2 DEF Keyed
<1>6. PICK n \in Nat : n = ArmLimit
  BY SearchAssumption DEF SearchAssumption
<1>7. t = Limit(Ordered(found, By(found, key)), n)
  BY <1>6
<1>8. t \in Seq(found) /\ Distinct(t)
  <2>1. found \subseteq ChunkRow /\ IsFiniteSet(found)
    BY <1>1
  <2> QED
    BY <1>4, <1>5, <1>7, <2>1, ArmLists
<1>9. t \in Seq(found)
  BY <1>8
<1>10. t \in Seq(Seen)
  BY <1>1, <1>9, SeqGrows
<1>11. found = {} => t = <<>>
  <2> SUFFICES ASSUME found = {} PROVE t = <<>>
    OBVIOUS
  <2>1. \A i \in 1..Len(t) : FALSE
    BY <1>9, ElementOfSeq
  <2>2. Len(t) \in Nat
    BY <1>9, LenProperties
  <2>3. Len(t) = 0
    BY <2>1, <2>2
  <2> QED
    BY <1>9, <2>3, EmptySeq
<1> QED
  BY <1>10, <1>11

\* Chunks have vectors of the models that have rows alone.
LEMMA EmbeddedByModel ==
    ASSUME CorpusInv, NEW m
    PROVE  Embedded(m) \subseteq chunk /\ (Embedded(m) # {} => m \in Models)
BY DEF CorpusInv, Rows, Embedded

\* The dense arm lists chunks only under a model with rows (vectorArmExact).
LEMMA DenseSees ==
    ASSUME CorpusInv, NEW q, NEW t,
           t = Dense(q, VersionFilter) \/ t = Dense(q, NonCurrent)
    PROVE  t \in Seq(Seen) /\ (t # <<>> => server.embedder \in Models)
<1>1. ASSUME NEW found \in SUBSET Joined, found # {} => server.embedder \in Models,
             t = Limit(Ordered(found, By(found, [k \in found |->
                         <<-At(k.row).sim>> \o ChunkId(k)])), ArmLimit)
      PROVE  t \in Seq(Seen) /\ (t # <<>> => server.embedder \in Models)
  <2>1. PICK weight : weight = [k \in found |-> -At(k.row).sim]
    OBVIOUS
  <2>2. \A k \in found : weight[k] \in Int
    BY <2>1, JoinedRows DEF ParsedRow
  <2>3. PICK key : key = [k \in found |-> <<weight[k]>> \o ChunkId(k)]
    OBVIOUS
  <2>4. key = [k \in found |-> <<-At(k.row).sim>> \o ChunkId(k)]
    BY <2>1, <2>3
  <2>5. t = Limit(Ordered(found, By(found, key)), ArmLimit)
    BY <1>1, <2>4
  <2>6. t \in Seq(Seen) /\ (t # <<>> => found # {})
    BY <2>2, <2>3, <2>5, ArmSees
  <2> QED
    BY <1>1, <2>6
<1>2. CASE t = Dense(q, VersionFilter)
  <2>1. PICK found : found = {k \in Joined \cap Embedded(server.embedder) :
                                Served(q, k.row) /\ VersionFilter(q, k.row)}
    OBVIOUS
  <2>2. found \in SUBSET Joined /\ (found # {} => server.embedder \in Models)
    BY <2>1, EmbeddedByModel
  <2>3. t = Limit(Ordered(found, By(found, [k \in found |->
                    <<-At(k.row).sim>> \o ChunkId(k)])), ArmLimit)
    BY <1>2, <2>1 DEF Dense
  <2> QED
    BY <1>1, <2>2, <2>3
<1>3. CASE t = Dense(q, NonCurrent)
  <2>1. PICK found : found = {k \in Joined \cap Embedded(server.embedder) :
                                Served(q, k.row) /\ NonCurrent(q, k.row)}
    OBVIOUS
  <2>2. found \in SUBSET Joined /\ (found # {} => server.embedder \in Models)
    BY <2>1, EmbeddedByModel
  <2>3. t = Limit(Ordered(found, By(found, [k \in found |->
                    <<-At(k.row).sim>> \o ChunkId(k)])), ArmLimit)
    BY <1>3, <2>1 DEF Dense
  <2> QED
    BY <1>1, <2>2, <2>3
<1> QED
  BY <1>2, <1>3

\* The lexical arm lists chunks (sparseArm).
LEMMA SparseSees ==
    ASSUME CorpusInv, NEW q, NEW t,
           t = Sparse(q, VersionFilter) \/ t = Sparse(q, NonCurrent)
    PROVE  t \in Seq(Seen)
<1>1. ASSUME NEW found \in SUBSET Joined,
             t = Limit(Ordered(found, By(found, [k \in found |->
                         <<-At(k.row).lex>> \o ChunkId(k)])), ArmLimit)
      PROVE  t \in Seq(Seen)
  <2>1. PICK weight : weight = [k \in found |-> -At(k.row).lex]
    OBVIOUS
  <2>2. \A k \in found : weight[k] \in Int
    BY <2>1, JoinedRows DEF ParsedRow
  <2>3. PICK key : key = [k \in found |-> <<weight[k]>> \o ChunkId(k)]
    OBVIOUS
  <2>4. key = [k \in found |-> <<-At(k.row).lex>> \o ChunkId(k)]
    BY <2>1, <2>3
  <2>5. t = Limit(Ordered(found, By(found, key)), ArmLimit)
    BY <1>1, <2>4
  <2> QED
    BY <2>2, <2>3, <2>5, ArmSees
<1>2. CASE t = Sparse(q, VersionFilter)
  <2>1. PICK found : found = {k \in Joined \cap sparse :
                                /\ At(k.row).lex > 0
                                /\ Served(q, k.row) /\ VersionFilter(q, k.row)}
    OBVIOUS
  <2>2. found \in SUBSET Joined
    BY <2>1
  <2>3. t = Limit(Ordered(found, By(found, [k \in found |->
                    <<-At(k.row).lex>> \o ChunkId(k)])), ArmLimit)
    BY <1>2, <2>1 DEF Sparse
  <2> QED
    BY <1>1, <2>2, <2>3
<1>3. CASE t = Sparse(q, NonCurrent)
  <2>1. PICK found : found = {k \in Joined \cap sparse :
                                /\ At(k.row).lex > 0
                                /\ Served(q, k.row) /\ NonCurrent(q, k.row)}
    OBVIOUS
  <2>2. found \in SUBSET Joined
    BY <2>1
  <2>3. t = Limit(Ordered(found, By(found, [k \in found |->
                    <<-At(k.row).lex>> \o ChunkId(k)])), ArmLimit)
    BY <1>3, <2>1 DEF Sparse
  <2> QED
    BY <1>1, <2>2, <2>3
<1> QED
  BY <1>2, <1>3

\* The parts of citationLookup.
CitedChunks(q) == {k \in Joined : /\ At(k.row).cite \in MatchCitation(q)
                                  /\ VersionFilter(q, k.row) /\ Served(q, k.row)}
CitedKey(found) == [k \in found |-> <<Flag(IsCurrent(k.row)), k.row.doc.fw, k.row.doc.ver,
                                      At(k.row).cite>> \o ChunkId(k)]
PinsOf(first) == [i \in 1..Len(first) |->
                    [chunk |-> first[i], vrank |-> 0, brank |-> 0,
                     current |-> IsCurrent(first[i].row), pinned |-> TRUE]]

\* A pin is a hit without ranks.
LEMMA PinnedHits ==
    ASSUME NEW S, NEW first \in Seq(S), Distinct(first),
           NEW v, v = PinsOf(first)
    PROVE  v \in Seq(Hit(S)) /\ Once(v)
<1>1. Len(first) \in Nat /\ \A i \in 1..Len(first) : first[i] \in S
  BY LenProperties, ElementOfSeq
<1>2. \A i \in 1..Len(first) : v[i] \in Hit(S) /\ v[i].chunk = first[i]
  <2> SUFFICES ASSUME NEW i \in 1..Len(first)
               PROVE  v[i] \in Hit(S) /\ v[i].chunk = first[i]
    OBVIOUS
  <2>1. PICK k \in S : k = first[i]
    BY <1>1
  <2>2. PICK yes \in BOOLEAN : yes = IsCurrent(k.row)
    <3>1. IsCurrent(k.row) \in BOOLEAN
      BY DEF IsCurrent
    <3> QED
      BY <3>1
  <2>3. v[i] = [chunk |-> k, vrank |-> 0, brank |-> 0, current |-> yes, pinned |-> TRUE]
    BY <2>1, <2>2 DEF PinsOf
  <2> QED
    BY <2>1, <2>3 DEF Hit, Vouched
<1>3. v \in Seq(Hit(S)) /\ Len(v) = Len(first)
  BY <1>1, <1>2 DEF PinsOf
<1> QED
  BY <1>2, <1>3 DEF Once, Distinct

\* The pinned hits are the chunks of the cited controls, once each.
LEMMA PinnedOnce ==
    ASSUME CorpusInv, NEW q, NEW found, found = CitedChunks(q),
           NEW first, first = Limit(Ordered(found, By(found, CitedKey(found))), CitationLimit),
           NEW v, v = PinsOf(first)
    PROVE  v \in Seq(Hit(Seen)) /\ Once(v)
<1>1. found \subseteq Joined
  BY DEF CitedChunks
<1>2. found \subseteq ChunkRow /\ found \subseteq Seen /\ IsFiniteSet(found)
  BY <1>1, JoinedRows, FS_Subset
<1>3. PICK lead : lead = [k \in found |-> <<Flag(IsCurrent(k.row)), k.row.doc.fw,
                                            k.row.doc.ver, At(k.row).cite>>]
  OBVIOUS
<1>4. PICK m \in Nat : m = 4
  OBVIOUS
<1>5. Leads(found, lead, m)
  <2> SUFFICES ASSUME NEW k \in found PROVE lead[k] \in Seq(Int) /\ Len(lead[k]) = m
    BY DEF Leads
  <2>1. Flag(IsCurrent(k.row)) \in Int
    BY DEF Flag
  <2>2. k.row.doc.fw \in Int /\ k.row.doc.ver \in Int /\ At(k.row).cite \in Int
    BY <1>1, JoinedRows DEF ParsedRow
  <2> QED
    BY <1>3, <1>4, <2>1, <2>2
<1>6. PICK key : key = Keyed(found, lead)
  OBVIOUS
<1>7. key = CitedKey(found)
  BY <1>3, <1>6 DEF Keyed, CitedKey
<1>8. PICK n \in Nat : n = CitationLimit
  BY SearchAssumption DEF SearchAssumption
<1>9. first = Limit(Ordered(found, By(found, key)), n)
  BY <1>7, <1>8
<1>10. first \in Seq(found) /\ Distinct(first)
  <2>1. found \subseteq ChunkRow /\ IsFiniteSet(found)
    BY <1>2
  <2> QED
    BY <1>5, <1>6, <1>9, <2>1, ArmLists
<1>11. first \in Seq(Seen) /\ Distinct(first)
  BY <1>2, <1>10, SeqGrows
<1>12. PICK S : S = Seen
  OBVIOUS
<1>13. first \in Seq(S) /\ Distinct(first)
  BY <1>11, <1>12
<1>14. v \in Seq(Hit(S)) /\ Once(v)
  BY <1>13, PinnedHits
<1> QED
  BY <1>12, <1>14

\* Fusion, truncation, hydration, cap and merge.
LEMMA HydrateListsOnce ==
    ASSUME CorpusInv, NEW c, SearchFacts(c), NEW room, NEW fused, NEW found, NEW kept, NEW hits,
           room = (IF Len(c.pinned) = 0 THEN c.q.topK
                   ELSE IF c.q.topK - Len(c.pinned) < 1 THEN 1 ELSE c.q.topK - Len(c.pinned)),
           fused = fuseRRF(c.dense, c.lexical, IF Len(c.pinned) > 0 THEN 3 ELSE 1),
           found = Hydrated(Limit(fused, room)),
           kept = (IF c.q.docCap > 0 THEN capPerFramework(found, c.q.docCap, room) ELSE found),
           hits = (IF Len(c.pinned) > 0 THEN mergePinned(c.pinned, kept, c.q.topK) ELSE kept)
    PROVE  hits \in Seq(Hit(Seen)) /\ Once(hits)
<1>1. SearchTyped(c)
  BY DEF SearchFacts
<1>2. PICK S : S = Seen
  OBVIOUS
<1>3. S \subseteq ChunkRow
  BY <1>2, JoinedRows
<1>4. PICK topK \in Nat : topK = c.q.topK
  BY <1>1, SearchAssumption DEF SearchTyped, SearchAssumption
<1>5. PICK pinned \in Seq(Hit(S)) : pinned = c.pinned /\ Once(pinned)
  BY <1>1, <1>2 DEF SearchTyped
<1>6. room \in Nat
  <2>1. PICK p \in Nat : p = Len(c.pinned)
    BY <1>5, LenProperties
  <2>2. (IF p = 0 THEN topK ELSE IF topK - p < 1 THEN 1 ELSE topK - p) \in Nat
    OBVIOUS
  <2> QED
    BY <1>4, <2>1, <2>2
<1>7. PICK dense \in Seq(S), lexical \in Seq(S) :
         /\ dense = c.dense /\ lexical = c.lexical
         /\ dense # <<>> => server.embedder \in Models
  BY <1>1, <1>2 DEF SearchTyped
<1>8. PICK weight \in Nat : weight = IF Len(c.pinned) > 0 THEN 3 ELSE 1
  OBVIOUS
<1>9. fused = fuseRRF(dense, lexical, weight)
  BY <1>7, <1>8
<1>10. S \in SUBSET ChunkRow
  BY <1>3
<1>11. fused \in Seq(Ranked(S)) /\ Once(fused)
  BY <1>7, <1>9, <1>10, Fused
<1>12. PICK top : top = Limit(fused, room)
  OBVIOUS
<1>13. top \in Seq(Ranked(S)) /\ Once(top)
  BY <1>6, <1>11, <1>12, OnceLimit
<1>14. found = Hydrated(top)
  BY <1>12
<1>15. found \in Seq(Hit(S)) /\ Once(found)
  BY <1>13, <1>14, HydratedOnce
<1>16. kept \in Seq(Hit(S)) /\ Once(kept)
  <2>1. PICK capped : capped = capPerFramework(found, c.q.docCap, room)
    OBVIOUS
  <2>2. capped \in Seq(Hit(S)) /\ Once(capped)
    BY <1>6, <1>15, <2>1, CappedOnce
  <2>3. kept = capped \/ kept = found
    BY <2>1
  <2> QED
    BY <1>15, <2>2, <2>3
<1>17. hits \in Seq(Hit(S)) /\ Once(hits)
  <2>1. PICK merged : merged = mergePinned(pinned, kept, topK)
    OBVIOUS
  <2>2. merged \in Seq(Hit(S)) /\ Once(merged)
    BY <1>5, <1>16, <2>1, MergedOnce
  <2>3. hits = merged \/ hits = kept
    BY <1>4, <1>5, <2>1
  <2> QED
    BY <1>16, <2>2, <2>3
<1> QED
  BY <1>2, <1>17

\* The pass over older versions lists a chunk once (nonCurrentHits).
LEMMA OlderRanked ==
    ASSUME CorpusInv, NEW q \in Queries, NEW list, NEW limit, NEW v,
           \/ list = fuseRRF(Dense(q, NonCurrent), <<>>, 2)
           \/ list = fuseRRF(<<>>, Sparse(q, NonCurrent), 2),
           limit = (IF q.topK < NonCurrentCap THEN q.topK ELSE NonCurrentCap),
           v = Limit(list, limit)
    PROVE  v \in Seq(Ranked(Seen)) /\ Once(v)
<1>1. PICK S : S = Seen
  OBVIOUS
<1>2. S \in SUBSET ChunkRow
  BY <1>1, JoinedRows
<1>3. PICK none \in Seq(S) : none = <<>>
  <2>1. <<>> \in Seq(S)
    BY EmptySeq
  <2> QED
    BY <2>1
<1>4. PICK two \in Nat : two = 2
  OBVIOUS
<1>5. limit \in Nat
  BY SearchAssumption DEF SearchAssumption
<1>6. list \in Seq(Ranked(S)) /\ Once(list)
  <2>1. CASE list = fuseRRF(Dense(q, NonCurrent), <<>>, 2)
    <3>1. PICK dense : dense = Dense(q, NonCurrent)
      OBVIOUS
    <3>2. dense \in Seq(S) /\ (dense # <<>> => server.embedder \in Models)
      BY <1>1, <3>1, DenseSees
    <3>3. list = fuseRRF(dense, none, two)
      BY <1>3, <1>4, <2>1, <3>1
    <3> QED
      BY <1>2, <3>2, <3>3, Fused
  <2>2. CASE list = fuseRRF(<<>>, Sparse(q, NonCurrent), 2)
    <3>1. PICK lexical : lexical = Sparse(q, NonCurrent)
      OBVIOUS
    <3>2. lexical \in Seq(S)
      BY <1>1, <3>1, SparseSees
    <3>3. list = fuseRRF(none, lexical, two) /\ (none # <<>> => server.embedder \in Models)
      BY <1>3, <1>4, <2>2, <3>1
    <3> QED
      BY <1>2, <3>2, <3>3, Fused
  <2> QED
    BY <2>1, <2>2
<1>7. v \in Seq(Ranked(S)) /\ Once(v)
  BY <1>5, <1>6, OnceLimit
<1> QED
  BY <1>1, <1>7

\* Each statement of a search has a number of its own.
LEMMA StatementNumber ==
    ASSUME SearchInv, Searching, NEW c, c = call
    PROVE  /\ SearchFacts(c) /\ SearchTyped(c) /\ c.at \in 1..11
           /\ \A i \in 1..11 : SearchAt(Steps[i]) => c.at = i
<1>1. SearchFacts(c)
  BY DEF SearchInv, Searching
<1>2. SearchTyped(c) /\ c.at \in 1..11
  BY <1>1 DEF SearchFacts, SearchTyped
<1>3. \A i, j \in 1..11 : Steps[i] = Steps[j] => i = j
  BY DEF Steps
<1> QED
  BY <1>1, <1>2, <1>3 DEF SearchAt

\* A new search holds nothing.
LEMMA NewTyped ==
    ASSUME NEW q \in Queries, NEW c, c = NewSearch(q)
    PROVE  SearchTyped(c) /\ c.at = 0 /\ c.gaps = {}
<1>1. \A T : <<>> \in Seq(T)
  BY EmptySeq
<1>2. Once(<<>>)
  BY DEF Once
<1> QED
  BY <1>1, <1>2 DEF NewSearch, SearchTyped, SearchFields

\* The shaping decides to abstain on the very gaps it writes.
LEMMA ShapeReady ==
    ASSUME NEW c, SearchFacts(c), c.at = 10, NEW none, NEW low, NEW text, NEW d,
           none = (c.hits = <<>>), low = (~none /\ LowConfidence(c.hits)),
           d = [c EXCEPT
                  !.pinned = <<>>, !.dense = <<>>, !.lexical = <<>>, !.older = NULL,
                  !.abstain = none \/ low,
                  !.gaps = @ \cup (IF none THEN {Gap("no_evidence", TRUE)} ELSE {})
                             \cup (IF low THEN {Gap("low_confidence", TRUE)} ELSE {}),
                  !.text = text]
    PROVE  Ready(d)
<1>1. SearchTyped(c) /\ \A g \in c.gaps : g.blocks => c.hits = <<>>
  BY DEF SearchFacts
<1>2. /\ DOMAIN d = SearchFields /\ d.tool = c.tool /\ d.q = c.q /\ d.at = 10
      /\ d.hits = c.hits /\ d.older = NULL
      /\ d.pinned = <<>> /\ d.dense = <<>> /\ d.lexical = <<>>
      /\ d.abstain = (none \/ low)
      /\ d.gaps = c.gaps \cup (IF none THEN {Gap("no_evidence", TRUE)} ELSE {})
                         \cup (IF low THEN {Gap("low_confidence", TRUE)} ELSE {})
  BY <1>1 DEF SearchTyped, SearchFields
<1>3. SearchTyped(d)
  <2>1. \A T : <<>> \in Seq(T)
    BY EmptySeq
  <2>2. Once(<<>>)
    BY DEF Once
  <2> QED
    BY <1>1, <1>2, <2>1, <2>2 DEF SearchTyped
<1>4. Gap("no_evidence", TRUE).blocks /\ Gap("low_confidence", TRUE).blocks
  BY DEF Gap
<1>5. d.abstain <=> none \/ low
  BY <1>2
<1>6. d.abstain <=> \E g \in d.gaps : g.blocks
  BY <1>1, <1>2, <1>4, <1>5
<1>7. low <=> ~none /\ TooFar(c.hits)
  BY DEF LowConfidence, TooFar, Similarity
<1>8. Honest(d)
  BY <1>2, <1>5, <1>6, <1>7 DEF Honest
<1>9. d.at = 10
  BY <1>2
<1>10. PICK n \in Nat : n = 10
  OBVIOUS
<1>11. d.at = n /\ n \in 0..10 /\ ~(n < 9) /\ ~(n <= 9)
  BY <1>9, <1>10
<1> QED
  BY <1>3, <1>8, <1>11 DEF Ready

\* Every statement of the search tool keeps what its call holds.
LEMMA SearchReads == ASSUME CorpusInv, SearchInv, SearchNext PROVE SearchInv'
<1>1. ASSUME NEW q \in Queries, SearchStart(q) PROVE SearchInv'
  <2>1. PICK c : c = NewSearch(q)
    OBVIOUS
  <2>2. Continue(c)
    BY <1>1, <2>1 DEF SearchStart
  <2>3. SearchTyped(c) /\ c.at = 0 /\ c.gaps = {}
    BY <2>1, NewTyped
  <2>4. Ready(c)
    BY <2>3 DEF Ready
  <2> QED
    BY <2>2, <2>4, SearchContinued
<1>2. CASE SearchReturn
  BY <1>2, NoSearch DEF SearchReturn
<1>3. ASSUME Searching, ~SearchReturn, ~ \E q \in Queries : SearchStart(q) PROVE SearchInv'
  <2>1. PICK c : c = call
    OBVIOUS
  <2>2. /\ SearchFacts(c) /\ SearchTyped(c) /\ c.at \in 1..11
        /\ \A i \in 1..11 : SearchAt(Steps[i]) => c.at = i
    BY <1>3, <2>1, StatementNumber
  <2>3. ASSUME NEW f, NEW v, c.at \in 1..8, Continue([call EXCEPT ![f] = v]),
               PartTyped(f, v)
        PROVE  SearchInv'
    <3>1. PICK d : d = [c EXCEPT ![f] = v]
      OBVIOUS
    <3>2. Ready(d)
      BY <2>2, <2>3, <3>1, PartReady
    <3>3. Continue(d)
      BY <2>1, <2>3, <3>1 DEF Continue
    <3> QED
      BY <3>2, <3>3, SearchContinued
  <2>4. CASE citationLookup
    <3>1. c.at = 1
      <4>1. SearchAt("cite")
        BY <2>4 DEF citationLookup
      <4>2. Steps[1] = "cite"
        BY DEF Steps
      <4> QED
        BY <2>2, <4>1, <4>2
    <3>2. PICK found : found = CitedChunks(c.q)
      OBVIOUS
    <3>3. PICK first : first = Limit(Ordered(found, By(found, CitedKey(found))), CitationLimit)
      OBVIOUS
    <3>4. PICK v : v = PinsOf(first)
      OBVIOUS
    <3>5. PartTyped("pinned", v)
      <4>1. v \in Seq(Hit(Seen)) /\ Once(v)
        BY <3>2, <3>3, <3>4, PinnedOnce
      <4> QED
        BY <4>1 DEF PartTyped
    <3>6. Continue([call EXCEPT !["pinned"] = v])
      BY <2>1, <2>4, <3>2, <3>3, <3>4 DEF citationLookup, Continue, Pins, CitedChunks,
         CitedKey, PinsOf
    <3> QED
      BY <2>3, <3>1, <3>5, <3>6
  <2>5. CASE EmbedQuery
    <3>1. c.at = 2
      BY <2>2, <2>5 DEF EmbedQuery, Steps
    <3>2. Continue([call EXCEPT !["embedded"] = TRUE])
      BY <2>5 DEF EmbedQuery, Continue
    <3>3. PartTyped("embedded", TRUE)
      BY DEF PartTyped
    <3>4. c.at \in 1..8
      BY <3>1
    <3> QED
      BY <2>3, <3>2, <3>3, <3>4
  <2>6. CASE vectorArmExact
    <3>1. c.at = 3
      BY <2>2, <2>6 DEF vectorArmExact, Steps
    <3>2. PICK v : v = Dense(c.q, VersionFilter)
      OBVIOUS
    <3>3. PartTyped("dense", v)
      BY <3>2, DenseSees DEF PartTyped
    <3>4. Continue([call EXCEPT !["dense"] = v])
      BY <2>1, <2>6, <3>2 DEF vectorArmExact, Continue
    <3> QED
      BY <2>3, <3>1, <3>3, <3>4
  <2>7. CASE sparseArm
    <3>1. c.at = 4
      BY <2>2, <2>7 DEF sparseArm, Steps
    <3>2. PICK v : v = Sparse(c.q, VersionFilter)
      OBVIOUS
    <3>3. PartTyped("lexical", v)
      BY <3>2, SparseSees DEF PartTyped
    <3>4. Continue([call EXCEPT !["lexical"] = v])
      BY <2>1, <2>7, <3>2 DEF sparseArm, Continue
    <3> QED
      BY <2>3, <3>1, <3>3, <3>4
  <2>8. CASE hydrate
    <3>1. c.at = 5
      BY <2>2, <2>8 DEF hydrate, Steps
    <3>2. PICK room : room = IF Len(c.pinned) = 0 THEN c.q.topK
                             ELSE IF c.q.topK - Len(c.pinned) < 1 THEN 1
                             ELSE c.q.topK - Len(c.pinned)
      OBVIOUS
    <3>3. PICK fused : fused = fuseRRF(c.dense, c.lexical, IF Len(c.pinned) > 0 THEN 3 ELSE 1)
      OBVIOUS
    <3>4. PICK found : found = Hydrated(Limit(fused, room))
      OBVIOUS
    <3>5. PICK kept : kept = IF c.q.docCap > 0 THEN capPerFramework(found, c.q.docCap, room)
                             ELSE found
      OBVIOUS
    <3>6. PICK v : v = IF Len(c.pinned) > 0 THEN mergePinned(c.pinned, kept, c.q.topK) ELSE kept
      OBVIOUS
    <3>7. PartTyped("hits", v)
      <4>1. v \in Seq(Hit(Seen)) /\ Once(v)
        BY <2>2, <3>2, <3>3, <3>4, <3>5, <3>6, HydrateListsOnce
      <4> QED
        BY <4>1 DEF PartTyped
    <3>8. Continue([call EXCEPT !["hits"] = v])
      BY <2>1, <2>8, <3>2, <3>3, <3>4, <3>5, <3>6 DEF hydrate, Continue
    <3> QED
      BY <2>3, <3>1, <3>7, <3>8
  <2>9. CASE nonCurrentHits
    <3>1. c.at = 6 /\ c.q \in Queries
      BY <2>2, <2>9 DEF nonCurrentHits, Steps, SearchTyped
    <3>2. PICK list : list = IF c.embedded THEN fuseRRF(Dense(c.q, NonCurrent), <<>>, 2)
                             ELSE fuseRRF(<<>>, Sparse(c.q, NonCurrent), 2)
      OBVIOUS
    <3>3. PICK limit : limit = IF c.q.topK < NonCurrentCap THEN c.q.topK ELSE NonCurrentCap
      OBVIOUS
    <3>4. PICK v : v = Limit(list, limit)
      OBVIOUS
    <3>5. \/ list = fuseRRF(Dense(c.q, NonCurrent), <<>>, 2)
          \/ list = fuseRRF(<<>>, Sparse(c.q, NonCurrent), 2)
      BY <3>2
    <3>6. PartTyped("older", v)
      <4>1. v \in Seq(Ranked(Seen)) /\ Once(v)
        BY <3>1, <3>3, <3>4, <3>5, OlderRanked
      <4> QED
        BY <4>1 DEF PartTyped
    <3>7. Continue([call EXCEPT !["older"] = v])
      BY <2>1, <2>9, <3>2, <3>3, <3>4 DEF nonCurrentHits, Continue
    <3> QED
      BY <2>3, <3>1, <3>6, <3>7
  <2>10. CASE nonCurrentHydrate
    <3>1. c.at = 7
      BY <2>2, <2>10 DEF nonCurrentHydrate, Steps
    <3>2. PICK S : S = Seen
      OBVIOUS
    <3>3. PICK older \in Seq(Ranked(S)) : older = c.older /\ Once(older)
      BY <2>2, <3>1, <3>2 DEF SearchFacts, SearchTyped
    <3>4. PICK hits \in Seq(Hit(S)) : hits = c.hits /\ Once(hits)
      BY <2>2, <3>2 DEF SearchTyped
    <3>5. PICK found : found = Hydrated(older)
      OBVIOUS
    <3>6. found \in Seq(Hit(S)) /\ Once(found)
      BY <3>3, <3>5, HydratedOnce
    <3>7. PICK v : v = appendNonCurrent(hits, bestHitPerFramework(found))
      OBVIOUS
    <3>8. PartTyped("hits", v)
      <4>1. v \in Seq(Hit(S)) /\ Once(v)
        BY <3>4, <3>6, <3>7, OlderOnce
      <4> QED
        BY <3>2, <4>1 DEF PartTyped
    <3>9. Continue([call EXCEPT !["hits"] = v])
      BY <2>1, <2>10, <3>3, <3>4, <3>5, <3>7 DEF nonCurrentHydrate, Continue
    <3>10. c.at \in 1..8
      BY <3>1
    <3>11. PartTyped("hits", v) /\ Continue([call EXCEPT !["hits"] = v])
      BY <3>8, <3>9
    <3> QED
      BY <2>3, <3>10, <3>11
  <2>11. CASE hitSourceURLs
    <3>1. c.at = 8
      BY <2>2, <2>11 DEF hitSourceURLs, Steps
    <3>2. PICK v : v = {k.row.doc : k \in Chunks(c.hits)}
      OBVIOUS
    <3>3. Continue([call EXCEPT !["urls"] = v])
      BY <2>1, <2>11, <3>2 DEF hitSourceURLs, Continue
    <3>4. PartTyped("urls", v)
      BY DEF PartTyped
    <3> QED
      BY <2>3, <3>1, <3>3, <3>4
  <2>12. CASE filterGaps
    <3>1. c.at = 9
      BY <2>2, <2>12 DEF filterGaps, Steps
    <3>2. PICK blocks \in BOOLEAN : blocks = (c.hits = <<>>)
      OBVIOUS
    <3>3. PICK gaps : gaps =
             IF ~\E d \in Doc : d.fw = c.q.fw THEN {Gap("unknown_framework", blocks)}
             ELSE IF c.q.ver # 0 /\ ~\E d \in Doc : d.fw = c.q.fw /\ d.ver = c.q.ver
             THEN {Gap("version_not_found", blocks)} ELSE {}
      OBVIOUS
    <3>4. PICK d : d = [c EXCEPT !.gaps = gaps]
      OBVIOUS
    <3>5. Continue(d)
      BY <2>1, <2>12, <3>2, <3>3, <3>4 DEF filterGaps, Continue
    <3>6. \A g \in gaps : g.blocks => c.hits = <<>>
      <4>1. \A g \in gaps : g = Gap("unknown_framework", blocks)
                            \/ g = Gap("version_not_found", blocks)
        BY <3>3
      <4>2. \A g \in gaps : g.blocks = blocks
        BY <4>1 DEF Gap
      <4> QED
        BY <3>2, <4>2
    <3>7. /\ DOMAIN d = SearchFields /\ d.tool = c.tool /\ d.q = c.q /\ d.at = 9
          /\ d.pinned = c.pinned /\ d.dense = c.dense /\ d.lexical = c.lexical
          /\ d.older = c.older /\ d.hits = c.hits /\ d.gaps = gaps
      BY <2>2, <3>1, <3>4 DEF SearchTyped, SearchFields
    <3>8. Ready(d)
      BY <2>2, <3>6, <3>7 DEF Ready, SearchTyped
    <3> QED
      BY <3>5, <3>8, SearchContinued
  <2>13. CASE SearchShape
    <3>1. c.at = 10
      BY <2>2, <2>13 DEF SearchShape, Steps
    <3>2. PICK none : none = (c.hits = <<>>)
      OBVIOUS
    <3>3. PICK low : low = (~none /\ LowConfidence(c.hits))
      OBVIOUS
    <3>4. PICK text : text = (~server.reduced /\ ~c.q.compact)
      OBVIOUS
    <3>5. PICK d : d = [c EXCEPT
               !.pinned = <<>>, !.dense = <<>>, !.lexical = <<>>, !.older = NULL,
               !.abstain = none \/ low,
               !.gaps = @ \cup (IF none THEN {Gap("no_evidence", TRUE)} ELSE {})
                          \cup (IF low THEN {Gap("low_confidence", TRUE)} ELSE {}),
               !.text = text]
      OBVIOUS
    <3>6. Continue(d)
      BY <2>1, <2>13, <3>2, <3>3, <3>4, <3>5 DEF SearchShape, Continue
    <3>7. Ready(d)
      BY <2>2, <3>1, <3>2, <3>3, <3>5, ShapeReady
    <3> QED
      BY <3>6, <3>7, SearchContinued
  <2>14. CASE StatementFails
    <3>1. c.at \in 6..9
      BY <2>1, <2>2, <2>14 DEF StatementFails, Tolerated, Steps
    <3>2. PICK d : d = [c EXCEPT !.calm = FALSE, !.older = NULL]
      OBVIOUS
    <3>3. Continue(d)
      BY <2>1, <2>14, <3>2 DEF StatementFails, Continue
    <3>4. /\ DOMAIN d = SearchFields /\ d.tool = c.tool /\ d.q = c.q /\ d.at = c.at
          /\ d.pinned = c.pinned /\ d.dense = c.dense /\ d.lexical = c.lexical
          /\ d.older = NULL /\ d.hits = c.hits /\ d.gaps = c.gaps
      BY <2>2, <3>2 DEF SearchTyped, SearchFields
    <3>5. SearchTyped(d)
      BY <2>2, <3>4 DEF SearchTyped
    <3>6. Ready(d)
      BY <2>2, <3>1, <3>4, <3>5 DEF Ready, SearchFacts
    <3> QED
      BY <3>3, <3>6, SearchContinued
  <2>15. CASE SearchFails
    <3> SUFFICES ASSUME NEW d, d = call' PROVE SearchFacts(d)'
      BY DEF SearchInv
    <3>1. PICK q \in Queries : q = c.q
      BY <2>2 DEF SearchTyped
    <3>2. PICK new : new = NewSearch(q)
      OBVIOUS
    <3>3. d = [new EXCEPT !.at = 11, !.error = TRUE] /\ UNCHANGED <<corpus, job, jobs>>
      BY <2>1, <2>15, <3>1, <3>2 DEF SearchFails, Steps
    <3>4. SearchTyped(new) /\ new.gaps = {}
      BY <3>1, <3>2, NewTyped
    <3>5. /\ DOMAIN d = SearchFields /\ d.tool = new.tool /\ d.q = new.q /\ d.at = 11
          /\ d.pinned = new.pinned /\ d.dense = new.dense /\ d.lexical = new.lexical
          /\ d.older = new.older /\ d.hits = new.hits /\ d.error = TRUE
      <4>1. DOMAIN new = SearchFields
        BY <3>4 DEF SearchTyped
      <4> QED
        BY <3>3, <4>1 DEF SearchFields
    <3>6. SearchFacts(d)
      BY <3>4, <3>5 DEF SearchFacts, SearchTyped
    <3>7. server' = server /\ jobs' = jobs /\ jobs \in Nat
      BY <3>3, CorpusAssumption DEF corpus, CorpusInv, Rows, CorpusAssumption
    <3>8. jobs' \in Nat /\ jobs <= jobs'
      BY <3>7
    <3> QED
      BY <3>6, <3>7, <3>8, SearchStands
  <2>16. ASSUME NEW n \in 0..CitationLimit, CitationFails(n) PROVE SearchInv'
    <3>1. c.at = 1
      BY <2>2, <2>16 DEF CitationFails, Steps
    <3>2. PICK found : found = CitedChunks(c.q)
      OBVIOUS
    <3>3. PICK first : first = Limit(Ordered(found, By(found, CitedKey(found))), CitationLimit)
      OBVIOUS
    <3>4. PICK v : v = PinsOf(first)
      OBVIOUS
    <3>5. v \in Seq(Hit(Seen)) /\ Once(v)
      BY <3>2, <3>3, <3>4, PinnedOnce
    <3>6. PICK w : w = Limit(v, n)
      OBVIOUS
    <3>7. w \in Seq(Hit(Seen)) /\ Once(w)
      <4>1. PICK m \in Nat : m = CitationLimit
        BY SearchAssumption DEF SearchAssumption
      <4>2. n \in Nat
        BY <2>16, <4>1
      <4> QED
        BY <3>5, <3>6, <4>2, OnceLimit
    <3>8. PICK d : d = [c EXCEPT !.calm = FALSE, !.pinned = w]
      OBVIOUS
    <3>9. Continue(d)
      BY <2>1, <2>16, <3>2, <3>3, <3>4, <3>6, <3>8 DEF CitationFails, Continue, Pins,
         CitedChunks, CitedKey, PinsOf
    <3>10. /\ DOMAIN d = SearchFields /\ d.tool = c.tool /\ d.q = c.q /\ d.at = c.at
           /\ d.pinned = w /\ d.dense = c.dense /\ d.lexical = c.lexical
           /\ d.older = c.older /\ d.hits = c.hits /\ d.gaps = c.gaps
      BY <2>2, <3>8 DEF SearchTyped, SearchFields
    <3>11. SearchTyped(d)
      BY <2>2, <3>7, <3>10 DEF SearchTyped
    <3>12. Ready(d)
      BY <2>2, <3>1, <3>10, <3>11 DEF Ready, SearchFacts
    <3> QED
      BY <3>9, <3>12, SearchContinued
  <2> QED
    BY <1>3, <2>4, <2>5, <2>6, <2>7, <2>8, <2>9, <2>10, <2>11, <2>12, <2>13, <2>14, <2>15,
       <2>16
    DEF SearchNext
<1>4. \/ Searching \/ \E q \in Queries : SearchStart(q)
  BY DEF SearchNext, citationLookup, EmbedQuery, vectorArmExact, sparseArm, hydrate,
     nonCurrentHits, nonCurrentHydrate, hitSourceURLs, filterGaps, SearchShape,
     CitationFails, StatementFails, SearchFails, SearchReturn, SearchAt
<1> QED
  BY <1>1, <1>2, <1>3, <1>4

\* A write between two statements of a search takes nothing from what it holds.
LEMMA SearchDisturbed == ASSUME CorpusInv, SearchInv, Write PROVE SearchInv'
<1>1. server' = server /\ jobs \in Nat /\ jobs' \in Nat /\ jobs <= jobs'
  <2>1. jobs \in Nat
    BY CorpusAssumption DEF CorpusAssumption, CorpusInv, Rows
  <2>2. server' = server /\ (jobs' = jobs \/ jobs' = jobs + 1)
    BY DEF Write, NormalizeDelete, DeleteOrphanChunks, InsertControl,
       ResolveControlMappings, UpsertControlMapping, DeleteChunksForControls, InsertChunk,
       UpsertChunkEmbedding, UpdateChunkSparse, JobEnds, Seed, corpus
  <2> QED
    BY <2>1, <2>2
<1>2. call' = call \/ Disturb
  BY DEF Write, NormalizeDelete, DeleteOrphanChunks, InsertControl, ResolveControlMappings,
     UpsertControlMapping, DeleteChunksForControls, InsertChunk, UpsertChunkEmbedding,
     UpdateChunkSparse, JobEnds, Seed
<1> SUFFICES ASSUME NEW c, c = call', c # NULL, c.tool = "search" PROVE SearchFacts(c)'
  BY DEF SearchInv
<1>3. SearchFacts(c)
  <2>1. CASE call' = call
    BY <2>1 DEF SearchInv
  <2>2. CASE Disturb
    <3>1. PICK d : d = call
      OBVIOUS
    <3>2. d # NULL /\ c = [d EXCEPT !.calm = FALSE]
      BY <2>2, <3>1 DEF Disturb
    <3>3. d.tool = "search"
      BY <3>2
    <3>4. SearchFacts(d)
      BY <3>1, <3>2, <3>3 DEF SearchInv
    <3>5. /\ DOMAIN c = SearchFields
          /\ c.tool = d.tool /\ c.q = d.q /\ c.at = d.at /\ c.error = d.error
          /\ c.pinned = d.pinned /\ c.dense = d.dense /\ c.lexical = d.lexical
          /\ c.hits = d.hits /\ c.older = d.older /\ c.gaps = d.gaps
          /\ c.abstain = d.abstain
      BY <3>2, <3>4 DEF SearchFacts, SearchTyped, SearchFields
    <3>6. SearchTyped(c)
      BY <3>4, <3>5 DEF SearchFacts, SearchTyped
    <3>7. Honest(d) => Honest(c)
      BY <3>5 DEF Honest
    <3> QED
      BY <3>4, <3>5, <3>6, <3>7 DEF SearchFacts
  <2> QED
    BY <1>2, <2>1, <2>2
<1> QED
  BY <1>1, <1>3, SearchStands

\* A statement of a search continues that search, or ends it.
LEMMA SearchMoves ==
    ASSUME SearchInv, SearchNext PROVE call' = NULL \/ call'.tool = "search"
<1>1. ASSUME NEW c, DOMAIN c = SearchFields, c.tool = "search", Continue(c)
      PROVE  call'.tool = "search"
  BY <1>1 DEF Continue, Advance, SearchFields
<1>2. ASSUME NEW q \in Queries, SearchStart(q) PROVE call'.tool = "search"
  <2>1. PICK c : c = NewSearch(q)
    OBVIOUS
  <2>2. DOMAIN c = SearchFields /\ c.tool = "search"
    BY <2>1 DEF NewSearch, SearchFields
  <2> QED
    BY <1>1, <1>2, <2>1, <2>2 DEF SearchStart
<1>3. CASE SearchReturn
  BY <1>3 DEF SearchReturn
<1>4. CASE SearchFails
  <2>1. PICK c : c = NewSearch(call.q)
    OBVIOUS
  <2>2. DOMAIN c = SearchFields /\ c.tool = "search"
    BY <2>1 DEF NewSearch, SearchFields
  <2>3. call' = [c EXCEPT !.at = Len(Steps), !.error = TRUE]
    BY <1>4, <2>1 DEF SearchFails
  <2> QED
    BY <2>2, <2>3 DEF SearchFields
<1>5. ASSUME Searching, NEW d, Continue(d), DOMAIN d = DOMAIN call, d.tool = call.tool
      PROVE  call'.tool = "search"
  <2>1. DOMAIN call = SearchFields /\ call.tool = "search"
    BY <1>5 DEF SearchInv, Searching, SearchFacts, SearchTyped
  <2> QED
    BY <1>1, <1>5, <2>1
<1>6. ASSUME Searching, NEW f, f # "tool", NEW v, Continue([call EXCEPT ![f] = v])
      PROVE  call'.tool = "search"
  <2>1. PICK d : d = [call EXCEPT ![f] = v]
    OBVIOUS
  <2>2. "tool" \in DOMAIN call
    BY <1>6 DEF SearchInv, Searching, SearchFacts, SearchTyped, SearchFields
  <2>3. DOMAIN d = DOMAIN call /\ d.tool = call.tool
    BY <1>6, <2>1, <2>2
  <2>4. Continue(d)
    BY <1>6, <2>1
  <2> QED
    BY <1>5, <1>6, <2>3, <2>4
<1>7. CASE SearchShape
  <2>1. Searching /\ "tool" \in DOMAIN call
    BY <1>7 DEF SearchShape, SearchAt, SearchInv, Searching, SearchFacts, SearchTyped,
       SearchFields
  <2>2. PICK low, none, text : Continue([call EXCEPT
               !.pinned = <<>>, !.dense = <<>>, !.lexical = <<>>, !.older = NULL,
               !.abstain = none \/ low,
               !.gaps = @ \cup (IF none THEN {Gap("no_evidence", TRUE)} ELSE {})
                          \cup (IF low THEN {Gap("low_confidence", TRUE)} ELSE {}),
               !.text = text])
    BY <1>7 DEF SearchShape
  <2>3. PICK d : d = [call EXCEPT
               !.pinned = <<>>, !.dense = <<>>, !.lexical = <<>>, !.older = NULL,
               !.abstain = none \/ low,
               !.gaps = @ \cup (IF none THEN {Gap("no_evidence", TRUE)} ELSE {})
                          \cup (IF low THEN {Gap("low_confidence", TRUE)} ELSE {}),
               !.text = text]
    OBVIOUS
  <2>4. Continue(d)
    BY <2>2, <2>3
  <2>5. DOMAIN d = DOMAIN call /\ d.tool = call.tool
    BY <2>1, <2>3
  <2> QED
    BY <1>5, <2>1, <2>4, <2>5
<1>8. CASE StatementFails
  <2>1. Searching /\ "tool" \in DOMAIN call
    BY <1>8 DEF StatementFails, SearchInv, Searching, SearchFacts, SearchTyped, SearchFields
  <2>2. PICK d : d = [call EXCEPT !.calm = FALSE, !.older = NULL]
    OBVIOUS
  <2>3. Continue(d)
    BY <1>8, <2>2 DEF StatementFails
  <2>4. DOMAIN d = DOMAIN call /\ d.tool = call.tool
    BY <2>1, <2>2
  <2> QED
    BY <1>5, <2>1, <2>3, <2>4
<1>9. CASE EmbedQuery \/ citationLookup \/ vectorArmExact \/ sparseArm \/ hydrate
           \/ nonCurrentHits \/ nonCurrentHydrate \/ hitSourceURLs \/ filterGaps
  <2>1. Searching
    BY <1>9 DEF EmbedQuery, citationLookup, vectorArmExact, sparseArm, hydrate,
       nonCurrentHits, nonCurrentHydrate, hitSourceURLs, filterGaps, SearchAt
  <2>2. \E f, v : f # "tool" /\ Continue([call EXCEPT ![f] = v])
    <3>1. CASE EmbedQuery
      BY <3>1 DEF EmbedQuery
    <3>2. CASE citationLookup
      BY <3>2 DEF citationLookup
    <3>3. CASE vectorArmExact \/ sparseArm
      BY <3>3 DEF vectorArmExact, sparseArm
    <3>4. CASE hydrate
      BY <3>4 DEF hydrate
    <3>5. CASE nonCurrentHits \/ nonCurrentHydrate
      BY <3>5 DEF nonCurrentHits, nonCurrentHydrate
    <3>6. CASE hitSourceURLs \/ filterGaps
      BY <3>6 DEF hitSourceURLs, filterGaps
    <3> QED
      BY <1>9, <3>1, <3>2, <3>3, <3>4, <3>5, <3>6
  <2> QED
    BY <1>6, <2>1, <2>2
<1>10. ASSUME NEW n \in 0..CitationLimit, CitationFails(n) PROVE call'.tool = "search"
  <2>1. Searching /\ "tool" \in DOMAIN call
    BY <1>10 DEF CitationFails, SearchAt, SearchInv, Searching, SearchFacts, SearchTyped,
       SearchFields
  <2>2. PICK d : d = [call EXCEPT !.calm = FALSE, !.pinned = Limit(Pins(call.q), n)]
    OBVIOUS
  <2>3. Continue(d)
    BY <1>10, <2>2 DEF CitationFails
  <2>4. DOMAIN d = DOMAIN call /\ d.tool = call.tool
    BY <2>1, <2>2
  <2> QED
    BY <1>5, <2>1, <2>3, <2>4
<1> QED
  BY <1>2, <1>3, <1>4, <1>7, <1>8, <1>9, <1>10 DEF SearchNext

\* A statement of a document call continues it or ends it.
LEMMA LookupMoves ==
    ASSUME DocInv, DocumentNext, ~CorpusStatus
    PROVE  call' = NULL \/ call'.tool = "document"
<1>1. ASSUME NEW c, DOMAIN c = DocFields, c.tool = "document", DocContinue(c)
      PROVE  call'.tool = "document"
  BY <1>1 DEF DocContinue, DocAdvance, DocFields
<1>2. ASSUME NEW q \in Lookups, DocumentStart(q) PROVE call'.tool = "document"
  <2>1. PICK c : c = NewLookup(q)
    OBVIOUS
  <2>2. DOMAIN c = DocFields /\ c.tool = "document"
    BY <2>1 DEF NewLookup, DocFields
  <2> QED
    BY <1>1, <1>2, <2>1, <2>2 DEF DocumentStart
<1>3. CASE DocumentReturn \/ StatusReturn
  BY <1>3 DEF DocumentReturn, StatusReturn
<1>4. CASE DocumentFails
  <2>1. PICK c : c = NewLookup(call.q)
    OBVIOUS
  <2>2. DOMAIN c = DocFields /\ c.tool = "document"
    BY <2>1 DEF NewLookup, DocFields
  <2>3. call' = [c EXCEPT !.at = Len(DocSteps), !.error = TRUE]
    BY <1>4, <2>1 DEF DocumentFails
  <2> QED
    BY <2>2, <2>3 DEF DocFields
<1>5. ASSUME Looking, NEW d, DocContinue(d), DOMAIN d = DOMAIN call, d.tool = call.tool
      PROVE  call'.tool = "document"
  <2>1. DOMAIN call = DocFields /\ call.tool = "document"
    BY <1>5 DEF DocInv, Looking, DocFacts, DocShape
  <2> QED
    BY <1>1, <1>5, <2>1
<1>6. ASSUME Looking, NEW f, f # "tool", NEW v, DocContinue([call EXCEPT ![f] = v])
      PROVE  call'.tool = "document"
  <2>1. PICK d : d = [call EXCEPT ![f] = v]
    OBVIOUS
  <2>2. "tool" \in DOMAIN call
    BY <1>6 DEF DocInv, Looking, DocFacts, DocShape, DocFields
  <2>3. DOMAIN d = DOMAIN call /\ d.tool = call.tool
    BY <1>6, <2>1, <2>2
  <2>4. DocContinue(d)
    BY <1>6, <2>1
  <2> QED
    BY <1>5, <1>6, <2>3, <2>4
<1>7. CASE findControl \/ controlChunks
  <2>1. Looking /\ "tool" \in DOMAIN call
    BY <1>7 DEF findControl, controlChunks, DocAt, DocInv, Looking, DocFacts, DocShape, DocFields
  <2>2. PICK row : row = Pick(call.q)
    OBVIOUS
  <2>3. PICK found : found = {k \in chunk : k.row = call.found}
    OBVIOUS
  <2>4. PICK d : /\ DocContinue(d)
                 /\ \/ d = [call EXCEPT !.gaps = {"no_evidence"}]
                    \/ d = [call EXCEPT !.found = row[1], !.current = IsCurrent(row[1])]
                    \/ d = [call EXCEPT !.chunks = found,
                              !.gaps = @ \cup IF found = {} THEN {"no_chunks"} ELSE {}]
    BY <1>7, <2>2, <2>3 DEF findControl, controlChunks
  <2>5. DOMAIN d = DOMAIN call /\ d.tool = call.tool
    BY <2>1, <2>4
  <2> QED
    BY <1>5, <2>1, <2>4, <2>5
<1>8. CASE \/ citationVersions \/ FoundElsewhere \/ AmbiguousCitation \/ controlAmendments
           \/ controlParent \/ controlChildren \/ outboundMappings \/ inboundMappings
           \/ versionRelations \/ versionLineage \/ ProjectDocument \/ DiagnosticFails
  <2>1. Looking
    BY <1>8 DEF citationVersions, FoundElsewhere, AmbiguousCitation, controlAmendments,
       controlParent, controlChildren, outboundMappings, inboundMappings, versionRelations,
       versionLineage, ProjectDocument, DiagnosticFails, DocAt
  <2>2. \E f, v : f # "tool" /\ DocContinue([call EXCEPT ![f] = v])
    <3>1. CASE citationVersions \/ FoundElsewhere \/ AmbiguousCitation
      <4>1. ASSUME NEW kind, NEW rows, Tell(kind, rows)
            PROVE  \E f, v : f # "tool" /\ DocContinue([call EXCEPT ![f] = v])
        BY <4>1 DEF Tell
      <4> QED
        BY <3>1, <4>1 DEF citationVersions, FoundElsewhere, AmbiguousCitation
    <3>2. CASE controlAmendments \/ controlParent \/ controlChildren
      BY <3>2 DEF controlAmendments, controlParent, controlChildren
    <3>3. CASE outboundMappings \/ inboundMappings
      BY <3>3 DEF outboundMappings, inboundMappings
    <3>4. CASE versionRelations
      BY <3>4 DEF versionRelations
    <3>5. CASE versionLineage
      BY <3>5 DEF versionLineage
    <3>6. CASE ProjectDocument \/ DiagnosticFails
      BY <3>6 DEF ProjectDocument, DiagnosticFails
    <3> QED
      BY <1>8, <3>1, <3>2, <3>3, <3>4, <3>5, <3>6
  <2> QED
    BY <1>6, <2>1, <2>2
<1> QED
  BY <1>2, <1>3, <1>4, <1>7, <1>8 DEF DocumentNext

\* A statement of the document tools continues or ends a call of theirs.
LEMMA DocumentMoves ==
    ASSUME DocInv, DocumentNext
    PROVE  call' = NULL \/ call'.tool \in {"document", "corpus_status"}
BY LookupMoves DEF CorpusStatus

-----------------------------------------------------------------------------
(* corpus_status.                                                          *)

\* The counts of a version: vectors are of chunks and models, and a control has one
\* chunk.
LEMMA CountsInOrder ==
    ASSUME CorpusInv, NEW v, NEW s, s = CountsOf(v)
    PROVE  /\ s.version = v /\ (s.current <=> v \in current)
           /\ s.embeddings <= s.chunks * Cardinality(Models)
           /\ s.chunks <= s.controls /\ s.withdrawn <= s.controls
           /\ s.chunks > 0 <=> ChunksOf(v) # {}
<1>1. PICK C : C = ChunksOf(v)
  OBVIOUS
<1>2. PICK R : R = {r \in control : VersionOf(r) = v}
  OBVIOUS
<1>3. PICK W : W = {r \in control : VersionOf(r) = v /\ At(r).status = "withdrawn"}
  OBVIOUS
<1>4. PICK V : V = {e \in vector : e[1] \in C}
  OBVIOUS
<1>5. /\ s.version = v /\ s.current = (v \in current)
      /\ s.controls = Cardinality(R) /\ s.withdrawn = Cardinality(W)
      /\ s.chunks = Cardinality(C) /\ s.embeddings = Cardinality(V)
  BY <1>1, <1>2, <1>3, <1>4 DEF CountsOf
<1>6. /\ IsFiniteSet(control) /\ IsFiniteSet(chunk) /\ C \subseteq chunk
      /\ \A k \in C : k.row \in R
      /\ \A j, k \in C : j.row = k.row => j = k
  BY <1>1, <1>2 DEF CorpusInv, Rows, ChunksOf, Joined
<1>7. /\ IsFiniteSet(C) /\ IsFiniteSet(R) /\ IsFiniteSet(W) /\ IsFiniteSet(V)
      /\ Cardinality(V) <= Cardinality(C) * Cardinality(Models)
      /\ Cardinality(W) <= Cardinality(R)
  <2>1. IsFiniteSet(C) /\ IsFiniteSet(R) /\ IsFiniteSet(Models)
    BY <1>2, <1>6, FS_Subset, CorpusAssumption DEF CorpusAssumption
  <2>2. PICK P : P = C \X Models
    OBVIOUS
  <2>3. IsFiniteSet(P) /\ Cardinality(P) = Cardinality(C) * Cardinality(Models)
    BY <2>1, <2>2, FS_Product
  <2>4. V \in SUBSET P /\ W \in SUBSET R
    <3>1. vector \subseteq chunk \X Models
      BY DEF CorpusInv, Rows
    <3> QED
      BY <1>2, <1>3, <1>4, <2>2, <3>1
  <2> QED
    BY <2>1, <2>3, <2>4, FS_Subset
<1>8. Cardinality(C) <= Cardinality(R)
  <2>1. PICK of \in [C -> R] : \A k \in C : of[k] = k.row
    <3>1. [k \in C |-> k.row] \in [C -> R]
      BY <1>6
    <3> QED
      BY <3>1
  <2>2. \A j, k \in C : of[j] = of[k] => j = k
    BY <1>6, <2>1
  <2>3. of \in Injection(C, R)
    BY <2>2, Fun_IsInj
  <2> QED
    BY <1>7, <2>3, FS_Injection
<1>9. Cardinality(C) > 0 <=> C # {}
  <2>1. Cardinality(C) \in Nat
    BY <1>7, FS_CardinalityType
  <2>2. Cardinality(C) = 0 <=> C = {}
    BY <1>7, FS_EmptySet
  <2> QED
    BY <2>1, <2>2
<1> QED
  BY <1>1, <1>5, <1>7, <1>8, <1>9

\* What the recursion of MapThenSumSet asks of a function on the subsets of S.
Sums(sum, f, S) ==
    sum = [s \in SUBSET S |-> IF s = {} THEN 0
             ELSE f[CHOOSE x \in s : TRUE] + sum[s \ {CHOOSE x \in s : TRUE}]]

Summed(f, S) == (CHOOSE sum : Sums(sum, f, S))[S]

\* The recursion has one solution: a subset on which two differ has a smaller one.
LEMMA SumUnique ==
    ASSUME NEW S, IsFiniteSet(S), NEW f, NEW g, Sums(g, f, S), NEW h, Sums(h, f, S)
    PROVE  g[S] = h[S]
<1> DEFINE D == {s \in SUBSET S : g[s] # h[s]}
           T == {Cardinality(s) : s \in D}
<1>1. \A s \in SUBSET S : IsFiniteSet(s) /\ Cardinality(s) \in Nat
  BY FS_Subset, FS_CardinalityType
<1>2. CASE D # {}
  <2>1. T \in SUBSET Nat /\ T # {}
    BY <1>1, <1>2
  <2> HIDE DEF T
  <2>2. PICK n \in T : \A m \in T : n <= m
    BY <2>1, LeastNumber
  <2>3. PICK s \in D : n = Cardinality(s)
    BY <2>2 DEF T
  <2>4. s \in SUBSET S /\ g[s] # h[s]
    OBVIOUS
  <2>5. s # {}
    BY <2>4 DEF Sums
  <2>6. PICK x \in s : x = CHOOSE y \in s : TRUE
    BY <2>5
  <2>7. PICK t : t = s \ {x}
    OBVIOUS
  <2>8. g[s] = f[x] + g[t] /\ h[s] = f[x] + h[t]
    BY <2>4, <2>5, <2>6, <2>7 DEF Sums
  <2>9. t \in SUBSET S /\ Cardinality(t) = n - 1 /\ n \in Nat
    BY <1>1, <2>3, <2>4, <2>6, <2>7, FS_RemoveElement
  <2>10. t \in D
    BY <2>4, <2>8, <2>9
  <2>11. n <= n - 1
    BY <2>2, <2>9, <2>10 DEF T
  <2> QED
    BY <2>9, <2>11
<1> QED
  BY <1>2

\* How many items of E a function assigns to s.
Share(E, of, s) == Cardinality({e \in E : of[e] = s})

\* Every item of E is counted with one member of S: the counts add up to all of E.
LEMMA CountsAddUp ==
    ASSUME NEW S, IsFiniteSet(S), NEW E, IsFiniteSet(E), NEW of \in [E -> S],
           NEW f, f = [s \in S |-> Share(E, of, s)]
    PROVE  Summed(f, S) = Cardinality(E)
<1> DEFINE part(s) == {e \in E : of[e] \in s}
           g == [s \in SUBSET S |-> Cardinality(part(s))]
<1>1. Sums(g, f, S)
  <2>1. ASSUME NEW s \in SUBSET S, s = {} PROVE g[s] = 0
    <3>1. part(s) = {}
      BY <2>1
    <3> QED
      BY <3>1, FS_EmptySet
  <2>2. ASSUME NEW s \in SUBSET S, s # {}
        PROVE  g[s] = f[CHOOSE x \in s : TRUE] + g[s \ {CHOOSE x \in s : TRUE}]
    <3>1. PICK x \in s : x = CHOOSE y \in s : TRUE
      BY <2>2
    <3>2. PICK t : t = s \ {x}
      OBVIOUS
    <3>3. PICK A : A = {e \in E : of[e] = x}
      OBVIOUS
    <3>4. PICK B : B = part(t)
      OBVIOUS
    <3>5. part(s) = A \cup B /\ A \cap B = {}
      BY <3>1, <3>2, <3>3, <3>4
    <3>6. IsFiniteSet(A) /\ IsFiniteSet(B)
      BY <3>3, <3>4, FS_Subset
    <3>7. Cardinality(A \cup B) = Cardinality(A) + Cardinality(B)
      <4>1. Cardinality(A \cup B) = Cardinality(A) + Cardinality(B) - Cardinality(A \cap B)
        BY <3>6, FS_Union
      <4>2. Cardinality(A) \in Nat /\ Cardinality(B) \in Nat /\ Cardinality(A \cap B) = 0
        BY <3>5, <3>6, FS_EmptySet, FS_CardinalityType
      <4> QED
        BY <4>1, <4>2
    <3>8. g[s] = Cardinality(A \cup B) /\ f[x] = Cardinality(A) /\ g[t] = Cardinality(B)
      BY <3>1, <3>2, <3>3, <3>4, <3>5 DEF Share
    <3> QED
      BY <3>1, <3>2, <3>7, <3>8
  <2> HIDE DEF part
  <2>3. g = [s \in SUBSET S |-> IF s = {} THEN 0
               ELSE f[CHOOSE x \in s : TRUE] + g[s \ {CHOOSE x \in s : TRUE}]]
    BY <2>1, <2>2
  <2> QED
    BY <2>3 DEF Sums
<1>2. g[S] = Cardinality(E)
  <2>1. part(S) = E
    OBVIOUS
  <2> QED
    BY <2>1
<1> HIDE DEF g
<1>3. PICK h : h = CHOOSE sum : Sums(sum, f, S)
  OBVIOUS
<1>4. Sums(h, f, S)
  BY <1>1, <1>3
<1>5. g[S] = h[S]
  BY <1>1, <1>4, SumUnique
<1> QED
  BY <1>2, <1>3, <1>5 DEF Summed

\* The two sums of corpus_status, as functions of the rows.
LEMMA SumsOf ==
    ASSUME NEW S
    PROVE  /\ MapThenSumSet(LAMBDA s : s.resolved, S)
                = Summed([s \in S |-> s.resolved], S)
           /\ MapThenSumSet(LAMBDA s : s.inbound, S)
                = Summed([s \in S |-> s.inbound], S)
BY DEF MapThenSumSet, MapThenFoldSet, Sums, Summed

\* The edges are finitely many: they leave controls for controls.
LEMMA EdgesFinite == ASSUME CorpusInv PROVE IsFiniteSet(edge)
<1> DEFINE ends == (control \X Entry) \X (control \cup {NULL})
           of == [p \in ends |-> [from |-> p[1][1], names |-> p[1][2], to |-> p[2]]]
           all == {of[p] : p \in ends}
<1>1. IsFiniteSet(control) /\ IsFiniteSet(Entry) /\ IsFiniteSet(control \cup {NULL})
  <2>1. IsFiniteSet(control) /\ IsFiniteSet({NULL})
    BY FS_Singleton DEF CorpusInv, Rows
  <2> QED
    BY <2>1, EntryFinite, FS_Union
<1>2. IsFiniteSet(ends)
  <2>1. IsFiniteSet(control \X Entry)
    BY <1>1, FS_Product
  <2> QED
    BY <1>1, <2>1, FS_Product
<1>3. of \in Surjection(ends, all)
  <2>1. of \in [ends -> all] /\ \A y \in all : \E p \in ends : of[p] = y
    <3> DEFINE img(p) == [from |-> p[1][1], names |-> p[1][2], to |-> p[2]]
    <3>1. of = [p \in ends |-> img(p)] /\ all = {of[p] : p \in ends}
      OBVIOUS
    <3> HIDE DEF img, ends
    <3> QED
      BY <3>1
  <2> HIDE DEF of, ends, all
  <2> QED
    BY <2>1, Fun_IsSurj
<1>4. IsFiniteSet(all)
  <2> HIDE DEF of, all, ends
  <2> QED
    BY <1>2, <1>3, FS_Surjection
<1>5. edge \subseteq all
  <2> SUFFICES ASSUME NEW m \in edge PROVE m \in all
    OBVIOUS
  <2>1. /\ m = [from |-> m.from, names |-> m.names, to |-> m.to]
        /\ m.names \in Entry /\ m.from \in control /\ m.to \in control \cup {NULL}
    BY DEF CorpusInv, Edges
  <2>2. PICK p : p = <<<<m.from, m.names>>, m.to>>
    OBVIOUS
  <2>3. p \in ends /\ of[p] = m
    BY <2>1, <2>2
  <2> HIDE DEF of, ends
  <2> QED
    BY <2>3
<1> QED
  BY <1>4, <1>5, FS_Subset

\* The versions are finitely many.
LEMMA VersionsFinite == IsFiniteSet(Version)
<1> DEFINE of == [d \in Doc |-> [fw |-> d.fw, ver |-> d.ver]]
<1>1. of \in Surjection(Doc, Version)
  BY Fun_IsSurj DEF Version
<1>2. IsFiniteSet(Doc)
  BY CorpusAssumption DEF CorpusAssumption
<1> HIDE DEF of
<1> QED
  BY <1>1, <1>2, FS_Surjection

AllResolved(rows) == MapThenSumSet(LAMBDA s : s.resolved, rows)
AllInbound(rows) == MapThenSumSet(LAMBDA s : s.inbound, rows)

Balanced(rows) ==
    AllResolved(rows) + Cardinality(Reaching \ Leaving)
       = AllInbound(rows) + Cardinality(Leaving \ Reaching)

\* The sums stay those of the edges while the edges stay.
LEMMA BalanceStands ==
    ASSUME NEW rows, Balanced(rows), edge' = edge PROVE Balanced(rows)'
<1>1. Leaving' = Leaving /\ Reaching' = Reaching
  BY DEF Leaving, Reaching, VersionOf
<1> QED
  BY <1>1 DEF Balanced

\* Each resolved edge is counted once with the version it leaves and once with the
\* version it reaches, if these are listed.
LEMMA EdgesCounted ==
    ASSUME CorpusInv, NEW rows, rows = {CountsOf(v) : v \in Reported}
    PROVE  Balanced(rows)
<1>1. PICK L : L = Leaving
  OBVIOUS
<1>2. PICK R : R = Reaching
  OBVIOUS
<1>3. IsFiniteSet(L) /\ IsFiniteSet(R) /\ IsFiniteSet(rows)
  <2>1. L \in SUBSET edge /\ R \in SUBSET edge
    BY <1>1, <1>2 DEF Leaving, Reaching
  <2>2. PICK V : V = Reported
    OBVIOUS
  <2>3. IsFiniteSet(V)
    BY <2>2, VersionsFinite, FS_Intersection DEF Reported
  <2> DEFINE of == [v \in V |-> CountsOf(v)]
  <2>4. of \in Surjection(V, rows)
    BY <2>2, Fun_IsSurj
  <2> HIDE DEF of
  <2> QED
    BY <2>1, <2>3, <2>4, EdgesFinite, FS_Subset, FS_Surjection
<1>4. /\ \A m \in L : VersionOf(m.from) \in Reported
      /\ \A m \in R : VersionOf(m.to) \in Reported
  <2>1. \A r \in control : VersionOf(r) \in Version
    BY DEF CorpusInv, Rows, Row, VersionOf, Version
  <2> QED
    BY <1>1, <1>2, <2>1 DEF CorpusInv, Edges, Leaving, Reaching, Reported
<1>5. \A v, w \in Reported : CountsOf(v) = CountsOf(w) => v = w
  <2>1. \A v : CountsOf(v).version = v
    BY DEF CountsOf
  <2> QED
    BY <2>1
<1>6. \A v \in Reported : /\ CountsOf(v).resolved = Cardinality({m \in L : VersionOf(m.from) = v})
                          /\ CountsOf(v).inbound = Cardinality({m \in R : VersionOf(m.to) = v})
  <2> SUFFICES ASSUME NEW v \in Reported
               PROVE  /\ CountsOf(v).resolved = Cardinality({m \in L : VersionOf(m.from) = v})
                      /\ CountsOf(v).inbound = Cardinality({m \in R : VersionOf(m.to) = v})
    OBVIOUS
  <2>1. v \in Listed
    BY DEF Reported
  <2>2. /\ {m \in edge : VersionOf(m.from) = v /\ m.to # NULL}
             = {m \in L : VersionOf(m.from) = v}
        /\ {m \in edge : m.to # NULL /\ VersionOf(m.to) = v} = {m \in R : VersionOf(m.to) = v}
    BY <1>1, <1>2, <2>1 DEF Leaving, Reaching
  <2> QED
    BY <2>2 DEF CountsOf
<1>7. Summed([s \in rows |-> s.resolved], rows) = Cardinality(L)
  <2>1. PICK of \in [L -> rows] : \A m \in L : of[m] = CountsOf(VersionOf(m.from))
    <3>1. [m \in L |-> CountsOf(VersionOf(m.from))] \in [L -> rows]
      BY <1>4
    <3> QED
      BY <3>1
  <2>2. PICK f : f = [s \in rows |-> s.resolved]
    OBVIOUS
  <2>3. ASSUME NEW v \in Reported
        PROVE  {m \in L : of[m] = CountsOf(v)} = {m \in L : VersionOf(m.from) = v}
    BY <1>4, <1>5, <2>1
  <2>4. ASSUME NEW s \in rows PROVE s.resolved = Share(L, of, s)
    <3>1. PICK v \in Reported : s = CountsOf(v)
      OBVIOUS
    <3> QED
      BY <1>6, <2>3, <3>1 DEF Share
  <2>5. f = [s \in rows |-> Share(L, of, s)]
    BY <2>2, <2>4
  <2>6. Summed(f, rows) = Cardinality(L)
    <3> HIDE DEF CountsOf
    <3> QED
      BY <1>3, <2>1, <2>5, CountsAddUp
  <2> QED
    BY <2>2, <2>6
<1>8. Summed([s \in rows |-> s.inbound], rows) = Cardinality(R)
  <2>1. PICK of \in [R -> rows] : \A m \in R : of[m] = CountsOf(VersionOf(m.to))
    <3>1. [m \in R |-> CountsOf(VersionOf(m.to))] \in [R -> rows]
      BY <1>4
    <3> QED
      BY <3>1
  <2>2. PICK f : f = [s \in rows |-> s.inbound]
    OBVIOUS
  <2>3. ASSUME NEW v \in Reported
        PROVE  {m \in R : of[m] = CountsOf(v)} = {m \in R : VersionOf(m.to) = v}
    BY <1>4, <1>5, <2>1
  <2>4. ASSUME NEW s \in rows PROVE s.inbound = Share(R, of, s)
    <3>1. PICK v \in Reported : s = CountsOf(v)
      OBVIOUS
    <3> QED
      BY <1>6, <2>3, <3>1 DEF Share
  <2>5. f = [s \in rows |-> Share(R, of, s)]
    BY <2>2, <2>4
  <2>6. Summed(f, rows) = Cardinality(R)
    <3> HIDE DEF CountsOf
    <3> QED
      BY <1>3, <2>1, <2>5, CountsAddUp
  <2> QED
    BY <2>2, <2>6
<1>9. Cardinality(L) + Cardinality(R \ L) = Cardinality(R) + Cardinality(L \ R)
  <2>1. PICK B : B = L \cap R
    OBVIOUS
  <2>2. B = R \cap L /\ IsFiniteSet(B)
    BY <1>3, <2>1, FS_Intersection
  <2>3. /\ Cardinality(L \ R) = Cardinality(L) - Cardinality(B)
        /\ Cardinality(R \ L) = Cardinality(R) - Cardinality(B)
    <3>1. Cardinality(L \ R) = Cardinality(L) - Cardinality(L \cap R)
      BY <1>3, FS_Difference
    <3>2. Cardinality(R \ L) = Cardinality(R) - Cardinality(R \cap L)
      BY <1>3, FS_Difference
    <3> QED
      BY <2>1, <2>2, <3>1, <3>2
  <2>4. Cardinality(L) \in Nat /\ Cardinality(R) \in Nat /\ Cardinality(B) \in Nat
    BY <1>3, <2>2, FS_CardinalityType
  <2> QED
    BY <2>3, <2>4
<1> QED
  BY <1>1, <1>2, <1>7, <1>8, <1>9, SumsOf DEF Balanced, AllResolved, AllInbound

StatusFacts(c) ==
    /\ DOMAIN c = {"tool", "rows", "calm", "ready"} /\ c.tool = "corpus_status"
    /\ \A s \in c.rows : /\ s.embeddings <= s.chunks * Cardinality(Models)
                         /\ s.chunks <= s.controls /\ s.withdrawn <= s.controls
    /\ \A v, w \in c.rows : v.current /\ w.current /\ v.version.fw = w.version.fw => v = w
    /\ c.ready <=> \E s \in c.rows : s.chunks > 0
    /\ c.calm => Balanced(c.rows)

StatusInv == \A c : c = call /\ c # NULL /\ c.tool = "corpus_status" => StatusFacts(c)

\* One statement reads all the counts.
LEMMA StatusReads == ASSUME CorpusInv, CorpusStatus PROVE StatusInv'
<1> SUFFICES ASSUME NEW c, c = call' PROVE StatusFacts(c)'
  BY DEF StatusInv
<1>1. PICK rows : rows = {CountsOf(v) : v \in Reported}
  OBVIOUS
<1>2. PICK ready \in BOOLEAN : ready <=> \E v \in Reported : ChunksOf(v) # {}
  OBVIOUS
<1>3. c = [tool |-> "corpus_status", rows |-> rows, calm |-> TRUE, ready |-> ready]
  <2>1. ready = (\E v \in Reported : ChunksOf(v) # {})
    BY <1>2
  <2> QED
    BY <1>1, <2>1 DEF CorpusStatus
<1>4. \A s \in rows : \E v \in Reported : s = CountsOf(v)
  BY <1>1
<1>5. \A s \in rows : /\ s.embeddings <= s.chunks * Cardinality(Models)
                      /\ s.chunks <= s.controls /\ s.withdrawn <= s.controls
  BY <1>4, CountsInOrder
<1>6. \A a, b \in rows : a.current /\ b.current /\ a.version.fw = b.version.fw => a = b
  <2> SUFFICES ASSUME NEW a \in rows, NEW b \in rows, a.current, b.current,
                      a.version.fw = b.version.fw
               PROVE  a = b
    OBVIOUS
  <2>1. PICK v \in Reported : a = CountsOf(v)
    BY <1>4
  <2>2. PICK w \in Reported : b = CountsOf(w)
    BY <1>4
  <2>3. a.version = v /\ v \in current /\ b.version = w /\ w \in current
    BY <2>1, <2>2, CountsInOrder
  <2>4. v = w
    BY <2>3 DEF CorpusInv, OneCurrent
  <2> QED
    BY <2>1, <2>2, <2>4
<1>7. ready <=> \E s \in rows : s.chunks > 0
  <2>1. \A v \in Reported : CountsOf(v) \in rows /\ (CountsOf(v).chunks > 0 <=> ChunksOf(v) # {})
    BY <1>1, CountsInOrder
  <2> QED
    BY <1>2, <1>4, <2>1
<1>8. /\ DOMAIN c = {"tool", "rows", "calm", "ready"} /\ c.tool = "corpus_status"
      /\ c.rows = rows /\ c.ready = ready
  BY <1>3
<1>9. Balanced(rows)'
  <2>1. Balanced(rows)
    BY <1>1, EdgesCounted
  <2>2. edge' = edge
    BY DEF CorpusStatus, corpus
  <2> QED
    BY <2>1, <2>2, BalanceStands
<1> QED
  BY <1>5, <1>6, <1>7, <1>8, <1>9 DEF StatusFacts

\* A reply that is there stays as it was read.
LEMMA StatusDisturbed == ASSUME StatusInv, Write PROVE StatusInv'
<1> SUFFICES ASSUME NEW c, c = call', c # NULL, c.tool = "corpus_status" PROVE StatusFacts(c)'
  BY DEF StatusInv
<1>1. JobEnds \/ Disturb
  BY DEF Write, NormalizeDelete, DeleteOrphanChunks, InsertControl, ResolveControlMappings,
     UpsertControlMapping, DeleteChunksForControls, InsertChunk, UpsertChunkEmbedding,
     UpdateChunkSparse, Seed
<1>2. CASE JobEnds
  <2>1. call' = call /\ edge' = edge
    BY <1>2 DEF JobEnds, corpus
  <2>2. StatusFacts(c)
    BY <2>1 DEF StatusInv
  <2>3. c.calm => Balanced(c.rows)'
    BY <2>1, <2>2, BalanceStands DEF StatusFacts
  <2> QED
    BY <2>2, <2>3 DEF StatusFacts
<1>3. CASE Disturb
  <2>1. PICK d : d = call
    OBVIOUS
  <2>2. d # NULL /\ c = [d EXCEPT !.calm = FALSE]
    BY <1>3, <2>1 DEF Disturb
  <2>3. d.tool = "corpus_status"
    BY <2>2
  <2>4. StatusFacts(d)
    BY <2>1, <2>2, <2>3 DEF StatusInv
  <2>5. DOMAIN c = DOMAIN d /\ c.tool = d.tool /\ c.rows = d.rows /\ c.ready = d.ready
        /\ c.calm = FALSE
    BY <2>2, <2>4 DEF StatusFacts
  <2> QED
    BY <2>4, <2>5 DEF StatusFacts
<1> QED
  BY <1>1, <1>2, <1>3

\* Without a status reply there is nothing to agree.
LEMMA NoStatus == ASSUME call' = NULL \/ call'.tool # "corpus_status" PROVE StatusInv'
BY DEF StatusInv

-----------------------------------------------------------------------------
(* search: what the lists tell of what they leave out.                     *)

\* The pairs of A of which the first comes first in an arm that orders by weight.
Heavier(A, weight) ==
    {p \in A \X A : \/ weight[p[1]] > weight[p[2]]
                    \/ weight[p[1]] = weight[p[2]] /\ Precedes(ChunkId(p[1]), ChunkId(p[2]))}

\* A list of A without repetitions in which nothing is listed before its betters.
ArmKnown(s, A, better) ==
    /\ s \in Seq(A) /\ Distinct(s)
    /\ A # {} => s # <<>>
    /\ \A i \in 1..Len(s), k \in A : <<k, s[i]>> \in better =>
          \E j \in 1..Len(s) : j < i /\ s[j] = k

\* The beginning of an ordered set has the betters of all it has.
LEMMA OrderedBegins ==
    ASSUME NEW A, IsFiniteSet(A), NEW R, Strict(A, R), NEW n \in Nat \ {0},
           NEW s, s = Limit(Ordered(A, R), n)
    PROVE  ArmKnown(s, A, R)
<1>1. PICK o : o = Ordered(A, R)
  OBVIOUS
<1>2. /\ o \in Seq(A) /\ Len(o) = Cardinality(A) /\ Distinct(o)
      /\ \A x \in A : \E i \in 1..Len(o) : o[i] = x
      /\ \A i, j \in 1..Len(o) : i < j => <<o[i], o[j]>> \in R
  BY <1>1, OrderedLists
<1>3. s = Limit(o, n) /\ o \in Seq(A)
  BY <1>1, <1>2
<1>4. /\ s \in Seq(A) /\ Len(s) <= Len(o) /\ Len(s) <= n
      /\ Len(s) = n \/ Len(s) = Len(o)
      /\ \A i \in 1..Len(s) : s[i] = o[i]
  BY <1>3, LimitLists
<1>5. Len(s) \in Nat /\ Len(o) \in Nat
  BY <1>3, <1>4, LenProperties
<1>6. A # {} => s # <<>>
  <2> SUFFICES ASSUME NEW x \in A, s = <<>> PROVE FALSE
    OBVIOUS
  <2>1. Len(s) = 0
    OBVIOUS
  <2>2. PICK i \in 1..Len(o) : o[i] = x
    BY <1>2
  <2> QED
    BY <1>4, <1>5, <2>1, <2>2
<1>7. ASSUME NEW i \in 1..Len(s), NEW k \in A, <<k, s[i]>> \in R
      PROVE  \E j \in 1..Len(s) : j < i /\ s[j] = k
  <2>1. PICK j \in 1..Len(o) : o[j] = k
    BY <1>2
  <2>2. i \in 1..Len(o) /\ s[i] = o[i] /\ o[i] \in A
    BY <1>3, <1>4, <1>5, ElementOfSeq
  <2>3. j # i
    BY <1>7, <2>1, <2>2 DEF Strict
  <2>4. ~(i < j)
    <3> SUFFICES ASSUME i < j PROVE FALSE
      OBVIOUS
    <3>1. <<o[i], o[j]>> \in R
      BY <1>2, <2>2
    <3>2. <<k, o[i]>> \in R /\ <<o[i], k>> \in R
      BY <1>7, <2>1, <2>2, <3>1
    <3>3. <<k, k>> \in R
      BY <2>2, <3>2 DEF Strict
    <3> QED
      BY <3>3 DEF Strict
  <2>5. j < i /\ j \in 1..Len(s)
    BY <1>5, <2>3, <2>4
  <2> QED
    BY <1>4, <2>1, <2>5
<1>8. s \in Seq(A) /\ Distinct(s)
  <2>1. o \in Seq(A) /\ Distinct(o)
    BY <1>2
  <2>2. n \in Nat
    OBVIOUS
  <2> QED
    BY <1>3, <2>1, <2>2, DistinctLimit
<1> QED
  BY <1>6, <1>7, <1>8 DEF ArmKnown

\* An arm has the betters of all it lists: weight, then chunk id (vectorArmExact,
\* sparseArm).
LEMMA ArmTells ==
    ASSUME NEW A \in SUBSET ChunkRow, IsFiniteSet(A), NEW weight, \A k \in A : weight[k] \in Int,
           NEW key, key = [k \in A |-> <<-weight[k]>> \o ChunkId(k)],
           NEW s, s = Limit(Ordered(A, By(A, key)), ArmLimit)
    PROVE  ArmKnown(s, A, Heavier(A, weight))
<1>1. PICK lead : lead = [k \in A |-> <<-weight[k]>>]
  OBVIOUS
<1>2. PICK m \in Nat : m = 1
  OBVIOUS
<1>3. Leads(A, lead, m)
  BY <1>1, <1>2 DEF Leads
<1>4. key = Keyed(A, lead)
  BY <1>1 DEF Keyed
<1>5. Strict(A, By(A, key))
  BY <1>3, <1>4, ChunksOrder
<1>6. PICK n \in Nat \ {0} : n = ArmLimit
  BY SearchAssumption DEF SearchAssumption
<1>7. ArmKnown(s, A, By(A, key))
  <2>1. s = Limit(Ordered(A, By(A, key)), n)
    BY <1>6
  <2> QED
    BY <1>5, <2>1, OrderedBegins
<1>8. \A k \in A : /\ Len(key[k]) = 5 /\ key[k][1] = -weight[k]
                   /\ Len(ChunkId(k)) = 4 /\ \A i \in 1..4 : key[k][i + 1] = ChunkId(k)[i]
  <2> SUFFICES ASSUME NEW k \in A
               PROVE  /\ Len(key[k]) = 5 /\ key[k][1] = -weight[k]
                      /\ Len(ChunkId(k)) = 4 /\ \A i \in 1..4 : key[k][i + 1] = ChunkId(k)[i]
    OBVIOUS
  <2>1. PICK t : t = ChunkId(k)
    OBVIOUS
  <2>2. PICK u : u = key[k]
    OBVIOUS
  <2>3. k \in ChunkRow
    OBVIOUS
  <2>4. k.build \in Int /\ k.row \in Row
    BY <2>3 DEF ChunkRow
  <2>5. k.row.build \in Int /\ k.row.doc.id \in Int /\ k.row.n \in Int
    BY <2>4, CorpusAssumption DEF CorpusAssumption, Row
  <2>6. t \in Seq(Int) /\ Len(t) = 4
    BY <2>1, <2>4, <2>5 DEF ChunkId, Id
  <2>7. PICK w \in Int : w = -weight[k]
    OBVIOUS
  <2>10. PICK l : l = <<w>>
    OBVIOUS
  <2>11. l \in Seq(Int) /\ Len(l) = 1 /\ l[1] = w
    BY <2>10
  <2>12. l \in Seq(Int) /\ t \in Seq(Int)
    BY <2>6, <2>11
  <2>8. u = l \o t
    BY <2>1, <2>2, <2>7, <2>10
  <2>9. /\ u \in Seq(Int) /\ Len(u) = Len(l) + Len(t)
        /\ \A i \in 1..Len(l) : u[i] = l[i]
        /\ \A i \in 1..Len(t) : u[Len(l) + i] = t[i]
    BY <2>8, <2>12, Appended
  <2>13. \A i \in 1..4 : u[i + 1] = t[i]
    BY <2>6, <2>9, <2>11
  <2> QED
    BY <2>1, <2>2, <2>6, <2>7, <2>9, <2>11, <2>13
<1>9. ASSUME NEW k \in A, NEW j \in A, <<k, j>> \in Heavier(A, weight)
      PROVE  <<k, j>> \in By(A, key)
  <2>1. CASE weight[k] > weight[j]
    <3>1. 1 \in 1..Len(key[k]) /\ key[k][1] < key[j][1] /\ \A i \in 1..1 - 1 : key[k][i] = key[j][i]
      BY <1>8, <2>1
    <3> QED
      BY <3>1 DEF By, Precedes
  <2>2. CASE weight[k] = weight[j] /\ Precedes(ChunkId(k), ChunkId(j))
    <3>1. PICK s1 : s1 = ChunkId(k)
      OBVIOUS
    <3>2. PICK s2 : s2 = ChunkId(j)
      OBVIOUS
    <3>3. PICK i \in 1..4 : s1[i] < s2[i] /\ \A x \in 1..i - 1 : s1[x] = s2[x]
      BY <1>8, <2>2, <3>1, <3>2 DEF Precedes
    <3>4. i + 1 \in 1..Len(key[k]) /\ key[k][i + 1] < key[j][i + 1]
      BY <1>8, <3>1, <3>2, <3>3
    <3>6. <<k, j>> \in A \X A
      OBVIOUS
    <3>5. ASSUME NEW x \in 1..i PROVE key[k][x] = key[j][x]
      <4>1. CASE x = 1
        BY <1>8, <2>2, <4>1
      <4>2. CASE x > 1
        <5>1. PICK y \in 1..i - 1 : x = y + 1
          BY <4>2
        <5>2. y \in 1..4 /\ s1[y] = s2[y]
          BY <3>3
        <5>3. key[k][y + 1] = s1[y] /\ key[j][y + 1] = s2[y]
          BY <1>8, <3>1, <3>2, <5>2
        <5> QED
          BY <5>1, <5>2, <5>3
      <4>3. x = 1 \/ x > 1
        BY <3>3
      <4> QED
        BY <4>1, <4>2, <4>3
    <3>7. Precedes(key[k], key[j])
      <4>1. PICK z \in 1..Len(key[k]) : z = i + 1
        BY <3>4
      <4>3. \A x \in 1..z - 1 : x \in 1..i
        BY <4>1
      <4>2. key[k][z] < key[j][z] /\ \A x \in 1..z - 1 : key[k][x] = key[j][x]
        BY <3>4, <3>5, <4>1, <4>3
      <4> QED
        BY <4>1, <4>2 DEF Precedes
    <3> QED
      BY <3>6, <3>7 DEF By
  <2> QED
    BY <1>9, <2>1, <2>2 DEF Heavier
<1> QED
  <2>1. \A i \in 1..Len(s) : s[i] \in A
    BY <1>7, ElementOfSeq DEF ArmKnown
  <2> QED
    BY <1>7, <1>9, <2>1 DEF ArmKnown

\* A product of positive numbers is positive.
LEMMA Positive == \A m, n \in Nat \ {0} : m * n \in Nat \ {0}
<1> SUFFICES ASSUME NEW m \in Nat \ {0}, NEW n \in Nat \ {0} PROVE m * n \in Nat \ {0}
  OBVIOUS
<1>1. m * n > 0 * n
  BY Cancels
<1> QED
  BY <1>1

\* Of two sums of two fractions the one with the larger parts is the larger.
LEMMA SumsCompare ==
    ASSUME NEW a \in Nat, NEW b \in Nat \ {0}, NEW c \in Nat, NEW d \in Nat \ {0},
           NEW e \in Nat, NEW f \in Nat \ {0}, NEW g \in Nat, NEW h \in Nat \ {0},
           a * f >= e * b, c * h >= g * d, a * f > e * b \/ c * h > g * d
    PROVE  (a * d + c * b) * (f * h) > (e * h + g * f) * (b * d)
<1>1. PICK x \in Nat, y \in Nat : x = a * f /\ y = e * b
  OBVIOUS
<1>2. PICK z \in Nat, w \in Nat : z = c * h /\ w = g * d
  OBVIOUS
<1>3. PICK m \in Nat \ {0}, n \in Nat \ {0} : m = d * h /\ n = b * f
  BY Positive
<1>4. (a * d + c * b) * (f * h) = x * m + z * n
  <2>1. (a * d + c * b) * (f * h) = (a * f) * (d * h) + (c * h) * (b * f)
    OBVIOUS
  <2> QED
    BY <1>1, <1>2, <1>3, <2>1
<1>5. (e * h + g * f) * (b * d) = y * m + w * n
  <2>1. (e * h + g * f) * (b * d) = (e * b) * (d * h) + (g * d) * (b * f)
    OBVIOUS
  <2> QED
    BY <1>1, <1>2, <1>3, <2>1
<1>6. x >= y /\ z >= w /\ (x > y \/ z > w)
  BY <1>1, <1>2
<1>7. (x > y => x * m > y * m) /\ (z > w => z * n > w * n)
  BY Cancels
<1>8. PICK xm \in Int, ym \in Int, zn \in Int, wn \in Int :
         xm = x * m /\ ym = y * m /\ zn = z * n /\ wn = w * n
  OBVIOUS
<1>9. (x = y => xm = ym) /\ (z = w => zn = wn)
  BY <1>8
<1>10. xm + zn > ym + wn
  BY <1>6, <1>7, <1>8, <1>9
<1> QED
  BY <1>4, <1>5, <1>8, <1>10

\* A hit that is better in each arm that ranks the other is above it (fuseRRF).
LEMMA BetterAbove ==
    ASSUME NEW g, NEW h, g.vrank \in Nat, g.brank \in Nat, h.vrank \in Nat, h.brank \in Nat,
           NEW weight \in Nat \ {0},
           h.vrank > 0 => g.vrank > 0 /\ g.vrank < h.vrank,
           h.brank > 0 => g.brank > 0 /\ g.brank < h.brank,
           h.vrank > 0 \/ h.brank > 0
    PROVE  Above(g, h, weight)
<1>1. PICK k \in Nat : k = RRFK
  BY SearchAssumption DEF SearchAssumption
<1>2. PICK a \in Nat, b \in Nat \ {0} :
         <<a, b>> = IF g.vrank > 0 THEN <<2, k + g.vrank>> ELSE <<0, 1>>
  <2>1. k + g.vrank \in Nat /\ (g.vrank > 0 => k + g.vrank # 0)
    OBVIOUS
  <2> QED
    BY <2>1
<1>3. PICK c \in Nat, d \in Nat \ {0} :
         <<c, d>> = IF g.brank > 0 THEN <<weight, k + g.brank>> ELSE <<0, 1>>
  <2>1. k + g.brank \in Nat /\ (g.brank > 0 => k + g.brank # 0)
    OBVIOUS
  <2> QED
    BY <2>1
<1>4. PICK e \in Nat, f \in Nat \ {0} :
         <<e, f>> = IF h.vrank > 0 THEN <<2, k + h.vrank>> ELSE <<0, 1>>
  <2>1. k + h.vrank \in Nat /\ (h.vrank > 0 => k + h.vrank # 0)
    OBVIOUS
  <2> QED
    BY <2>1
<1>5. PICK i \in Nat, j \in Nat \ {0} :
         <<i, j>> = IF h.brank > 0 THEN <<weight, k + h.brank>> ELSE <<0, 1>>
  <2>1. k + h.brank \in Nat /\ (h.brank > 0 => k + h.brank # 0)
    OBVIOUS
  <2> QED
    BY <2>1
<1>6. a * f >= e * b /\ (h.vrank > 0 => a * f > e * b)
  <2>1. CASE h.vrank > 0
    <3>1. a = 2 /\ e = 2 /\ b = k + g.vrank /\ f = k + h.vrank
      BY <1>2, <1>4, <2>1
    <3>2. f > b
      BY <2>1, <3>1
    <3>3. 2 * f > 2 * b
      BY <3>2
    <3> QED
      BY <3>1, <3>3
  <2>2. CASE ~(h.vrank > 0)
    <3>1. e = 0
      BY <1>4, <2>2
    <3>2. a * f \in Nat /\ e * b = 0
      BY <3>1
    <3> QED
      BY <2>2, <3>2
  <2> QED
    BY <2>1, <2>2
<1>7. c * j >= i * d /\ (h.brank > 0 => c * j > i * d)
  <2>1. CASE h.brank > 0
    <3>1. c = weight /\ i = weight /\ d = k + g.brank /\ j = k + h.brank
      BY <1>3, <1>5, <2>1
    <3>2. j > d
      BY <2>1, <3>1
    <3>3. j * weight > d * weight
      BY <3>2, Cancels
    <3>4. weight * j = j * weight /\ weight * d = d * weight
      OBVIOUS
    <3> QED
      BY <3>1, <3>3, <3>4
  <2>2. CASE ~(h.brank > 0)
    <3>1. i = 0
      BY <1>5, <2>2
    <3>2. c * j \in Nat /\ i * d = 0
      BY <3>1
    <3> QED
      BY <2>2, <3>2
  <2> QED
    BY <2>1, <2>2
<1>8. (a * d + c * b) * (f * j) > (e * j + i * f) * (b * d)
  BY <1>6, <1>7, SumsCompare
<1>9. Score(g, weight) = <<a * d + c * b, b * d>>
  <2>1. PICK v : v = IF g.vrank > 0 THEN <<2, k + g.vrank>> ELSE <<0, 1>>
    OBVIOUS
  <2>2. PICK l : l = IF g.brank > 0 THEN <<weight, k + g.brank>> ELSE <<0, 1>>
    OBVIOUS
  <2>3. v[1] = a /\ v[2] = b /\ l[1] = c /\ l[2] = d
    BY <1>2, <1>3, <2>1, <2>2
  <2>4. Score(g, weight) = <<v[1] * l[2] + l[1] * v[2], v[2] * l[2]>>
    BY <1>1, <2>1, <2>2 DEF Score
  <2> QED
    BY <2>3, <2>4
<1>10. Score(h, weight) = <<e * j + i * f, f * j>>
  <2>1. PICK v : v = IF h.vrank > 0 THEN <<2, k + h.vrank>> ELSE <<0, 1>>
    OBVIOUS
  <2>2. PICK l : l = IF h.brank > 0 THEN <<weight, k + h.brank>> ELSE <<0, 1>>
    OBVIOUS
  <2>3. v[1] = e /\ v[2] = f /\ l[1] = i /\ l[2] = j
    BY <1>4, <1>5, <2>1, <2>2
  <2>4. Score(h, weight) = <<v[1] * l[2] + l[1] * v[2], v[2] * l[2]>>
    BY <1>1, <2>1, <2>2 DEF Score
  <2> QED
    BY <2>3, <2>4
<1> QED
  <2>1. PICK s : s = Score(g, weight)
    OBVIOUS
  <2>2. PICK t : t = Score(h, weight)
    OBVIOUS
  <2>3. s[1] = a * d + c * b /\ s[2] = b * d /\ t[1] = e * j + i * f /\ t[2] = f * j
    BY <1>9, <1>10, <2>1, <2>2
  <2>4. s[1] * t[2] > t[1] * s[2]
    BY <1>8, <2>3
  <2> QED
    BY <2>1, <2>2, <2>4 DEF Above

\* A chunk is better than another if it comes first in every arm that finds the other.
Better(A, better, B, stronger) ==
    {p \in (A \cup B) \X (A \cup B) : /\ p[2] \in A => p[1] \in A /\ p \in better
                                      /\ p[2] \in B => p[1] \in B /\ p \in stronger}

\* From place n + 1 on, what is better than a hit is listed too, ahead of it when no cap
\* moved hits.
Follows(s, n, better, cap) ==
    \A i \in n + 1..Len(s) : \A k : <<k, s[i].chunk>> \in better =>
        \E j \in 1..Len(s) : s[j].chunk = k /\ (cap = 0 => j < i)

\* The rank of what a list lists is its place.
LEMMA RankIsPlace ==
    ASSUME NEW s, Distinct(s), Len(s) \in Nat, NEW i \in 1..Len(s), NEW k, s[i] = k
    PROVE  Rank(s, k) = i /\ k \in Members(s)
<1>1. k \in Members(s)
  BY DEF Members
<1>2. Rank(s, k) = CHOOSE j \in 1..Len(s) : s[j] = k
  BY <1>1 DEF Rank
<1>3. \A j \in 1..Len(s) : s[j] = k => j = i
  BY DEF Distinct
<1> QED
  BY <1>1, <1>2, <1>3

\* The better of two chunks outranks the other in an arm that lists it.
LEMMA ArmRanks ==
    ASSUME NEW A, NEW better, NEW s, ArmKnown(s, A, better), NEW x, x \in Members(s),
           NEW k \in A, <<k, x>> \in better
    PROVE  k \in Members(s) /\ Rank(s, k) > 0 /\ Rank(s, k) < Rank(s, x)
<1>1. s \in Seq(A) /\ Distinct(s)
  BY DEF ArmKnown
<1>2. Len(s) \in Nat
  BY <1>1, LenProperties
<1>3. PICK i \in 1..Len(s) : s[i] = x
  BY DEF Members
<1>4. PICK j \in 1..Len(s) : j < i /\ s[j] = k
  BY <1>3 DEF ArmKnown
<1>5. Rank(s, x) = i
  BY <1>1, <1>2, <1>3, RankIsPlace
<1>6. Rank(s, k) = j /\ k \in Members(s)
  BY <1>1, <1>2, <1>4, RankIsPlace
<1> QED
  BY <1>2, <1>4, <1>5, <1>6

\* A fusion lists what its arms list, the better ahead (fuseRRF).
LEMMA FusionTells ==
    ASSUME NEW A, NEW B, A \cup B \in SUBSET ChunkRow, NEW better, NEW stronger,
           NEW dense, NEW lexical, ArmKnown(dense, A, better), ArmKnown(lexical, B, stronger),
           NEW weight \in Nat \ {0}, NEW t, t = fuseRRF(dense, lexical, weight)
    PROVE  /\ t = <<>> => A \cup B = {}
           /\ Follows(t, 0, Better(A, better, B, stronger), 0)
<1> DEFINE all == Members(dense) \cup Members(lexical)
           rec(k) == [chunk |-> k, vrank |-> Rank(dense, k), brank |-> Rank(lexical, k)]
           hits == {rec(k) : k \in all}
           R == {p \in hits \X hits : Above(p[1], p[2], weight)}
<1>1. dense \in Seq(A) /\ lexical \in Seq(B) /\ Distinct(dense) /\ Distinct(lexical)
  BY DEF ArmKnown
<1>2. /\ IsFiniteSet(Members(dense)) /\ Members(dense) \subseteq A
      /\ \A k : Rank(dense, k) \in Nat /\ (Rank(dense, k) > 0 => k \in Members(dense))
  BY <1>1, MembersFinite
<1>3. /\ IsFiniteSet(Members(lexical)) /\ Members(lexical) \subseteq B
      /\ \A k : Rank(lexical, k) \in Nat /\ (Rank(lexical, k) > 0 => k \in Members(lexical))
  BY <1>1, MembersFinite
<1>4. IsFiniteSet(all) /\ all \subseteq A \cup B
  BY <1>2, <1>3, FS_Union
<1>5. IsFiniteSet(hits)
  <2> DEFINE of == [k \in all |-> rec(k)]
  <2>1. of \in [all -> hits] /\ \A h \in hits : \E k \in all : of[k] = h
    OBVIOUS
  <2>2. of \in Surjection(all, hits)
    <3> HIDE DEF of, hits, all
    <3> QED
      BY <2>1, Fun_IsSurj
  <2> HIDE DEF of, hits, all
  <2> QED
    BY <1>4, <2>2, FS_Surjection
<1>6. t = Ordered(hits, R)
  BY DEF fuseRRF
<1>7. \A k \in all : /\ rec(k) \in hits /\ rec(k).chunk = k
                     /\ rec(k).vrank = Rank(dense, k) /\ rec(k).brank = Rank(lexical, k)
  OBVIOUS
<1>8. \A h \in hits : h.chunk \in all /\ h = rec(h.chunk)
  OBVIOUS
<1> HIDE DEF hits, rec
<1>9. Strict(hits, R)
  <2>1. \A h \in hits : h.chunk \in A \cup B /\ h.vrank \in Nat /\ h.brank \in Nat
    BY <1>2, <1>3, <1>4, <1>7, <1>8
  <2>2. \A g, h \in hits : g.chunk = h.chunk => g = h
    BY <1>8
  <2>3. PICK S : S = A \cup B
    OBVIOUS
  <2>4. S \in SUBSET ChunkRow /\ weight \in Nat /\ \A h \in hits : h.chunk \in S /\ h.vrank \in Nat /\ h.brank \in Nat
    BY <2>1, <2>3
  <2> QED
    BY <2>2, <2>4, AboveOrders
<1>10. \A g, h \in hits : Above(g, h, weight) => <<g, h>> \in R
  OBVIOUS
<1> HIDE DEF R
<1>11. /\ t \in Seq(hits) /\ Distinct(t)
       /\ \A x \in hits : \E i \in 1..Len(t) : t[i] = x
       /\ \A i, j \in 1..Len(t) : i < j => <<t[i], t[j]>> \in R
  BY <1>5, <1>6, <1>9, OrderedLists
<1>12. Len(t) \in Nat /\ \A i \in 1..Len(t) : t[i] \in hits
  BY <1>11, LenProperties, ElementOfSeq
<1>13. t = <<>> => A \cup B = {}
  <2> SUFFICES ASSUME t = <<>> PROVE A \cup B = {}
    OBVIOUS
  <2>1. hits = {}
    BY <1>11
  <2>2. all = {}
    BY <1>7, <2>1
  <2>3. dense # <<>> => dense[1] \in Members(dense)
    <3>1. dense # <<>> => 1 \in 1..Len(dense)
      BY <1>1, EmptySeq, LenProperties
    <3> QED
      BY <3>1 DEF Members
  <2>4. lexical # <<>> => lexical[1] \in Members(lexical)
    <3>1. lexical # <<>> => 1 \in 1..Len(lexical)
      BY <1>1, EmptySeq, LenProperties
    <3> QED
      BY <3>1 DEF Members
  <2> QED
    BY <2>2, <2>3, <2>4 DEF ArmKnown
<1>14. ASSUME NEW i \in 1..Len(t), NEW k, <<k, t[i].chunk>> \in Better(A, better, B, stronger)
       PROVE  \E j \in 1..Len(t) : t[j].chunk = k /\ j < i
  <2>1. PICK h \in hits : h = t[i]
    BY <1>12
  <2>2. PICK x \in all : x = h.chunk /\ h = rec(x)
    BY <1>8
  <2>3. /\ x \in A => k \in A /\ <<k, x>> \in better
        /\ x \in B => k \in B /\ <<k, x>> \in stronger
    BY <1>14, <2>1, <2>2 DEF Better
  <2>4. x \in Members(dense) =>
           k \in Members(dense) /\ Rank(dense, k) > 0 /\ Rank(dense, k) < Rank(dense, x)
    BY <1>2, <2>3, ArmRanks
  <2>5. x \in Members(lexical) =>
           k \in Members(lexical) /\ Rank(lexical, k) > 0 /\ Rank(lexical, k) < Rank(lexical, x)
    BY <1>3, <2>3, ArmRanks
  <2>6. k \in all
    BY <2>4, <2>5
  <2>7. PICK g \in hits : g = rec(k) /\ g.chunk = k
    BY <1>7, <2>6
  <2>8. /\ g.vrank = Rank(dense, k) /\ g.brank = Rank(lexical, k)
        /\ h.vrank = Rank(dense, x) /\ h.brank = Rank(lexical, x)
    BY <1>7, <2>2, <2>6, <2>7
  <2>9. /\ h.vrank > 0 => g.vrank > 0 /\ g.vrank < h.vrank
        /\ h.brank > 0 => g.brank > 0 /\ g.brank < h.brank
    BY <1>2, <1>3, <2>4, <2>5, <2>8
  <2>10. h.vrank > 0 \/ h.brank > 0
    <3>1. x \in Members(dense) => Rank(dense, x) > 0
      BY <1>2, <2>4
    <3>2. x \in Members(lexical) => Rank(lexical, x) > 0
      BY <1>3, <2>5
    <3> QED
      BY <2>8, <3>1, <3>2
  <2>11. Above(g, h, weight)
    <3>1. g.vrank \in Nat /\ g.brank \in Nat /\ h.vrank \in Nat /\ h.brank \in Nat
      BY <1>2, <1>3, <2>8
    <3> QED
      BY <2>9, <2>10, <3>1, BetterAbove
  <2>12. PICK j \in 1..Len(t) : t[j] = g
    BY <1>11
  <2>13. <<t[j], t[i]>> \in R
    BY <1>10, <2>1, <2>11, <2>12
  <2>14. j # i
    BY <1>9, <1>12, <2>13 DEF Strict
  <2>15. ~(i < j)
    <3> SUFFICES ASSUME i < j PROVE FALSE
      OBVIOUS
    <3>1. <<t[i], t[j]>> \in R
      BY <1>11
    <3>2. <<t[i], t[i]>> \in R
      BY <1>9, <1>12, <2>13, <3>1 DEF Strict
    <3> QED
      BY <1>9, <1>12, <3>2 DEF Strict
  <2> QED
    BY <1>12, <2>7, <2>12, <2>14, <2>15
<1> QED
  BY <1>13, <1>14 DEF Follows

\* The beginning of a list has what the list has ahead of its hits.
LEMMA LimitFollows ==
    ASSUME NEW T, NEW s \in Seq(T), NEW n \in Nat, NEW t, t = Limit(s, n), NEW better,
           Follows(s, 0, better, 0)
    PROVE  Follows(t, 0, better, 0)
<1>1. /\ t \in Seq(T) /\ Len(t) <= Len(s)
      /\ \A i \in 1..Len(t) : t[i] = s[i]
  BY LimitLists
<1>2. Len(s) \in Nat /\ Len(t) \in Nat
  BY <1>1, LenProperties
<1> SUFFICES ASSUME NEW i \in 1..Len(t), NEW k, <<k, t[i].chunk>> \in better
             PROVE  \E j \in 1..Len(t) : t[j].chunk = k /\ j < i
  BY DEF Follows
<1>3. i \in 1..Len(s) /\ t[i] = s[i]
  BY <1>1, <1>2
<1>4. PICK j \in 1..Len(s) : s[j].chunk = k /\ j < i
  <2>1. i \in 0 + 1..Len(s) /\ <<k, s[i].chunk>> \in better
    BY <1>3
  <2> QED
    BY <2>1 DEF Follows
<1>5. j \in 1..Len(t)
  BY <1>2, <1>4
<1> QED
  BY <1>1, <1>4, <1>5

\* What is better than a kept hit is in the list, and kept ahead of it if it is kept.
KeptAfter(t, s, I, better, cap) ==
    \A i \in 1..Len(t) : \A k : <<k, t[i].chunk>> \in better =>
        \E l \in 1..Len(s) :
           /\ s[l].chunk = k
           /\ l \in I => \E j \in 1..Len(t) : t[j].chunk = k /\ (cap = 0 => j < i)

\* Keeping some hits keeps the order of the better ones.
LEMMA KeptFollows ==
    ASSUME NEW T, NEW s \in Seq(T), Once(s), NEW I, I \subseteq 1..Len(s),
           NEW t, t = Kept(s, I), NEW better, NEW cap \in Nat, Follows(s, 0, better, cap)
    PROVE  KeptAfter(t, s, I, better, cap)
<1> SUFFICES ASSUME NEW i \in 1..Len(t), NEW k, <<k, t[i].chunk>> \in better
             PROVE  \E l \in 1..Len(s) :
                       /\ s[l].chunk = k
                       /\ l \in I => \E j \in 1..Len(t) : t[j].chunk = k /\ (cap = 0 => j < i)
  BY DEF KeptAfter
<1>1. t \in Seq(T) /\ Picked(t, s, I)
  BY KeptLists
<1>2. Len(s) \in Nat /\ Len(t) \in Nat
  BY <1>1, LenProperties
<1>3. PICK m \in I : t[i] = s[m]
  BY <1>1 DEF Picked
<1>4. PICK l \in 1..Len(s) : s[l].chunk = k /\ (cap = 0 => l < m)
  <2>1. m \in 0 + 1..Len(s) /\ <<k, s[m].chunk>> \in better
    BY <1>3
  <2> QED
    BY <2>1 DEF Follows
<1>5. ASSUME l \in I PROVE \E j \in 1..Len(t) : t[j].chunk = k /\ (cap = 0 => j < i)
  <2>1. PICK j \in 1..Len(t) : t[j] = s[l]
    BY <1>1, <1>5 DEF Picked
  <2>2. ASSUME cap = 0, ~(j < i) PROVE FALSE
    <3>1. l < m /\ m \in 1..Len(s)
      BY <1>3, <1>4, <2>2
    <3>2. CASE j = i
      <4>1. s[l].chunk = s[m].chunk
        BY <1>3, <2>1, <3>2
      <4>2. l = m
        BY <3>1, <4>1 DEF Once
      <4> QED
        BY <1>2, <3>1, <4>2
    <3>3. CASE i < j
      <4>1. PICK x \in I, y \in I : x < y /\ t[i] = s[x] /\ t[j] = s[y]
        BY <1>1, <3>3 DEF Picked
      <4>2. x \in 1..Len(s) /\ y \in 1..Len(s) /\ s[x].chunk = s[m].chunk /\ s[y].chunk = s[l].chunk
        BY <1>3, <2>1, <4>1
      <4>3. x = m /\ y = l
        BY <3>1, <4>2 DEF Once
      <4> QED
        BY <1>2, <3>1, <4>1, <4>3
    <3> QED
      BY <1>2, <2>2, <3>2, <3>3
  <2> QED
    BY <1>4, <2>1, <2>2
<1> QED
  BY <1>4, <1>5

\* Hits of S as a hydration of now marks them.
Fresh(S) == {h \in Hit(S) : h.current = IsCurrent(h.chunk.row)}

\* Hydration keeps every hit whose chunk still joins its control (hydrate).
LEMMA HydratedAll ==
    ASSUME NEW S \in SUBSET Joined, NEW s \in Seq(Ranked(S)), Once(s), NEW t, t = Hydrated(s)
    PROVE  /\ t \in Seq(Fresh(S)) /\ Once(t)
           /\ Len(t) <= Len(s) /\ (t = <<>> => s = <<>>)
           /\ \A better : Follows(s, 0, better, 0) => Follows(t, 0, better, 0)
<1>1. PICK I : I = {i \in 1..Len(s) : s[i].chunk \in Joined}
  OBVIOUS
<1>2. PICK found : found = Kept(s, I)
  OBVIOUS
<1>3. I = 1..Len(s) /\ Len(s) \in Nat
  <2>1. \A i \in 1..Len(s) : s[i] \in Ranked(S)
    BY ElementOfSeq
  <2> QED
    BY <1>1, <2>1, LenProperties DEF Ranked
<1>4. I \subseteq 1..Len(s)
  BY <1>1
<1>5. found \in Seq(Ranked(S)) /\ Len(found) <= Len(s) /\ Picked(found, s, I)
  BY <1>2, <1>4, KeptLists
<1>6. Len(found) \in Nat /\ \A i \in 1..Len(found) : found[i] \in Ranked(S)
  BY <1>5, LenProperties, ElementOfSeq
<1>7. t = [i \in 1..Len(found) |->
             [chunk |-> found[i].chunk, vrank |-> found[i].vrank, brank |-> found[i].brank,
              current |-> IsCurrent(found[i].chunk.row), pinned |-> FALSE]]
  BY <1>1, <1>2 DEF Hydrated
<1>8. \A i \in 1..Len(found) : t[i] \in Fresh(S) /\ t[i].chunk = found[i].chunk
  <2> SUFFICES ASSUME NEW i \in 1..Len(found)
               PROVE  t[i] \in Fresh(S) /\ t[i].chunk = found[i].chunk
    OBVIOUS
  <2>1. PICK h \in Ranked(S) : h = found[i]
    BY <1>6
  <2>2. PICK yes \in BOOLEAN : yes = IsCurrent(h.chunk.row)
    <3>1. IsCurrent(h.chunk.row) \in BOOLEAN
      BY DEF IsCurrent
    <3> QED
      BY <3>1
  <2>3. t[i] = [chunk |-> h.chunk, vrank |-> h.vrank, brank |-> h.brank,
                current |-> yes, pinned |-> FALSE]
    BY <1>7, <2>1, <2>2
  <2> QED
    BY <2>1, <2>2, <2>3 DEF Ranked, Hit, Fresh, Vouched
<1>9. t \in Seq(Fresh(S)) /\ Len(t) = Len(found)
  BY <1>6, <1>7, <1>8
<1>10. Once(t)
  BY HydratedOnce
<1>11. t = <<>> => s = <<>>
  <2> SUFFICES ASSUME t = <<>> PROVE s = <<>>
    OBVIOUS
  <2>1. Len(found) = 0
    BY <1>9
  <2>2. ~ \E i \in 1..Len(s) : TRUE
    BY <1>3, <1>5, <2>1 DEF Picked
  <2>3. Len(s) = 0
    BY <1>3, <2>2
  <2> QED
    BY <2>3, EmptySeq
<1>12. ASSUME NEW better, Follows(s, 0, better, 0) PROVE Follows(t, 0, better, 0)
  <2> SUFFICES ASSUME NEW i \in 1..Len(t), NEW k, <<k, t[i].chunk>> \in better
               PROVE  \E j \in 1..Len(t) : t[j].chunk = k /\ j < i
    BY DEF Follows
  <2>1. i \in 1..Len(found) /\ <<k, found[i].chunk>> \in better
    BY <1>8, <1>9
  <2>4. PICK cap \in Nat : cap = 0
    OBVIOUS
  <2>5. Follows(s, 0, better, cap)
    BY <1>12, <2>4
  <2>2. KeptAfter(found, s, I, better, cap)
    BY <1>2, <1>4, <2>5, KeptFollows
  <2>3. PICK j \in 1..Len(found) : found[j].chunk = k /\ j < i
    BY <1>3, <2>1, <2>2, <2>4 DEF KeptAfter
  <2> QED
    BY <1>8, <1>9, <2>3
<1> QED
  BY <1>5, <1>9, <1>10, <1>11, <1>12

\* A cap that need not cut lists the same hits in another order (capPerFramework).
LEMMA CappedAll ==
    ASSUME NEW T, NEW hits \in Seq(T), Once(hits), NEW cap, NEW topK \in Nat,
           Len(hits) <= topK, NEW t, t = capPerFramework(hits, cap, topK)
    PROVE  /\ t \in Seq(T) /\ Once(t) /\ Len(t) = Len(hits)
           /\ \A better, n : Follows(hits, 0, better, 0) /\ n # 0 => Follows(t, 0, better, n)
<1>1. PICK I : I = {j \in 1..Len(hits) : Cardinality(Ahead(hits, j)) < cap}
  OBVIOUS
<1>2. PICK J : J = 1..Len(hits) \ I
  OBVIOUS
<1>3. I \subseteq 1..Len(hits) /\ J \subseteq 1..Len(hits)
  BY <1>1, <1>2
<1>4. PICK a : a = Kept(hits, I)
  OBVIOUS
<1>5. PICK b : b = Kept(hits, J)
  OBVIOUS
<1>6. a \in Seq(T) /\ Len(a) = Cardinality(I) /\ Picked(a, hits, I)
  BY <1>3, <1>4, KeptLists
<1>7. b \in Seq(T) /\ Len(b) = Cardinality(J) /\ Picked(b, hits, J)
  BY <1>3, <1>5, KeptLists
<1>8. PICK u : u = a \o b
  OBVIOUS
<1>9. /\ u \in Seq(T) /\ Len(u) = Len(a) + Len(b)
      /\ \A i \in 1..Len(a) : u[i] = a[i]
      /\ \A i \in 1..Len(b) : u[Len(a) + i] = b[i]
  <2>1. a \in Seq(T) /\ b \in Seq(T)
    BY <1>6, <1>7
  <2> QED
    BY <1>8, <2>1, Appended
<1>10. Len(hits) \in Nat /\ Len(a) \in Nat /\ Len(b) \in Nat
  BY <1>6, <1>7, LenProperties
<1>11. Len(u) = Len(hits)
  <2>1. PICK n \in Nat : n = Len(hits)
    BY <1>10
  <2>2. IsFiniteSet(1..n) /\ Cardinality(1..n) = n
    <3>1. 1 \in Int /\ n \in Int
      OBVIOUS
    <3>2. IsFiniteSet(1..n) /\ Cardinality(1..n) = IF 1 > n THEN 0 ELSE n - 1 + 1
      BY <3>1, FS_Interval
    <3> QED
      BY <3>2
  <2>3. PICK A : A = 1..n
    OBVIOUS
  <2>4. IsFiniteSet(I) /\ IsFiniteSet(J)
    BY <1>3, <2>1, <2>2, FS_Subset
  <2>5. I \cup J = A /\ I \cap J = {}
    BY <1>1, <1>2, <2>1, <2>3
  <2>6. Cardinality(I \cup J) = Cardinality(I) + Cardinality(J) - Cardinality(I \cap J)
    BY <2>4, FS_Union
  <2>7. Cardinality(I \cap J) = 0
    BY <2>5, FS_EmptySet
  <2>8. Cardinality(I \cup J) = n
    BY <2>2, <2>3, <2>5
  <2> QED
    BY <1>6, <1>7, <1>9, <1>10, <2>1, <2>6, <2>7, <2>8
<1>12. t = Limit(u, topK)
  BY <1>1, <1>2, <1>4, <1>5, <1>8 DEF capPerFramework
<1>13. /\ t \in Seq(T) /\ Len(t) <= Len(u) /\ Len(t) <= topK
       /\ Len(t) = topK \/ Len(t) = Len(u)
       /\ \A i \in 1..Len(t) : t[i] = u[i]
  <2>1. u \in Seq(T)
    BY <1>9
  <2> QED
    BY <1>12, <2>1, LimitLists
<1>14. Len(t) = Len(hits)
  <2>1. Len(t) \in Nat
    BY <1>13, LenProperties
  <2> QED
    BY <1>10, <1>11, <1>13, <2>1
<1>15. \A l \in 1..Len(hits) : \E j \in 1..Len(t) : t[j] = hits[l]
  <2> SUFFICES ASSUME NEW l \in 1..Len(hits) PROVE \E j \in 1..Len(t) : t[j] = hits[l]
    OBVIOUS
  <2>1. CASE l \in I
    <3>1. PICK i \in 1..Len(a) : a[i] = hits[l]
      BY <1>6, <2>1 DEF Picked
    <3>2. i \in 1..Len(t)
      BY <1>9, <1>10, <1>11, <1>14
    <3> QED
      BY <1>9, <1>13, <3>1, <3>2
  <2>2. CASE l \notin I
    <3>1. PICK i \in 1..Len(b) : b[i] = hits[l]
      BY <1>2, <1>7, <2>2 DEF Picked
    <3>2. Len(a) + i \in 1..Len(t)
      BY <1>9, <1>10, <1>11, <1>14
    <3> QED
      BY <1>9, <1>13, <3>1, <3>2
  <2> QED
    BY <2>1, <2>2
<1>16. \A j \in 1..Len(t) : \E l \in 1..Len(hits) : t[j] = hits[l]
  <2> SUFFICES ASSUME NEW j \in 1..Len(t) PROVE \E l \in 1..Len(hits) : t[j] = hits[l]
    OBVIOUS
  <2>1. CASE j \in 1..Len(a)
    <3>1. PICK l \in I : a[j] = hits[l]
      BY <1>6, <2>1 DEF Picked
    <3> QED
      BY <1>3, <1>9, <1>13, <2>1, <3>1
  <2>2. CASE j \notin 1..Len(a)
    <3>1. PICK i \in 1..Len(b) : j = Len(a) + i
      <4>1. j - Len(a) \in 1..Len(b) /\ j = Len(a) + (j - Len(a))
        BY <1>9, <1>10, <1>11, <1>14, <2>2
      <4> QED
        BY <4>1
    <3>2. PICK l \in J : b[i] = hits[l]
      BY <1>7, <3>1 DEF Picked
    <3> QED
      BY <1>3, <1>9, <1>13, <3>1, <3>2
  <2> QED
    BY <2>1, <2>2
<1>17. ASSUME NEW better, NEW n, Follows(hits, 0, better, 0), n # 0
       PROVE  Follows(t, 0, better, n)
  <2> SUFFICES ASSUME NEW i \in 1..Len(t), NEW k, <<k, t[i].chunk>> \in better
               PROVE  \E j \in 1..Len(t) : t[j].chunk = k
    BY <1>17 DEF Follows
  <2>1. PICK m \in 1..Len(hits) : t[i] = hits[m]
    BY <1>16
  <2>2. m \in 0 + 1..Len(hits) /\ <<k, hits[m].chunk>> \in better
    BY <2>1
  <2>3. PICK l \in 1..Len(hits) : hits[l].chunk = k
    BY <1>17, <2>2 DEF Follows
  <2> QED
    BY <1>15, <2>3
<1> QED
  BY <1>13, <1>14, <1>17, CappedOnce

\* The pins come first, then the rest in its order (mergePinned).
LEMMA MergedFollows ==
    ASSUME NEW T, NEW pinned \in Seq(T), NEW fused \in Seq(T), Once(fused), NEW topK \in Nat,
           topK > Len(pinned) => Len(fused) <= topK - Len(pinned),
           NEW better, NEW cap \in Nat, Follows(fused, 0, better, cap),
           NEW t, t = mergePinned(pinned, fused, topK)
    PROVE  /\ t \in Seq(T) /\ Len(pinned) <= Len(t)
           /\ Len(t) <= topK \/ Len(t) = Len(pinned)
           /\ \A i \in 1..Len(pinned) : t[i] = pinned[i]
           /\ \A i \in Len(pinned) + 1..Len(t) : \E m \in 1..Len(fused) : t[i] = fused[m]
           /\ Follows(t, Len(pinned), better, cap)
<1>1. PICK p \in Nat : p = Len(pinned)
  BY LenProperties
<1>2. PICK I : I = {i \in 1..Len(fused) : fused[i].chunk \notin Chunks(pinned)}
  OBVIOUS
<1>3. PICK u : u = Kept(fused, I)
  OBVIOUS
<1>4. I \subseteq 1..Len(fused) /\ u = Beside(fused, pinned)
  BY <1>2, <1>3 DEF Beside
<1>5. u \in Seq(T) /\ Len(u) <= Len(fused) /\ Picked(u, fused, I)
  BY <1>3, <1>4, KeptLists
<1>6. PICK n \in Nat : n = IF topK > p THEN topK - p ELSE 0
  <2>1. (IF topK > p THEN topK - p ELSE 0) \in Nat
    OBVIOUS
  <2> QED
    BY <2>1
<1>7. PICK v : v = Limit(u, n)
  OBVIOUS
<1>8. /\ v \in Seq(T) /\ Len(v) <= Len(u) /\ Len(v) <= n
      /\ Len(v) = n \/ Len(v) = Len(u)
      /\ \A i \in 1..Len(v) : v[i] = u[i]
  <2>1. u \in Seq(T)
    BY <1>5
  <2> QED
    BY <1>7, <2>1, LimitLists
<1>9. Len(v) \in Nat /\ Len(u) \in Nat /\ Len(fused) \in Nat
  BY <1>5, <1>8, LenProperties
<1>10. /\ t \in Seq(T) /\ Len(t) = p + Len(v)
       /\ \A i \in 1..p : t[i] = pinned[i]
       /\ \A i \in 1..Len(v) : t[p + i] = v[i]
  <2>1. t = pinned \o v
    BY <1>1, <1>4, <1>6, <1>7 DEF mergePinned
  <2>2. v \in Seq(T)
    BY <1>8
  <2> QED
    BY <1>1, <2>1, <2>2, Appended
<1>11. topK > p => Len(v) = Len(u)
  BY <1>1, <1>5, <1>6, <1>8, <1>9
<1>12. ~(topK > p) => Len(v) = 0
  BY <1>6, <1>8, <1>9
<1>13. p <= Len(t) /\ (Len(t) <= topK \/ Len(t) = p)
  BY <1>6, <1>8, <1>9, <1>10, <1>12
<1>14. ASSUME NEW i \in p + 1..Len(t)
       PROVE  \E x \in 1..Len(u) : i = p + x /\ t[i] = u[x]
  <2>1. PICK x \in 1..Len(v) : i = p + x
    <3>1. i - p \in 1..Len(v) /\ i = p + (i - p)
      BY <1>9, <1>10
    <3> QED
      BY <3>1
  <2>2. x \in 1..Len(u) /\ v[x] = u[x]
    BY <1>8, <1>9
  <2> QED
    BY <1>10, <2>1, <2>2
<1>15. ASSUME NEW i \in p + 1..Len(t) PROVE \E m \in 1..Len(fused) : t[i] = fused[m]
  <2>1. PICK x \in 1..Len(u) : t[i] = u[x]
    BY <1>14
  <2>2. PICK m \in I : u[x] = fused[m]
    BY <1>5 DEF Picked
  <2> QED
    BY <1>4, <2>1, <2>2
<1>16. KeptAfter(u, fused, I, better, cap)
  BY <1>3, <1>4, KeptFollows
<1>17. ASSUME NEW i \in p + 1..Len(t), NEW k, <<k, t[i].chunk>> \in better
       PROVE  \E j \in 1..Len(t) : t[j].chunk = k /\ (cap = 0 => j < i)
  <2>1. PICK x \in 1..Len(u) : i = p + x /\ t[i] = u[x]
    BY <1>14
  <2>2. PICK l \in 1..Len(fused) :
           /\ fused[l].chunk = k
           /\ l \in I => \E j \in 1..Len(u) : u[j].chunk = k /\ (cap = 0 => j < x)
    BY <1>16, <1>17, <2>1 DEF KeptAfter
  <2>3. CASE l \in I
    <3>1. PICK j \in 1..Len(u) : u[j].chunk = k /\ (cap = 0 => j < x)
      BY <2>2, <2>3
    <3>2. Len(v) = Len(u)
      BY <1>9, <1>10, <1>11, <1>12
    <3>3. j \in 1..Len(v) /\ t[p + j] = u[j]
      BY <1>8, <1>10, <3>2
    <3>4. p + j \in 1..Len(t) /\ (cap = 0 => p + j < i)
      BY <1>9, <1>10, <2>1, <3>1, <3>3
    <3> QED
      BY <3>1, <3>3, <3>4
  <2>4. CASE l \notin I
    <3>1. k \in Chunks(pinned)
      BY <1>2, <2>2, <2>4
    <3>2. PICK j \in 1..p : pinned[j].chunk = k
      BY <1>1, <3>1 DEF Chunks
    <3>3. j \in 1..Len(t) /\ t[j] = pinned[j] /\ j < i
      BY <1>9, <1>10
    <3> QED
      BY <3>2, <3>3
  <2> QED
    BY <2>3, <2>4
<1>18. Follows(t, p, better, cap)
  BY <1>17 DEF Follows
<1> QED
  BY <1>1, <1>10, <1>13, <1>15, <1>18

-----------------------------------------------------------------------------
(* search: what an undisturbed call knows.                                 *)

\* The chunks of the version asked for, those of the controls the query cites, and
\* those the arms find.
AskedFor(q) == {k \in Joined : Served(q, k.row) /\ VersionFilter(q, k.row)}
NearFor(q) == {k \in AskedFor(q) \cap Embedded(server.embedder) : Mode(q) # "bm25"}
AlikeFor(q) == {k \in AskedFor(q) \cap sparse : Mode(q) # "vector" /\ At(k.row).lex > 0}
Sims(A) == [k \in A |-> At(k.row).sim]
Lexes(A) == [k \in A |-> At(k.row).lex]
BetterFor(q) == Better(NearFor(q), Heavier(NearFor(q), Sims(NearFor(q))),
                       AlikeFor(q), Heavier(AlikeFor(q), Lexes(AlikeFor(q))))

Embeds(q) == Mode(q) = "vector" \/ (Mode(q) = "hybrid" /\ server.embedder # "none")

PinCount(q) == IF Cardinality(CitedChunks(q)) < CitationLimit THEN Cardinality(CitedChunks(q))
               ELSE CitationLimit
PinsKnown(q, s) == s \in Seq(Fresh(CitedChunks(q))) /\ Len(s) = PinCount(q)
DenseKnown(q, s) == ArmKnown(s, NearFor(q), Heavier(NearFor(q), Sims(NearFor(q))))
LexicalKnown(q, s) == ArmKnown(s, AlikeFor(q), Heavier(AlikeFor(q), Lexes(AlikeFor(q))))

\* The first n hits are the pins and then what the arms found.
MainKnown(q, s, n) ==
    /\ n \in 0..Len(s) /\ PinCount(q) <= n
    /\ n <= q.topK \/ n = PinCount(q)
    /\ \A i \in 1..n : /\ s[i].chunk \in AskedFor(q) /\ (SurfaceNonCurrent(q) => s[i].current)
                       /\ s[i].chunk \in IF i <= PinCount(q) THEN CitedChunks(q)
                                         ELSE NearFor(q) \cup AlikeFor(q)
    /\ \A i \in PinCount(q) + 1..n : \A k : <<k, s[i].chunk>> \in BetterFor(q) =>
          \E j \in 1..n : s[j].chunk = k /\ (q.docCap = 0 => j < i)
    /\ n = 0 => NearFor(q) \cup AlikeFor(q) \cup CitedChunks(q) = {}

\* The others are of versions that are not current, one of each.
OlderKnown(q, s, n) ==
    /\ Len(s) - n <= NonCurrentCap
    /\ \A i \in n + 1..Len(s) : SurfaceNonCurrent(q) /\ ~s[i].current
    /\ \A i, j \in n + 1..Len(s) :
          VersionOf(s[i].chunk.row) = VersionOf(s[j].chunk.row) => i = j

HitsKnown(q, s) == \E n \in Nat : MainKnown(q, s, n) /\ OlderKnown(q, s, n)

OlderChunks == {k \in Joined : ~IsCurrent(k.row)}

\* The sets of chunks are finite sets of chunks.
LEMMA AskedRows ==
    ASSUME CorpusInv, NEW q
    PROVE  /\ NearFor(q) \in SUBSET AskedFor(q) /\ AlikeFor(q) \in SUBSET AskedFor(q)
           /\ CitedChunks(q) \in SUBSET AskedFor(q) /\ AskedFor(q) \in SUBSET Joined
           /\ Joined \in SUBSET ChunkRow /\ IsFiniteSet(Joined)
           /\ NearFor(q) \cup AlikeFor(q) \in SUBSET ChunkRow
           /\ IsFiniteSet(NearFor(q)) /\ IsFiniteSet(AlikeFor(q)) /\ IsFiniteSet(CitedChunks(q))
<1>1. /\ NearFor(q) \in SUBSET AskedFor(q) /\ AlikeFor(q) \in SUBSET AskedFor(q)
      /\ CitedChunks(q) \in SUBSET AskedFor(q) /\ AskedFor(q) \in SUBSET Joined
  BY DEF NearFor, AlikeFor, CitedChunks, AskedFor
<1>2. IsFiniteSet(chunk) /\ Joined \subseteq chunk /\ Joined \subseteq ChunkRow
  BY JoinedRows
<1>3. IsFiniteSet(Joined)
  BY <1>2, FS_Subset
<1>4. IsFiniteSet(NearFor(q)) /\ IsFiniteSet(AlikeFor(q)) /\ IsFiniteSet(CitedChunks(q))
  <2>1. NearFor(q) \subseteq Joined /\ AlikeFor(q) \subseteq Joined /\ CitedChunks(q) \subseteq Joined
    BY <1>1
  <2> QED
    BY <1>3, <2>1, FS_Subset
<1> QED
  BY <1>1, <1>2, <1>3, <1>4

\* The dense arm knows the chunks that are near the query (vectorArmExact).
LEMMA DenseTells ==
    ASSUME CorpusInv, NEW q, Mode(q) # "bm25", NEW s, s = Dense(q, VersionFilter)
    PROVE  DenseKnown(q, s)
<1>1. PICK A : A = NearFor(q)
  OBVIOUS
<1>2. A \in SUBSET ChunkRow /\ IsFiniteSet(A) /\ A \subseteq Joined
  BY <1>1, AskedRows
<1>3. A = {k \in Joined \cap Embedded(server.embedder) :
              Served(q, k.row) /\ VersionFilter(q, k.row)}
  BY <1>1 DEF NearFor, AskedFor
<1>4. PICK weight : weight = Sims(A)
  OBVIOUS
<1>5. \A k \in A : weight[k] = At(k.row).sim /\ weight[k] \in Int
  BY <1>2, <1>4, JoinedRows DEF Sims, ParsedRow
<1>6. PICK key : key = [k \in A |-> <<-At(k.row).sim>> \o ChunkId(k)]
  OBVIOUS
<1>7. key = [k \in A |-> <<-weight[k]>> \o ChunkId(k)]
  BY <1>5, <1>6
<1>8. s = Limit(Ordered(A, By(A, key)), ArmLimit)
  BY <1>3, <1>6 DEF Dense
<1>9. ArmKnown(s, A, Heavier(A, weight))
  <2>1. A \in SUBSET ChunkRow
    BY <1>2
  <2> QED
    BY <1>2, <1>5, <1>7, <1>8, <2>1, ArmTells
<1> QED
  BY <1>1, <1>4, <1>9 DEF DenseKnown

\* The lexical arm knows the chunks that share a word with the query (sparseArm).
LEMMA SparseTells ==
    ASSUME CorpusInv, NEW q, Mode(q) # "vector", NEW s, s = Sparse(q, VersionFilter)
    PROVE  LexicalKnown(q, s)
<1>1. PICK A : A = AlikeFor(q)
  OBVIOUS
<1>2. A \in SUBSET ChunkRow /\ IsFiniteSet(A) /\ A \subseteq Joined
  BY <1>1, AskedRows
<1>3. A = {k \in Joined \cap sparse : /\ At(k.row).lex > 0
                                      /\ Served(q, k.row) /\ VersionFilter(q, k.row)}
  BY <1>1 DEF AlikeFor, AskedFor
<1>4. PICK weight : weight = Lexes(A)
  OBVIOUS
<1>5. \A k \in A : weight[k] = At(k.row).lex /\ weight[k] \in Int
  BY <1>2, <1>4, JoinedRows DEF Lexes, ParsedRow
<1>6. PICK key : key = [k \in A |-> <<-At(k.row).lex>> \o ChunkId(k)]
  OBVIOUS
<1>7. key = [k \in A |-> <<-weight[k]>> \o ChunkId(k)]
  BY <1>5, <1>6
<1>8. s = Limit(Ordered(A, By(A, key)), ArmLimit)
  BY <1>3, <1>6 DEF Sparse
<1>9. ArmKnown(s, A, Heavier(A, weight))
  <2>1. A \in SUBSET ChunkRow
    BY <1>2
  <2> QED
    BY <1>2, <1>5, <1>7, <1>8, <2>1, ArmTells
<1> QED
  BY <1>1, <1>4, <1>9 DEF LexicalKnown

\* An arm that has nothing to find knows it.
LEMMA NothingKnown == ASSUME NEW better PROVE ArmKnown(<<>>, {}, better)
  BY EmptySeq DEF ArmKnown, Distinct

\* What the arm over older versions lists is not current (nonCurrentHits).
LEMMA OlderTells ==
    ASSUME CorpusInv, NEW q, NEW s, s = Dense(q, NonCurrent) \/ s = Sparse(q, NonCurrent)
    PROVE  s \in Seq(OlderChunks)
<1>1. PICK S : S = OlderChunks
  OBVIOUS
<1>2. Joined \subseteq ChunkRow /\ IsFiniteSet(Joined)
  BY AskedRows
<1>3. ASSUME NEW A, A \subseteq S, NEW weight, \A k \in A : weight[k] \in Int,
             NEW key, key = [k \in A |-> <<-weight[k]>> \o ChunkId(k)],
             s = Limit(Ordered(A, By(A, key)), ArmLimit)
      PROVE  s \in Seq(S)
  <2>1. A \subseteq Joined
    BY <1>1, <1>3 DEF OlderChunks
  <2>2. A \in SUBSET ChunkRow /\ IsFiniteSet(A)
    BY <1>2, <2>1, FS_Subset
  <2>3. A \in SUBSET ChunkRow
    BY <2>2
  <2>4. ArmKnown(s, A, Heavier(A, weight))
    BY <1>3, <2>2, <2>3, ArmTells
  <2>5. s \in Seq(A)
    BY <2>4 DEF ArmKnown
  <2> QED
    BY <1>3, <2>5, SeqGrows
<1>4. \A k \in Joined : At(k.row).sim \in Int /\ At(k.row).lex \in Int
  BY JoinedRows DEF ParsedRow
<1>5. CASE s = Dense(q, NonCurrent)
  <2>1. PICK A : A = {k \in Joined \cap Embedded(server.embedder) :
                        Served(q, k.row) /\ NonCurrent(q, k.row)}
    OBVIOUS
  <2>2. PICK weight : weight = [k \in A |-> At(k.row).sim]
    OBVIOUS
  <2>3. PICK key : key = [k \in A |-> <<-At(k.row).sim>> \o ChunkId(k)]
    OBVIOUS
  <2>4. A \subseteq S /\ A \subseteq Joined
    BY <1>1, <2>1 DEF OlderChunks, NonCurrent
  <2>5. \A k \in A : weight[k] \in Int
    BY <1>4, <2>2, <2>4
  <2>6. key = [k \in A |-> <<-weight[k]>> \o ChunkId(k)]
    BY <2>2, <2>3
  <2>7. s = Limit(Ordered(A, By(A, key)), ArmLimit)
    BY <1>5, <2>1, <2>3 DEF Dense
  <2> QED
    BY <1>1, <1>3, <2>4, <2>5, <2>6, <2>7
<1>6. CASE s = Sparse(q, NonCurrent)
  <2>1. PICK A : A = {k \in Joined \cap sparse : /\ At(k.row).lex > 0
                                                 /\ Served(q, k.row) /\ NonCurrent(q, k.row)}
    OBVIOUS
  <2>2. PICK weight : weight = [k \in A |-> At(k.row).lex]
    OBVIOUS
  <2>3. PICK key : key = [k \in A |-> <<-At(k.row).lex>> \o ChunkId(k)]
    OBVIOUS
  <2>4. A \subseteq S /\ A \subseteq Joined
    BY <1>1, <2>1 DEF OlderChunks, NonCurrent
  <2>5. \A k \in A : weight[k] \in Int
    BY <1>4, <2>2, <2>4
  <2>6. key = [k \in A |-> <<-weight[k]>> \o ChunkId(k)]
    BY <2>2, <2>3
  <2>7. s = Limit(Ordered(A, By(A, key)), ArmLimit)
    BY <1>6, <2>1, <2>3 DEF Sparse
  <2> QED
    BY <1>1, <1>3, <2>4, <2>5, <2>6, <2>7
<1> QED
  BY <1>5, <1>6

\* A citation lookup that nothing came between pins all it may (citationLookup).
LEMMA PinsTell ==
    ASSUME CorpusInv, NEW q, NEW found, found = CitedChunks(q),
           NEW first, first = Limit(Ordered(found, By(found, CitedKey(found))), CitationLimit),
           NEW v, v = PinsOf(first)
    PROVE  PinsKnown(q, v)
<1>1. found \in SUBSET Joined /\ IsFiniteSet(found) /\ found \in SUBSET ChunkRow
  BY AskedRows
<1>2. PICK lead : lead = [k \in found |-> <<Flag(IsCurrent(k.row)), k.row.doc.fw, k.row.doc.ver,
                                            At(k.row).cite>>]
  OBVIOUS
<1>3. PICK m \in Nat : m = 4
  OBVIOUS
<1>4. Leads(found, lead, m)
  BY <1>1, <1>2, <1>3, JoinedRows DEF Leads, Flag, ParsedRow
<1>5. PICK key : key = CitedKey(found)
  OBVIOUS
<1>6. key = Keyed(found, lead)
  BY <1>2, <1>5 DEF Keyed, CitedKey
<1>7. Strict(found, By(found, key))
  <2>1. found \in SUBSET ChunkRow
    BY <1>1
  <2> QED
    BY <1>4, <1>6, <2>1, ChunksOrder
<1>8. PICK o : o = Ordered(found, By(found, key))
  OBVIOUS
<1>9. o \in Seq(found) /\ Len(o) = Cardinality(found)
  BY <1>1, <1>7, <1>8, OrderedLists
<1>10. PICK n \in Nat : n = CitationLimit
  BY SearchAssumption DEF SearchAssumption
<1>11. first = Limit(o, n)
  BY <1>5, <1>8, <1>10
<1>12. /\ first \in Seq(found) /\ Len(first) <= Len(o) /\ Len(first) <= n
       /\ Len(first) = n \/ Len(first) = Len(o)
  <2>1. o \in Seq(found)
    BY <1>9
  <2> QED
    BY <1>11, <2>1, LimitLists
<1>13. Len(first) \in Nat /\ Len(o) \in Nat /\ \A i \in 1..Len(first) : first[i] \in found
  BY <1>9, <1>12, LenProperties, ElementOfSeq
<1>14. Len(first) = PinCount(q)
  BY <1>9, <1>10, <1>12, <1>13 DEF PinCount
<1>15. \A i \in 1..Len(first) : v[i] \in Fresh(found)
  <2> SUFFICES ASSUME NEW i \in 1..Len(first) PROVE v[i] \in Fresh(found)
    OBVIOUS
  <2>1. PICK k \in found : k = first[i]
    BY <1>13
  <2>2. PICK yes \in BOOLEAN : yes = IsCurrent(k.row)
    <3>1. IsCurrent(k.row) \in BOOLEAN
      BY DEF IsCurrent
    <3> QED
      BY <3>1
  <2>3. v[i] = [chunk |-> k, vrank |-> 0, brank |-> 0, current |-> yes, pinned |-> TRUE]
    BY <2>1, <2>2 DEF PinsOf
  <2> QED
    BY <2>2, <2>3 DEF Fresh, Hit, Vouched
<1>16. v = [i \in 1..Len(first) |-> v[i]]
  BY DEF PinsOf
<1>17. v \in Seq(Fresh(found)) /\ Len(v) = Len(first)
  BY <1>13, <1>15, <1>16
<1> QED
  BY <1>14, <1>17 DEF PinsKnown

\* A hydrated hit of the version asked for is marked as it is.
LEMMA AskedAreCurrent ==
    ASSUME NEW q, NEW h \in Fresh(AskedFor(q))
    PROVE  h.chunk \in AskedFor(q) /\ (SurfaceNonCurrent(q) => h.current)
<1>1. PICK k \in AskedFor(q) : k = h.chunk
  BY DEF Fresh, Hit
<1>2. h.current = IsCurrent(k.row)
  BY <1>1 DEF Fresh
<1>3. SurfaceNonCurrent(q) => IsCurrent(k.row)
  BY <1>1 DEF AskedFor, VersionFilter, SurfaceNonCurrent
<1> QED
  BY <1>1, <1>2, <1>3

\* Hydration of a larger set of chunks lists the hits of the smaller one.
LEMMA FreshGrows ==
    ASSUME NEW S, NEW T, S \subseteq T
    PROVE  Fresh(S) \subseteq Fresh(T)
BY DEF Fresh, Hit

\* Fusion, truncation, hydration, cap and merge find what the arms know (hydrate).
LEMMA HydrateTells ==
    ASSUME CorpusInv, NEW q \in Queries,
           NEW pinned, PinsKnown(q, pinned), NEW dense, DenseKnown(q, dense),
           NEW lexical, LexicalKnown(q, lexical),
           NEW room, NEW fused, NEW found, NEW kept, NEW hits,
           room = (IF Len(pinned) = 0 THEN q.topK
                   ELSE IF q.topK - Len(pinned) < 1 THEN 1 ELSE q.topK - Len(pinned)),
           fused = fuseRRF(dense, lexical, IF Len(pinned) > 0 THEN 3 ELSE 1),
           found = Hydrated(Limit(fused, room)),
           kept = (IF q.docCap > 0 THEN capPerFramework(found, q.docCap, room) ELSE found),
           hits = (IF Len(pinned) > 0 THEN mergePinned(pinned, kept, q.topK) ELSE kept)
    PROVE  MainKnown(q, hits, Len(hits))
<1>1. PICK A : A = NearFor(q)
  OBVIOUS
<1>2. PICK B : B = AlikeFor(q)
  OBVIOUS
<1>3. PICK S : S = A \cup B
  OBVIOUS
<1>4. PICK C : C = CitedChunks(q)
  OBVIOUS
<1>5. PICK K : K = AskedFor(q)
  OBVIOUS
<1>6. PICK T : T = Fresh(K)
  OBVIOUS
<1>7. /\ S \in SUBSET ChunkRow /\ S \in SUBSET Joined /\ S \subseteq K /\ C \subseteq K
      /\ K \subseteq Joined /\ IsFiniteSet(C)
  BY <1>1, <1>2, <1>3, <1>4, <1>5, AskedRows
<1>8. PICK nearer : nearer = Heavier(A, Sims(A))
  OBVIOUS
<1>9. PICK liker : liker = Heavier(B, Lexes(B))
  OBVIOUS
<1>10. PICK better : better = Better(A, nearer, B, liker)
  OBVIOUS
<1>11. ArmKnown(dense, A, nearer) /\ ArmKnown(lexical, B, liker) /\ better = BetterFor(q)
  BY <1>1, <1>2, <1>8, <1>9, <1>10 DEF DenseKnown, LexicalKnown, BetterFor
<1>12. PICK P \in Nat : P = Len(pinned)
  <2>1. pinned \in Seq(Fresh(CitedChunks(q)))
    BY DEF PinsKnown
  <2> QED
    BY <2>1, LenProperties
<1>13. P = PinCount(q)
  BY <1>12 DEF PinsKnown
<1>14. PICK topK \in Nat \ {0} : topK = q.topK
  BY SearchAssumption DEF SearchAssumption
<1>15. PICK docCap \in Nat : docCap = q.docCap
  BY SearchAssumption DEF SearchAssumption
<1>16. /\ room \in Nat \ {0}
       /\ P = 0 => room = topK
       /\ topK > P => room <= topK - P
  BY <1>12, <1>14
<1>17. PICK weight \in Nat \ {0} : weight = IF Len(pinned) > 0 THEN 3 ELSE 1
  OBVIOUS
<1>18. fused = fuseRRF(dense, lexical, weight)
  BY <1>17
<1>19. dense \in Seq(S) /\ lexical \in Seq(S) /\ (dense # <<>> => server.embedder \in Models)
  <2>1. dense \in Seq(A) /\ lexical \in Seq(B)
    BY <1>11 DEF ArmKnown
  <2>2. A \subseteq S /\ B \subseteq S
    BY <1>3
  <2>3. dense \in Seq(S)
    BY <2>1, <2>2, SeqGrows
  <2>4. lexical \in Seq(S)
    BY <2>1, <2>2, SeqGrows
  <2>5. ASSUME dense # <<>> PROVE server.embedder \in Models
    <3>1. Len(dense) \in Nat /\ Len(dense) # 0
      BY <2>1, <2>5, LenProperties, EmptySeq
    <3>2. 1 \in 1..Len(dense)
      BY <3>1
    <3>3. dense[1] \in A
      BY <2>1, <3>2, ElementOfSeq
    <3> QED
      BY <1>1, <3>3, EmbeddedByModel DEF NearFor
  <2> QED
    BY <2>3, <2>4, <2>5
<1>20. fused \in Seq(Ranked(S)) /\ Once(fused)
  <2>1. dense \in Seq(S) /\ lexical \in Seq(S) /\ S \in SUBSET ChunkRow /\ weight \in Nat
    BY <1>7, <1>19
  <2> QED
    BY <1>18, <1>19, <2>1, Fused
<1>21. (fused = <<>> => S = {}) /\ Follows(fused, 0, better, 0)
  <2>1. A \cup B \in SUBSET ChunkRow
    BY <1>3, <1>7
  <2>2. weight \in Nat \ {0} /\ ArmKnown(dense, A, nearer) /\ ArmKnown(lexical, B, liker)
    BY <1>11
  <2>3. /\ fused = <<>> => A \cup B = {}
        /\ Follows(fused, 0, Better(A, nearer, B, liker), 0)
    BY <1>18, <2>1, <2>2, FusionTells
  <2> QED
    BY <1>3, <1>10, <2>3
<1>22. PICK cut : cut = Limit(fused, room)
  OBVIOUS
<1>23. /\ cut \in Seq(Ranked(S)) /\ Once(cut) /\ Len(cut) <= room
       /\ (cut = <<>> => S = {}) /\ Follows(cut, 0, better, 0)
  <2>1. fused \in Seq(Ranked(S)) /\ room \in Nat
    BY <1>16, <1>20
  <2>2. /\ cut \in Seq(Ranked(S)) /\ Len(cut) <= Len(fused) /\ Len(cut) <= room
        /\ Len(cut) = room \/ Len(cut) = Len(fused)
    BY <1>22, <2>1, LimitLists
  <2>3. Once(cut)
    BY <1>20, <1>22, <2>1, OnceLimit
  <2>4. Follows(cut, 0, better, 0)
    BY <1>21, <1>22, <2>1, LimitFollows
  <2>5. ASSUME cut = <<>> PROVE S = {}
    <3>1. Len(cut) = 0
      BY <2>5
    <3>2. Len(fused) = 0
      BY <1>16, <2>2, <3>1
    <3>3. fused = <<>>
      BY <2>1, <3>2, EmptySeq
    <3> QED
      BY <1>21, <3>3
  <2> QED
    BY <2>2, <2>3, <2>4, <2>5
<1>24. found = Hydrated(cut)
  BY <1>22
<1>25. /\ found \in Seq(Fresh(S)) /\ Once(found) /\ Len(found) <= Len(cut)
       /\ (found = <<>> => cut = <<>>) /\ Follows(found, 0, better, 0)
  <2>1. S \in SUBSET Joined /\ cut \in Seq(Ranked(S))
    BY <1>7, <1>23
  <2> QED
    BY <1>23, <1>24, <2>1, HydratedAll
<1>26. Len(found) \in Nat /\ Len(found) <= room
  <2>1. Len(found) \in Nat /\ Len(cut) \in Nat
    BY <1>23, <1>25, LenProperties
  <2> QED
    BY <1>16, <1>23, <1>25, <2>1
<1>27. /\ kept \in Seq(Fresh(S)) /\ Once(kept) /\ Len(kept) = Len(found)
       /\ Follows(kept, 0, better, docCap)
  <2>1. CASE docCap = 0
    <3>1. kept = found
      BY <1>15, <2>1
    <3> QED
      BY <1>25, <2>1, <3>1
  <2>2. CASE docCap # 0
    <3>1. kept = capPerFramework(found, docCap, room)
      BY <1>15, <2>2
    <3>2. found \in Seq(Fresh(S)) /\ room \in Nat
      BY <1>16, <1>25
    <3>3. /\ kept \in Seq(Fresh(S)) /\ Once(kept) /\ Len(kept) = Len(found)
          /\ \A b, n : Follows(found, 0, b, 0) /\ n # 0 => Follows(kept, 0, b, n)
      BY <1>25, <1>26, <3>1, <3>2, CappedAll
    <3> QED
      BY <1>25, <2>2, <3>3
  <2> QED
    BY <2>1, <2>2
<1>28. kept \in Seq(T) /\ pinned \in Seq(T)
  <2>1. Fresh(S) \subseteq T /\ Fresh(C) \subseteq T
    <3>1. S \subseteq K /\ C \subseteq K
      BY <1>7
    <3> QED
      BY <1>6, <3>1, FreshGrows
  <2>2. kept \in Seq(Fresh(S)) /\ pinned \in Seq(Fresh(C))
    BY <1>4, <1>27 DEF PinsKnown
  <2>3. kept \in Seq(T)
    BY <2>1, <2>2, SeqGrows
  <2>4. pinned \in Seq(T)
    BY <2>1, <2>2, SeqGrows
  <2> QED
    BY <2>3, <2>4
<1>29. /\ hits \in Seq(T) /\ P <= Len(hits)
       /\ Len(hits) <= topK \/ Len(hits) = P
       /\ \A i \in 1..P : hits[i] = pinned[i]
       /\ \A i \in P + 1..Len(hits) : \E m \in 1..Len(kept) : hits[i] = kept[m]
       /\ Follows(hits, P, better, docCap)
  <2>1. CASE P = 0
    <3>1. hits = kept
      BY <1>12, <2>1
    <3>2. Len(kept) \in Nat /\ Len(kept) <= topK
      BY <1>16, <1>26, <1>27, <2>1
    <3> QED
      BY <1>27, <1>28, <2>1, <3>1, <3>2
  <2>2. CASE P # 0
    <3>1. hits = mergePinned(pinned, kept, topK)
      BY <1>12, <1>14, <2>2
    <3>2. topK > Len(pinned) => Len(kept) <= topK - Len(pinned)
      BY <1>12, <1>14, <1>16, <1>26, <1>27
    <3>3. pinned \in Seq(T) /\ kept \in Seq(T) /\ topK \in Nat
      BY <1>28
    <3>4. Once(kept) /\ Follows(kept, 0, better, docCap)
      BY <1>27
    <3> QED
      BY <1>12, <3>1, <3>2, <3>3, <3>4, MergedFollows
  <2> QED
    BY <2>1, <2>2
<1>30. PICK n \in Nat : n = Len(hits)
  BY <1>29, LenProperties
<1>31. \A i \in 1..n : hits[i] \in T
  BY <1>29, <1>30, ElementOfSeq
<1>32. \A i \in 1..P : hits[i].chunk \in C
  <2>1. pinned \in Seq(Fresh(C))
    BY <1>4 DEF PinsKnown
  <2>2. \A i \in 1..P : pinned[i] \in Fresh(C)
    BY <1>12, <2>1, ElementOfSeq
  <2> QED
    BY <1>29, <2>2 DEF Fresh, Hit
<1>33. \A i \in P + 1..n : hits[i].chunk \in S
  <2>1. \A m \in 1..Len(kept) : kept[m] \in Fresh(S)
    BY <1>27, ElementOfSeq
  <2>2. \A h \in Fresh(S) : h.chunk \in S
    BY DEF Fresh, Hit
  <2> QED
    BY <1>29, <1>30, <2>1, <2>2
<1>34. n = 0 => S \cup C = {}
  <2> SUFFICES ASSUME n = 0 PROVE S \cup C = {}
    OBVIOUS
  <2>1. P = 0
    BY <1>29, <1>30
  <2>2. C = {}
    <3>1. CitationLimit # 0
      BY SearchAssumption DEF SearchAssumption
    <3>2. Cardinality(C) = 0
      BY <1>4, <1>13, <2>1, <3>1 DEF PinCount
    <3> QED
      BY <1>7, <3>2, FS_EmptySet
  <2>3. S = {}
    <3>1. hits = kept
      BY <1>12, <2>1
    <3>2. Len(found) = 0
      BY <1>27, <1>30, <3>1
    <3>3. found = <<>>
      BY <1>25, <3>2, EmptySeq
    <3> QED
      BY <1>23, <1>25, <3>3
  <2> QED
    BY <2>2, <2>3
<1>35. \A i \in 1..n : hits[i].chunk \in K /\ (SurfaceNonCurrent(q) => hits[i].current)
  BY <1>5, <1>6, <1>31, AskedAreCurrent
<1>36. MainKnown(q, hits, n)
  <2>1. \A i \in 1..n : hits[i].chunk \in IF i <= P THEN C ELSE S
    <3> SUFFICES ASSUME NEW i \in 1..n PROVE hits[i].chunk \in IF i <= P THEN C ELSE S
      OBVIOUS
    <3>1. CASE i <= P
      BY <1>32, <3>1
    <3>2. CASE ~(i <= P)
      <4>1. i \in P + 1..n
        BY <3>2
      <4> QED
        BY <1>33, <3>2, <4>1
    <3> QED
      BY <3>1, <3>2
  <2>2. \A i \in P + 1..n : \A k : <<k, hits[i].chunk>> \in better =>
           \E j \in 1..n : hits[j].chunk = k /\ (docCap = 0 => j < i)
    <3> SUFFICES ASSUME NEW i \in P + 1..n, NEW k, <<k, hits[i].chunk>> \in better
                 PROVE  \E j \in 1..n : hits[j].chunk = k /\ (docCap = 0 => j < i)
      OBVIOUS
    <3>1. Follows(hits, P, better, docCap) /\ i \in P + 1..Len(hits)
      BY <1>29, <1>30
    <3>2. PICK j \in 1..Len(hits) : hits[j].chunk = k /\ (docCap = 0 => j < i)
      BY <3>1 DEF Follows
    <3> QED
      BY <1>30, <3>2
  <2>3. n \in 0..Len(hits) /\ P <= n /\ (n <= topK \/ n = P)
    BY <1>29, <1>30
  <2>4. /\ P = PinCount(q) /\ topK = q.topK /\ docCap = q.docCap /\ C = CitedChunks(q)
        /\ S = NearFor(q) \cup AlikeFor(q) /\ K = AskedFor(q) /\ better = BetterFor(q)
    BY <1>1, <1>2, <1>3, <1>4, <1>5, <1>11, <1>13, <1>14, <1>15
  <2>5. /\ n \in 0..Len(hits) /\ PinCount(q) <= n
        /\ n <= q.topK \/ n = PinCount(q)
        /\ n = 0 => NearFor(q) \cup AlikeFor(q) \cup CitedChunks(q) = {}
    BY <1>34, <2>3, <2>4
  <2>6. \A i \in 1..n :
           /\ hits[i].chunk \in AskedFor(q) /\ (SurfaceNonCurrent(q) => hits[i].current)
           /\ hits[i].chunk \in IF i <= PinCount(q) THEN CitedChunks(q)
                                ELSE NearFor(q) \cup AlikeFor(q)
    BY <1>35, <2>1, <2>4
  <2>7. \A i \in PinCount(q) + 1..n : \A k : <<k, hits[i].chunk>> \in BetterFor(q) =>
           \E j \in 1..n : hits[j].chunk = k /\ (q.docCap = 0 => j < i)
    BY <2>2, <2>4
  <2> QED
    BY <2>5, <2>6, <2>7 DEF MainKnown
<1> QED
  BY <1>30, <1>36

\* Hits of the version asked for alone.
LEMMA NothingOlder ==
    ASSUME NEW q, NEW s, Len(s) \in Nat, MainKnown(q, s, Len(s))
    PROVE  HitsKnown(q, s)
<1>1. PICK n \in Nat : n = Len(s)
  OBVIOUS
<1>2. NonCurrentCap \in Nat
  BY SearchAssumption DEF SearchAssumption
<1>3. Len(s) - n <= NonCurrentCap /\ \A i \in n + 1..Len(s) : FALSE
  BY <1>1, <1>2
<1>4. OlderKnown(q, s, n)
  BY <1>3 DEF OlderKnown
<1> QED
  BY <1>1, <1>4 DEF HitsKnown

\* One hit of each version that is not current follows (appendNonCurrent).
LEMMA AppendTells ==
    ASSUME CorpusInv, NEW q, SurfaceNonCurrent(q), NEW T, NEW hits \in Seq(T),
           MainKnown(q, hits, Len(hits)), NEW older \in Seq(Ranked(OlderChunks)), Once(older),
           Len(older) <= NonCurrentCap, NEW found, found = Hydrated(older),
           NEW v, v = appendNonCurrent(hits, bestHitPerFramework(found))
    PROVE  HitsKnown(q, v)
<1>1. PICK S : S = OlderChunks
  OBVIOUS
<1>2. PICK F : F = Fresh(S)
  OBVIOUS
<1>3. \A h \in F : ~h.current
  <2> SUFFICES ASSUME NEW h \in F PROVE ~h.current
    OBVIOUS
  <2>1. PICK k \in OlderChunks : k = h.chunk
    BY <1>1, <1>2 DEF Fresh, Hit
  <2>2. ~IsCurrent(k.row)
    BY DEF OlderChunks
  <2> QED
    BY <1>2, <2>1, <2>2 DEF Fresh
<1>4. found \in Seq(F) /\ Len(found) <= Len(older)
  <2>1. S \in SUBSET Joined /\ older \in Seq(Ranked(S))
    BY <1>1 DEF OlderChunks
  <2> QED
    BY <1>2, <2>1, HydratedAll
<1>5. PICK I : I = {j \in 1..Len(found) : ~\E i \in 1..j - 1 :
                      VersionOf(found[i].chunk.row) = VersionOf(found[j].chunk.row)}
  OBVIOUS
<1>6. PICK best : best = Kept(found, I)
  OBVIOUS
<1>7. best \in Seq(F) /\ Len(best) <= Len(found) /\ Picked(best, found, I)
  <2>1. found \in Seq(F) /\ I \subseteq 1..Len(found)
    BY <1>4, <1>5
  <2> QED
    BY <1>6, <2>1, KeptLists
<1>8. PICK J : J = {i \in 1..Len(best) : best[i].chunk \notin Chunks(hits)}
  OBVIOUS
<1>9. PICK rest : rest = Kept(best, J)
  OBVIOUS
<1>10. rest \in Seq(F) /\ Len(rest) <= Len(best) /\ Picked(rest, best, J)
  <2>1. best \in Seq(F) /\ J \subseteq 1..Len(best)
    BY <1>7, <1>8
  <2> QED
    BY <1>9, <2>1, KeptLists
<1>11. v = hits \o rest
  BY <1>5, <1>6, <1>8, <1>9 DEF appendNonCurrent, bestHitPerFramework, Beside
<1>12. PICK n \in Nat : n = Len(hits)
  BY LenProperties
<1>13. PICK m \in Nat : m = Len(rest)
  BY <1>10, LenProperties
<1>14. /\ Len(v) = n + m
       /\ \A i \in 1..n : v[i] = hits[i]
       /\ \A i \in 1..m : v[n + i] = rest[i]
  <2>1. T \subseteq T \cup F /\ F \subseteq T \cup F
    OBVIOUS
  <2>2. rest \in Seq(F)
    BY <1>10
  <2>3. hits \in Seq(T \cup F)
    BY <2>1, SeqGrows
  <2>4. rest \in Seq(T \cup F)
    BY <2>1, <2>2, SeqGrows
  <2>5. /\ Len(v) = Len(hits) + Len(rest)
        /\ \A i \in 1..Len(hits) : v[i] = hits[i]
        /\ \A i \in 1..Len(rest) : v[Len(hits) + i] = rest[i]
    BY <1>11, <2>3, <2>4, Appended
  <2> QED
    BY <1>12, <1>13, <2>5
<1>15. m <= NonCurrentCap
  <2>1. /\ Len(found) \in Nat /\ Len(older) \in Nat /\ Len(best) \in Nat
        /\ NonCurrentCap \in Nat
    BY <1>4, <1>7, LenProperties, SearchAssumption DEF SearchAssumption
  <2> QED
    BY <1>4, <1>7, <1>10, <1>13, <2>1
<1>16. \A i, k \in 1..m : i < k => VersionOf(rest[i].chunk.row) # VersionOf(rest[k].chunk.row)
  <2> SUFFICES ASSUME NEW i \in 1..m, NEW k \in 1..m, i < k
               PROVE  VersionOf(rest[i].chunk.row) # VersionOf(rest[k].chunk.row)
    OBVIOUS
  <2>1. PICK a \in J, b \in J : a < b /\ rest[i] = best[a] /\ rest[k] = best[b]
    BY <1>10, <1>13 DEF Picked
  <2>2. a \in 1..Len(best) /\ b \in 1..Len(best)
    BY <1>8
  <2>3. PICK x \in I, y \in I : x < y /\ best[a] = found[x] /\ best[b] = found[y]
    BY <1>7, <2>1, <2>2 DEF Picked
  <2>4. x \in 1..y - 1
    BY <1>4, <1>5, <2>3, LenProperties
  <2>5. VersionOf(found[x].chunk.row) # VersionOf(found[y].chunk.row)
    BY <1>5, <2>4
  <2> QED
    BY <2>1, <2>3, <2>5
<1>17. OlderKnown(q, v, n)
  <2>1. \A i \in n + 1..Len(v) : i - n \in 1..m /\ v[i] = rest[i - n]
    <3> SUFFICES ASSUME NEW i \in n + 1..Len(v) PROVE i - n \in 1..m /\ v[i] = rest[i - n]
      OBVIOUS
    <3>1. Len(v) = n + m
      BY <1>14
    <3>2. i \in n + 1..n + m
      BY <3>1
    <3>3. PICK j \in 1..m : j = i - n /\ n + j = i
      BY <3>2
    <3> QED
      BY <1>14, <3>3
  <2>2. \A i \in 1..m : ~rest[i].current
    <3>1. \A i \in 1..m : rest[i] \in F
      BY <1>10, <1>13, ElementOfSeq
    <3> QED
      BY <1>3, <3>1
  <2>3. Len(v) - n <= NonCurrentCap
    BY <1>14, <1>15
  <2>4. \A i \in n + 1..Len(v) : SurfaceNonCurrent(q) /\ ~v[i].current
    BY <2>1, <2>2
  <2>5. ASSUME NEW i \in n + 1..Len(v), NEW k \in n + 1..Len(v),
               VersionOf(v[i].chunk.row) = VersionOf(v[k].chunk.row)
        PROVE  i = k
    <3>1. PICK a \in 1..m : a = i - n /\ v[i] = rest[a]
      BY <2>1
    <3>2. PICK b \in 1..m : b = k - n /\ v[k] = rest[b]
      BY <2>1
    <3>3. ~(a < b) /\ ~(b < a)
      BY <1>16, <2>5, <3>1, <3>2
    <3> QED
      BY <3>1, <3>2, <3>3
  <2> QED
    BY <2>3, <2>4, <2>5 DEF OlderKnown
<1>18. MainKnown(q, v, n)
  <2>1. MainKnown(q, hits, n)
    BY <1>12
  <2>2. n \in 0..Len(v)
    BY <1>14
  <2>3. \A i \in PinCount(q) + 1..n : i \in 1..n
    <3>1. PinCount(q) \in Nat
      <4>1. IsFiniteSet(CitedChunks(q))
        BY AskedRows
      <4>2. Cardinality(CitedChunks(q)) \in Nat /\ CitationLimit \in Nat
        BY <4>1, FS_CardinalityType, SearchAssumption DEF SearchAssumption
      <4> QED
        BY <4>2 DEF PinCount
    <3> QED
      BY <3>1
  <2>4. \A i \in 1..n : v[i] = hits[i]
    BY <1>14
  <2>5. /\ PinCount(q) <= n /\ (n <= q.topK \/ n = PinCount(q))
        /\ n = 0 => NearFor(q) \cup AlikeFor(q) \cup CitedChunks(q) = {}
    BY <2>1 DEF MainKnown
  <2>6. \A i \in 1..n :
           /\ v[i].chunk \in AskedFor(q) /\ (SurfaceNonCurrent(q) => v[i].current)
           /\ v[i].chunk \in IF i <= PinCount(q) THEN CitedChunks(q)
                             ELSE NearFor(q) \cup AlikeFor(q)
    BY <2>1, <2>4 DEF MainKnown
  <2>7. ASSUME NEW i \in PinCount(q) + 1..n, NEW k, <<k, v[i].chunk>> \in BetterFor(q)
        PROVE  \E j \in 1..n : v[j].chunk = k /\ (q.docCap = 0 => j < i)
    <3>1. <<k, hits[i].chunk>> \in BetterFor(q)
      BY <2>3, <2>4, <2>7
    <3>2. PICK j \in 1..n : hits[j].chunk = k /\ (q.docCap = 0 => j < i)
      BY <2>1, <3>1 DEF MainKnown
    <3> QED
      BY <2>4, <3>2
  <2> QED
    BY <2>2, <2>5, <2>6, <2>7 DEF MainKnown
<1> QED
  BY <1>17, <1>18 DEF HitsKnown

\* What the pass over older versions has listed before it is hydrated.
Older(q, s) ==
    /\ SurfaceNonCurrent(q) /\ s \in Seq(Ranked(OlderChunks)) /\ Once(s)
    /\ Len(s) <= NonCurrentCap

\* What an undisturbed call knows when statement m is its next.
KnownAt(c, m) ==
    /\ m <= 1 => c.pinned = <<>>
    /\ m \in 2..5 => PinsKnown(c.q, c.pinned)
    /\ m <= 2 => c.embedded = FALSE
    /\ m = 3 => (c.embedded <=> Embeds(c.q))
    /\ m <= 3 => c.dense = <<>>
    /\ m \in 4..5 => DenseKnown(c.q, c.dense)
    /\ m <= 4 => c.lexical = <<>>
    /\ m = 5 => LexicalKnown(c.q, c.lexical)
    /\ m <= 6 => c.older = NULL
    /\ m = 7 /\ c.older # NULL => Older(c.q, c.older)
    /\ m \in 6..7 => MainKnown(c.q, c.hits, Len(c.hits))
    /\ m >= 8 => HitsKnown(c.q, c.hits)

SearchKnows(c) == KnownAt(c, c.at) /\ Needs(Steps[c.at], c)

KnowsInv == \A c : c = call /\ c # NULL /\ c.tool = "search" /\ c.calm /\ ~c.error =>
               SearchKnows(c)

\* A statement the call does not need would tell it nothing (pins, arms).
LEMMA Skipped ==
    ASSUME CorpusInv, NEW c, c.q \in Queries, NEW m \in 1..10, KnownAt(c, m),
           ~Needs(Steps[m], c)
    PROVE  KnownAt(c, m + 1)
<1>1. PICK q \in Queries : q = c.q
  OBVIOUS
<1>2. Mode(q) \in {"hybrid", "vector", "bm25"}
  BY SearchAssumption DEF SearchAssumption, Mode
<1>3. CASE m = 1
  <2>1. CitedChunks(q) = {}
    BY <1>1, <1>3 DEF Needs, Steps, CitedChunks
  <2>2. PinCount(q) = 0
    <3>1. Cardinality(CitedChunks(q)) = 0 /\ CitationLimit \in Nat \ {0}
      BY <2>1, FS_EmptySet, SearchAssumption DEF SearchAssumption
    <3> QED
      BY <3>1 DEF PinCount
  <2>3. PinsKnown(q, <<>>)
    BY <2>2, EmptySeq DEF PinsKnown
  <2> QED
    BY <1>1, <1>3, <2>3 DEF KnownAt
<1>4. CASE m = 2
  <2>1. ~Embeds(q)
    BY <1>1, <1>4 DEF Needs, Steps, Embeds
  <2> QED
    BY <1>1, <1>4, <2>1 DEF KnownAt
<1>5. CASE m = 3
  <2>1. ~Embeds(q)
    BY <1>1, <1>5 DEF Needs, Steps, KnownAt
  <2>2. NearFor(q) = {}
    <3>1. Mode(q) = "bm25" \/ server.embedder = "none"
      BY <1>2, <2>1 DEF Embeds
    <3>2. server.embedder = "none" => Embedded(server.embedder) = {}
      BY EmbeddedByModel, CorpusAssumption DEF CorpusAssumption
    <3> QED
      BY <3>1, <3>2 DEF NearFor
  <2>3. DenseKnown(q, <<>>)
    BY <2>2, NothingKnown DEF DenseKnown
  <2> QED
    BY <1>1, <1>5, <2>3 DEF KnownAt
<1>6. CASE m = 4
  <2>1. Mode(q) = "vector"
    BY <1>1, <1>6 DEF Needs, Steps
  <2>2. AlikeFor(q) = {}
    BY <2>1 DEF AlikeFor
  <2>3. LexicalKnown(q, <<>>)
    BY <2>2, NothingKnown DEF LexicalKnown
  <2> QED
    BY <1>1, <1>6, <2>3 DEF KnownAt
<1>7. CASE m = 5
  BY <1>7 DEF Needs, Steps
<1>8. CASE m = 6
  BY <1>8 DEF KnownAt
<1>9. CASE m = 7
  <2>1. MainKnown(q, c.hits, Len(c.hits))
    BY <1>1, <1>9 DEF KnownAt
  <2>2. Len(c.hits) \in Nat
    BY <2>1 DEF MainKnown
  <2>3. HitsKnown(q, c.hits)
    BY <2>1, <2>2, NothingOlder
  <2> QED
    BY <1>1, <1>9, <2>3 DEF KnownAt
<1>10. CASE m \in 8..10
  BY <1>10 DEF KnownAt
<1> QED
  BY <1>3, <1>4, <1>5, <1>6, <1>7, <1>8, <1>9, <1>10

\* So it knows at its next statement what it has to know there.
LEMMA SkippedAll ==
    ASSUME CorpusInv, NEW c, c.q \in Queries, NEW i \in 1..11, NEW j \in i..11, KnownAt(c, i),
           \A m \in i..j - 1 : ~Needs(Steps[m], c)
    PROVE  KnownAt(c, j)
<1>1. PICK Good : Good = {m \in 1..11 : m \in i..j => KnownAt(c, m)}
  OBVIOUS
<1>2. 1 \in Good
  BY <1>1
<1>3. ASSUME NEW m \in 1..10, m \in Good PROVE m + 1 \in Good
  <2> SUFFICES ASSUME m + 1 \in i..j PROVE KnownAt(c, m + 1)
    BY <1>1
  <2>1. CASE m + 1 = i
    BY <2>1
  <2>2. CASE m + 1 # i
    <3>1. m \in i..j - 1 /\ m \in i..j
      BY <2>2
    <3>2. KnownAt(c, m)
      BY <1>1, <1>3, <3>1
    <3> QED
      BY <3>1, <3>2, Skipped
  <2> QED
    BY <2>1, <2>2
<1>4. /\ 1 + 1 \in Good /\ 2 + 1 \in Good /\ 3 + 1 \in Good /\ 4 + 1 \in Good
      /\ 5 + 1 \in Good /\ 6 + 1 \in Good /\ 7 + 1 \in Good /\ 8 + 1 \in Good
      /\ 9 + 1 \in Good /\ 10 + 1 \in Good
  BY <1>2, <1>3
<1>5. \A m \in 1..11 : m \in Good
  BY <1>2, <1>4
<1> QED
  BY <1>1, <1>5

\* What is known stays known while no writer moves.
LEMMA KnownStands ==
    ASSUME UNCHANGED corpus, NEW c, SearchKnows(c)
    PROVE  SearchKnows(c)'
<1>1. UNCHANGED <<server, control, chunk, vector, sparse, current>>
  BY DEF corpus
<1>2. Joined' = Joined /\ \A r : IsCurrent(r)' <=> IsCurrent(r)
  BY <1>1 DEF Joined, IsCurrent, VersionOf
<1>3. \A q : Mode(q)' = Mode(q) /\ (Embeds(q)' <=> Embeds(q))
  BY <1>1 DEF Mode, Embeds
<1>4. \A q : CitedChunks(q)' = CitedChunks(q) /\ AskedFor(q)' = AskedFor(q)
  BY <1>2 DEF CitedChunks, AskedFor, VersionFilter, Served, MatchCitation, At
<1>5. \A q : NearFor(q)' = NearFor(q) /\ AlikeFor(q)' = AlikeFor(q)
  BY <1>1, <1>3, <1>4 DEF NearFor, AlikeFor, Embedded, At
<1>6. \A q : BetterFor(q)' = BetterFor(q)
  BY <1>5 DEF BetterFor
<1>7. \A q : PinCount(q)' = PinCount(q)
  BY <1>4 DEF PinCount
<1>8. \A S : Fresh(S)' = Fresh(S) /\ Ranked(S)' = Ranked(S)
  BY <1>1, <1>2 DEF Fresh, Ranked, Hit, Vouched
<1>9. OlderChunks' = OlderChunks
  BY <1>2 DEF OlderChunks
<1>10. \A q, s : /\ PinsKnown(q, s)' <=> PinsKnown(q, s)
                 /\ DenseKnown(q, s)' <=> DenseKnown(q, s)
                 /\ LexicalKnown(q, s)' <=> LexicalKnown(q, s)
                 /\ Older(q, s)' <=> Older(q, s)
  <2>1. \A q, s : PinsKnown(q, s)' <=> PinsKnown(q, s)
    BY <1>4, <1>7, <1>8 DEF PinsKnown
  <2>2. \A q, s : DenseKnown(q, s)' <=> DenseKnown(q, s)
    BY <1>5 DEF DenseKnown
  <2>3. \A q, s : LexicalKnown(q, s)' <=> LexicalKnown(q, s)
    BY <1>5 DEF LexicalKnown
  <2>4. \A q, s : Older(q, s)' <=> Older(q, s)
    BY <1>8, <1>9 DEF Older, SurfaceNonCurrent, Once
  <2> QED
    BY <2>1, <2>2, <2>3, <2>4
<1>11. \A q, s, n : MainKnown(q, s, n)' <=> MainKnown(q, s, n)
  BY <1>4, <1>5, <1>6, <1>7 DEF MainKnown, SurfaceNonCurrent
<1>12. \A q, s : HitsKnown(q, s)' <=> HitsKnown(q, s)
  BY <1>11 DEF HitsKnown, OlderKnown, SurfaceNonCurrent, VersionOf
<1>13. KnownAt(c, c.at)'
  BY <1>3, <1>10, <1>11, <1>12 DEF SearchKnows, KnownAt
<1>14. Needs(Steps[c.at], c)'
  BY <1>1, <1>3 DEF SearchKnows, Needs, SurfaceNonCurrent, MatchCitation, Steps
<1> QED
  BY <1>13, <1>14 DEF SearchKnows

\* A search continues with what it knows.
LEMMA KnowsContinued ==
    ASSUME CorpusInv, NEW d, DOMAIN d = SearchFields, d.at \in 0..10, d.q \in Queries,
           d.calm /\ ~d.error => KnownAt(d, d.at + 1), Continue(d)
    PROVE  KnowsInv'
<1> SUFFICES ASSUME NEW c, c = call', c.calm, ~c.error PROVE SearchKnows(c)'
  BY DEF KnowsInv
<1> DEFINE later == {i \in d.at + 1..Len(Steps) : Needs(Steps[i], d)}
           next == CHOOSE i \in later : \A j \in later : i <= j
<1>1. Len(Steps) = 11 /\ Steps[11] = "reply"
  BY DEF Steps
<1>2. 11 \in later
  BY <1>1 DEF Needs
<1>3. later \in SUBSET Nat
  BY <1>1
<1>4. \A i \in d.at + 1..11 : Needs(Steps[i], d) => i \in later
  BY <1>1
<1>5. \A i \in later : i \in d.at + 1..11
  BY <1>1
<1>6. c = [d EXCEPT !.at = next] /\ UNCHANGED <<corpus, job, jobs>>
  BY DEF Continue, Advance
<1> HIDE DEF later
<1>7. \E i \in later : \A j \in later : i <= j
  BY <1>2, <1>3, LeastNumber
<1>8. next \in later /\ \A j \in later : next <= j
  BY <1>7
<1> HIDE DEF next
<1>9. PICK n \in d.at + 1..11 : n = next
  BY <1>5, <1>8
<1>10. Needs(Steps[n], d)
  BY <1>8, <1>9 DEF later
<1>11. \A i \in d.at + 1..n - 1 : ~Needs(Steps[i], d)
  BY <1>1, <1>3, <1>4, <1>8, <1>9
<1>12. /\ c.at = n /\ c.q = d.q /\ c.calm = d.calm /\ c.error = d.error
       /\ c.embedded = d.embedded /\ c.pinned = d.pinned /\ c.dense = d.dense
       /\ c.lexical = d.lexical /\ c.hits = d.hits /\ c.older = d.older
  BY <1>6, <1>9 DEF SearchFields
<1>13. KnownAt(d, n)
  <2>1. PICK i \in 1..11 : i = d.at + 1
    OBVIOUS
  <2>2. n \in i..11 /\ KnownAt(d, i)
    BY <1>9, <1>12, <2>1
  <2>3. \A m \in i..n - 1 : ~Needs(Steps[m], d)
    BY <1>11, <2>1
  <2> QED
    BY <2>2, <2>3, SkippedAll
<1>14. KnownAt(c, n)
  BY <1>12, <1>13 DEF KnownAt
<1>15. Needs(Steps[n], c)
  BY <1>10, <1>12 DEF Needs
<1>16. SearchKnows(c)
  BY <1>12, <1>14, <1>15 DEF SearchKnows
<1> QED
  BY <1>6, <1>16, KnownStands

\* The pass over older versions lists a few chunks that are not current
\* (nonCurrentHits).
LEMMA OlderListed ==
    ASSUME CorpusInv, NEW q \in Queries, SurfaceNonCurrent(q), NEW list, NEW limit, NEW v,
           \/ list = fuseRRF(Dense(q, NonCurrent), <<>>, 2)
           \/ list = fuseRRF(<<>>, Sparse(q, NonCurrent), 2),
           limit = (IF q.topK < NonCurrentCap THEN q.topK ELSE NonCurrentCap),
           v = Limit(list, limit)
    PROVE  Older(q, v)
<1>1. PICK S : S = OlderChunks
  OBVIOUS
<1>2. S \in SUBSET ChunkRow
  <2>1. Joined \subseteq ChunkRow
    BY AskedRows
  <2> QED
    BY <1>1, <2>1 DEF OlderChunks
<1>3. PICK none \in Seq(S) : none = <<>>
  <2>1. <<>> \in Seq(S)
    BY EmptySeq
  <2> QED
    BY <2>1
<1>4. PICK two \in Nat : two = 2
  OBVIOUS
<1>5. limit \in Nat /\ limit <= NonCurrentCap
  <2>1. PICK cap \in Nat : cap = NonCurrentCap
    BY SearchAssumption DEF SearchAssumption
  <2>2. PICK topK \in Nat : topK = q.topK
    BY SearchAssumption DEF SearchAssumption
  <2>3. limit = IF topK < cap THEN topK ELSE cap
    BY <2>1, <2>2
  <2> QED
    BY <2>1, <2>3
<1>6. list \in Seq(Ranked(S)) /\ Once(list)
  <2>1. CASE list = fuseRRF(Dense(q, NonCurrent), <<>>, 2)
    <3>1. PICK dense : dense = Dense(q, NonCurrent)
      OBVIOUS
    <3>2. dense \in Seq(S)
      BY <1>1, <3>1, OlderTells
    <3>3. dense # <<>> => server.embedder \in Models
      BY <3>1, DenseSees
    <3>4. list = fuseRRF(dense, none, two)
      BY <1>3, <1>4, <2>1, <3>1
    <3> QED
      BY <1>2, <3>2, <3>3, <3>4, Fused
  <2>2. CASE list = fuseRRF(<<>>, Sparse(q, NonCurrent), 2)
    <3>1. PICK lexical : lexical = Sparse(q, NonCurrent)
      OBVIOUS
    <3>2. lexical \in Seq(S)
      BY <1>1, <3>1, OlderTells
    <3>3. list = fuseRRF(none, lexical, two) /\ (none # <<>> => server.embedder \in Models)
      BY <1>3, <1>4, <2>2, <3>1
    <3> QED
      BY <1>2, <3>2, <3>3, Fused
  <2> QED
    BY <2>1, <2>2
<1>7. list \in Seq(Ranked(S)) /\ limit \in Nat
  BY <1>5, <1>6
<1>8. v \in Seq(Ranked(S)) /\ Once(v)
  BY <1>6, <1>7, OnceLimit
<1>9. Len(v) <= limit
  BY <1>7, LimitLists
<1>10. Len(v) <= NonCurrentCap
  <2>1. Len(v) \in Nat /\ NonCurrentCap \in Nat
    BY <1>8, LenProperties, SearchAssumption DEF SearchAssumption
  <2> QED
    BY <1>5, <1>9, <2>1
<1> QED
  BY <1>1, <1>8, <1>10 DEF Older

\* d is c but for one part.
Wrote(c, d, f, v) ==
    DOMAIN d = SearchFields /\ d[f] = v /\ \A g \in SearchFields \ {f} : d[g] = c[g]

\* Every statement of a search that nothing came between tells what it should.
LEMMA SearchLearns == ASSUME CorpusInv, SearchInv, KnowsInv, SearchNext PROVE KnowsInv'
<1>1. ASSUME NEW q \in Queries, SearchStart(q) PROVE KnowsInv'
  <2>1. PICK c : c = NewSearch(q)
    OBVIOUS
  <2>2. Continue(c)
    BY <1>1, <2>1 DEF SearchStart
  <2>3. DOMAIN c = SearchFields /\ c.at = 0 /\ c.q \in Queries
    BY <2>1 DEF NewSearch, SearchFields
  <2>4. KnownAt(c, 1)
    BY <2>1 DEF NewSearch, KnownAt
  <2>5. c.at \in 0..10 /\ KnownAt(c, c.at + 1)
    BY <2>3, <2>4
  <2> QED
    BY <2>2, <2>3, <2>5, KnowsContinued
<1>2. CASE SearchReturn
  BY <1>2 DEF SearchReturn, KnowsInv
<1>3. ASSUME Searching, ~SearchReturn, ~ \E q \in Queries : SearchStart(q) PROVE KnowsInv'
  <2>1. PICK c : c = call
    OBVIOUS
  <2>2. /\ SearchFacts(c) /\ SearchTyped(c) /\ c.at \in 1..11
        /\ \A i \in 1..11 : SearchAt(Steps[i]) => c.at = i
    BY <1>3, <2>1, StatementNumber
  <2>3. DOMAIN c = SearchFields
    BY <2>2 DEF SearchTyped
  <2>4. PICK q \in Queries : q = c.q
    BY <2>2 DEF SearchTyped
  <2>5. c.calm /\ ~c.error => KnownAt(c, c.at) /\ Needs(Steps[c.at], c)
    BY <1>3, <2>1 DEF KnowsInv, SearchKnows, Searching
  <2>6. ASSUME NEW f \in SearchFields \ {"tool", "q", "at", "calm", "error"}, NEW v,
               NEW m \in 1..10, c.at = m, Continue([call EXCEPT ![f] = v]),
               \A d : Wrote(c, d, f, v) /\ c.calm /\ ~c.error => KnownAt(d, m + 1)
        PROVE  KnowsInv'
    <3>1. PICK d : d = [c EXCEPT ![f] = v]
      OBVIOUS
    <3>2. Wrote(c, d, f, v)
      BY <2>3, <3>1 DEF Wrote
    <3>3. d.at = c.at /\ d.q = c.q /\ d.calm = c.calm /\ d.error = c.error
      BY <3>2 DEF Wrote, SearchFields
    <3>4. d.calm /\ ~d.error => KnownAt(d, d.at + 1)
      BY <2>6, <3>2, <3>3
    <3>5. Continue(d)
      BY <2>1, <2>6, <3>1
    <3>6. DOMAIN d = SearchFields /\ d.at \in 0..10 /\ d.q \in Queries
      BY <2>4, <2>6, <3>2, <3>3 DEF Wrote
    <3> QED
      BY <3>4, <3>5, <3>6, KnowsContinued
  <2>7. CASE citationLookup
    <3>1. SearchAt("cite")
      BY <2>7 DEF citationLookup
    <3>2. c.at = 1
      <4>1. Steps[1] = "cite"
        BY DEF Steps
      <4> QED
        BY <2>2, <3>1, <4>1
    <3>3. PICK found : found = CitedChunks(q)
      OBVIOUS
    <3>4. PICK first : first = Limit(Ordered(found, By(found, CitedKey(found))), CitationLimit)
      OBVIOUS
    <3>5. PICK v : v = PinsOf(first)
      OBVIOUS
    <3>6. PinsKnown(q, v)
      BY <3>3, <3>4, <3>5, PinsTell
    <3>7. Continue([call EXCEPT !["pinned"] = v])
      BY <2>1, <2>4, <2>7, <3>3, <3>4, <3>5 DEF citationLookup, Continue, Pins, CitedChunks,
         CitedKey, PinsOf
    <3>8. ASSUME NEW d, Wrote(c, d, "pinned", v), c.calm, ~c.error PROVE KnownAt(d, 2)
      <4>1. KnownAt(c, 1)
        BY <2>5, <3>2, <3>8
      <4>2. /\ d.pinned = v /\ d.q = q /\ d.embedded = c.embedded /\ d.dense = c.dense
            /\ d.lexical = c.lexical /\ d.older = c.older
        BY <2>4, <3>8 DEF Wrote, SearchFields
      <4> QED
        BY <3>6, <4>1, <4>2 DEF KnownAt
    <3>9. PICK m \in 1..10 : m = 1
      OBVIOUS
    <3>10. "pinned" \in SearchFields \ {"tool", "q", "at", "calm", "error"}
      BY DEF SearchFields
    <3>11. c.at = m /\ \A d : Wrote(c, d, "pinned", v) /\ c.calm /\ ~c.error => KnownAt(d, m + 1)
      BY <3>2, <3>8, <3>9
    <3> QED
      BY <2>6, <3>7, <3>10, <3>11
  <2>8. CASE EmbedQuery
    <3>1. SearchAt("embed")
      BY <2>8 DEF EmbedQuery
    <3>2. c.at = 2
      <4>1. Steps[2] = "embed"
        BY DEF Steps
      <4> QED
        BY <2>2, <3>1, <4>1
    <3>3. PICK yes : yes = TRUE
      OBVIOUS
    <3>4. Continue([call EXCEPT !["embedded"] = yes])
      BY <2>8, <3>3 DEF EmbedQuery, Continue
    <3>5. ASSUME NEW d, Wrote(c, d, "embedded", yes), c.calm, ~c.error PROVE KnownAt(d, 3)
      <4>1. KnownAt(c, 2) /\ Needs(Steps[2], c)
        BY <2>5, <3>2, <3>5
      <4>2. Embeds(q)
        BY <2>4, <4>1 DEF Needs, Steps, Embeds
      <4>3. /\ d.embedded = TRUE /\ d.q = q /\ d.pinned = c.pinned /\ d.dense = c.dense
            /\ d.lexical = c.lexical /\ d.older = c.older
        BY <2>4, <3>5, <3>3 DEF Wrote, SearchFields
      <4> QED
        BY <2>4, <4>1, <4>2, <4>3 DEF KnownAt
    <3>6. PICK m \in 1..10 : m = 2
      OBVIOUS
    <3>7. "embedded" \in SearchFields \ {"tool", "q", "at", "calm", "error"}
      BY DEF SearchFields
    <3>8. c.at = m /\ \A d : Wrote(c, d, "embedded", yes) /\ c.calm /\ ~c.error => KnownAt(d, m + 1)
      BY <3>2, <3>5, <3>6
    <3> QED
      BY <2>6, <3>4, <3>7, <3>8
  <2>9. CASE vectorArmExact
    <3>1. SearchAt("dense")
      BY <2>9 DEF vectorArmExact
    <3>2. c.at = 3
      <4>1. Steps[3] = "dense"
        BY DEF Steps
      <4> QED
        BY <2>2, <3>1, <4>1
    <3>3. PICK v : v = Dense(q, VersionFilter)
      OBVIOUS
    <3>4. Continue([call EXCEPT !["dense"] = v])
      BY <2>1, <2>4, <2>9, <3>3 DEF vectorArmExact, Continue
    <3>5. ASSUME NEW d, Wrote(c, d, "dense", v), c.calm, ~c.error PROVE KnownAt(d, 4)
      <4>1. KnownAt(c, 3) /\ Needs(Steps[3], c)
        BY <2>5, <3>2, <3>5
      <4>2. Mode(q) # "bm25"
        <5>1. Embeds(q)
          BY <2>4, <4>1 DEF Needs, Steps, KnownAt
        <5> QED
          BY <5>1 DEF Embeds
      <4>3. DenseKnown(q, v)
        BY <3>3, <4>2, DenseTells
      <4>4. /\ d.dense = v /\ d.q = q /\ d.pinned = c.pinned
            /\ d.lexical = c.lexical /\ d.older = c.older
        BY <2>4, <3>5 DEF Wrote, SearchFields
      <4> QED
        BY <2>4, <4>1, <4>3, <4>4 DEF KnownAt
    <3>6. PICK m \in 1..10 : m = 3
      OBVIOUS
    <3>7. "dense" \in SearchFields \ {"tool", "q", "at", "calm", "error"}
      BY DEF SearchFields
    <3>8. c.at = m /\ \A d : Wrote(c, d, "dense", v) /\ c.calm /\ ~c.error => KnownAt(d, m + 1)
      BY <3>2, <3>5, <3>6
    <3> QED
      BY <2>6, <3>4, <3>7, <3>8
  <2>10. CASE sparseArm
    <3>1. SearchAt("lexical")
      BY <2>10 DEF sparseArm
    <3>2. c.at = 4
      <4>1. Steps[4] = "lexical"
        BY DEF Steps
      <4> QED
        BY <2>2, <3>1, <4>1
    <3>3. PICK v : v = Sparse(q, VersionFilter)
      OBVIOUS
    <3>4. Continue([call EXCEPT !["lexical"] = v])
      BY <2>1, <2>4, <2>10, <3>3 DEF sparseArm, Continue
    <3>5. ASSUME NEW d, Wrote(c, d, "lexical", v), c.calm, ~c.error PROVE KnownAt(d, 5)
      <4>1. KnownAt(c, 4) /\ Needs(Steps[4], c)
        BY <2>5, <3>2, <3>5
      <4>2. Mode(q) # "vector"
        BY <2>4, <4>1 DEF Needs, Steps
      <4>3. LexicalKnown(q, v)
        BY <3>3, <4>2, SparseTells
      <4>4. /\ d.lexical = v /\ d.q = q /\ d.pinned = c.pinned
            /\ d.dense = c.dense /\ d.older = c.older
        BY <2>4, <3>5 DEF Wrote, SearchFields
      <4> QED
        BY <2>4, <4>1, <4>3, <4>4 DEF KnownAt
    <3>6. PICK m \in 1..10 : m = 4
      OBVIOUS
    <3>7. "lexical" \in SearchFields \ {"tool", "q", "at", "calm", "error"}
      BY DEF SearchFields
    <3>8. c.at = m /\ \A d : Wrote(c, d, "lexical", v) /\ c.calm /\ ~c.error => KnownAt(d, m + 1)
      BY <3>2, <3>5, <3>6
    <3> QED
      BY <2>6, <3>4, <3>7, <3>8
  <2>11. CASE hydrate
    <3>1. SearchAt("hydrate")
      BY <2>11 DEF hydrate
    <3>2. c.at = 5
      <4>1. Steps[5] = "hydrate"
        BY DEF Steps
      <4> QED
        BY <2>2, <3>1, <4>1
    <3>3. PICK room : room = IF Len(c.pinned) = 0 THEN q.topK
                             ELSE IF q.topK - Len(c.pinned) < 1 THEN 1
                             ELSE q.topK - Len(c.pinned)
      OBVIOUS
    <3>4. PICK fused : fused = fuseRRF(c.dense, c.lexical, IF Len(c.pinned) > 0 THEN 3 ELSE 1)
      OBVIOUS
    <3>5. PICK found : found = Hydrated(Limit(fused, room))
      OBVIOUS
    <3>6. PICK kept : kept = IF q.docCap > 0 THEN capPerFramework(found, q.docCap, room)
                             ELSE found
      OBVIOUS
    <3>7. PICK v : v = IF Len(c.pinned) > 0 THEN mergePinned(c.pinned, kept, q.topK) ELSE kept
      OBVIOUS
    <3>8. Continue([call EXCEPT !["hits"] = v])
      BY <2>1, <2>4, <2>11, <3>3, <3>4, <3>5, <3>6, <3>7 DEF hydrate, Continue
    <3>9. ASSUME NEW d, Wrote(c, d, "hits", v), c.calm, ~c.error PROVE KnownAt(d, 6)
      <4>1. KnownAt(c, 5)
        BY <2>5, <3>2, <3>9
      <4>2. PICK pinned, dense, lexical :
               pinned = c.pinned /\ dense = c.dense /\ lexical = c.lexical
        OBVIOUS
      <4>3. PinsKnown(q, pinned) /\ DenseKnown(q, dense) /\ LexicalKnown(q, lexical)
        BY <2>4, <4>1, <4>2 DEF KnownAt
      <4>4. MainKnown(q, v, Len(v))
        BY <3>3, <3>4, <3>5, <3>6, <3>7, <4>2, <4>3, HydrateTells
      <4>5. d.hits = v /\ d.q = q /\ d.older = c.older
        BY <2>4, <3>9 DEF Wrote, SearchFields
      <4> QED
        BY <4>1, <4>4, <4>5 DEF KnownAt
    <3>10. PICK m \in 1..10 : m = 5
      OBVIOUS
    <3>11. "hits" \in SearchFields \ {"tool", "q", "at", "calm", "error"}
      BY DEF SearchFields
    <3>12. c.at = m /\ \A d : Wrote(c, d, "hits", v) /\ c.calm /\ ~c.error => KnownAt(d, m + 1)
      BY <3>2, <3>9, <3>10
    <3> QED
      BY <2>6, <3>8, <3>11, <3>12
  <2>12. CASE nonCurrentHits
    <3>1. SearchAt("older")
      BY <2>12 DEF nonCurrentHits
    <3>2. c.at = 6
      <4>1. Steps[6] = "older"
        BY DEF Steps
      <4> QED
        BY <2>2, <3>1, <4>1
    <3>3. PICK list : list = IF c.embedded THEN fuseRRF(Dense(q, NonCurrent), <<>>, 2)
                             ELSE fuseRRF(<<>>, Sparse(q, NonCurrent), 2)
      OBVIOUS
    <3>4. PICK limit : limit = IF q.topK < NonCurrentCap THEN q.topK ELSE NonCurrentCap
      OBVIOUS
    <3>5. PICK v : v = Limit(list, limit)
      OBVIOUS
    <3>6. Continue([call EXCEPT !["older"] = v])
      BY <2>1, <2>4, <2>12, <3>3, <3>4, <3>5 DEF nonCurrentHits, Continue
    <3>7. ASSUME NEW d, Wrote(c, d, "older", v), c.calm, ~c.error PROVE KnownAt(d, 7)
      <4>1. KnownAt(c, 6) /\ Needs(Steps[6], c)
        BY <2>5, <3>2, <3>7
      <4>2. SurfaceNonCurrent(q)
        BY <2>4, <4>1 DEF Needs, Steps
      <4>3. \/ list = fuseRRF(Dense(q, NonCurrent), <<>>, 2)
            \/ list = fuseRRF(<<>>, Sparse(q, NonCurrent), 2)
        BY <3>3
      <4>4. Older(q, v)
        BY <3>4, <3>5, <4>2, <4>3, OlderListed
      <4>5. d.older = v /\ d.q = q /\ d.hits = c.hits
        BY <2>4, <3>7 DEF Wrote, SearchFields
      <4> QED
        BY <2>4, <4>1, <4>4, <4>5 DEF KnownAt
    <3>8. PICK m \in 1..10 : m = 6
      OBVIOUS
    <3>9. "older" \in SearchFields \ {"tool", "q", "at", "calm", "error"}
      BY DEF SearchFields
    <3>10. c.at = m /\ \A d : Wrote(c, d, "older", v) /\ c.calm /\ ~c.error => KnownAt(d, m + 1)
      BY <3>2, <3>7, <3>8
    <3> QED
      BY <2>6, <3>6, <3>9, <3>10
  <2>13. CASE nonCurrentHydrate
    <3>1. SearchAt("olderhydrate")
      BY <2>13 DEF nonCurrentHydrate
    <3>2. c.at = 7
      <4>1. Steps[7] = "olderhydrate"
        BY DEF Steps
      <4> QED
        BY <2>2, <3>1, <4>1
    <3>3. PICK older : older = c.older
      OBVIOUS
    <3>4. PICK T : T = Hit(Seen)
      OBVIOUS
    <3>5. PICK hits \in Seq(T) : hits = c.hits
      BY <2>2, <3>4 DEF SearchTyped
    <3>6. PICK found : found = Hydrated(older)
      OBVIOUS
    <3>7. PICK v : v = appendNonCurrent(hits, bestHitPerFramework(found))
      OBVIOUS
    <3>8. Continue([call EXCEPT !["hits"] = v])
      BY <2>1, <2>13, <3>3, <3>5, <3>6, <3>7 DEF nonCurrentHydrate, Continue
    <3>9. ASSUME NEW d, Wrote(c, d, "hits", v), c.calm, ~c.error PROVE KnownAt(d, 8)
      <4>1. KnownAt(c, 7) /\ Needs(Steps[7], c)
        BY <2>5, <3>2, <3>9
      <4>2. c.older # NULL
        BY <4>1 DEF Needs, Steps
      <4>3. Older(q, older) /\ MainKnown(q, hits, Len(hits))
        BY <2>4, <3>3, <3>5, <4>1, <4>2 DEF KnownAt
      <4>4. SurfaceNonCurrent(q) /\ Once(older) /\ Len(older) <= NonCurrentCap
        BY <4>3 DEF Older
      <4>5. older \in Seq(Ranked(OlderChunks))
        BY <4>3 DEF Older
      <4>6. HitsKnown(q, v)
        BY <3>6, <3>7, <4>3, <4>4, <4>5, AppendTells
      <4>7. d.hits = v /\ d.q = q
        BY <2>4, <3>9 DEF Wrote, SearchFields
      <4> QED
        BY <4>6, <4>7 DEF KnownAt
    <3>10. PICK m \in 1..10 : m = 7
      OBVIOUS
    <3>11. "hits" \in SearchFields \ {"tool", "q", "at", "calm", "error"}
      BY DEF SearchFields
    <3>12. c.at = m /\ \A d : Wrote(c, d, "hits", v) /\ c.calm /\ ~c.error => KnownAt(d, m + 1)
      BY <3>2, <3>9, <3>10
    <3> QED
      BY <2>6, <3>8, <3>11, <3>12
  <2>14. ASSUME NEW d, DOMAIN d = SearchFields, Continue(d), NEW m \in 8..10, c.at = m,
                d.q = c.q, d.at = c.at, d.calm = c.calm, d.error = c.error, d.hits = c.hits
         PROVE  KnowsInv'
    <3>1. c.calm /\ ~c.error => KnownAt(d, m + 1)
      <4>1. c.calm /\ ~c.error => HitsKnown(c.q, c.hits)
        BY <2>5, <2>14 DEF KnownAt
      <4> QED
        BY <2>14, <4>1 DEF KnownAt
    <3>2. d.calm /\ ~d.error => KnownAt(d, d.at + 1)
      BY <2>14, <3>1
    <3>3. d.at \in 0..10 /\ d.q \in Queries
      BY <2>4, <2>14
    <3> QED
      BY <2>14, <3>2, <3>3, KnowsContinued
  <2>15. CASE hitSourceURLs
    <3>1. SearchAt("urls")
      BY <2>15 DEF hitSourceURLs
    <3>2. PICK m \in 8..10 : m = c.at
      <4>1. Steps[8] = "urls"
        BY DEF Steps
      <4> QED
        BY <2>2, <3>1, <4>1
    <3>3. PICK d : d = [c EXCEPT !.urls = {k.row.doc : k \in Chunks(c.hits)}]
      OBVIOUS
    <3>4. Continue(d)
      BY <2>1, <2>15, <3>3 DEF hitSourceURLs, Continue
    <3>5. /\ DOMAIN d = SearchFields /\ d.q = c.q /\ d.at = c.at /\ d.calm = c.calm
          /\ d.error = c.error /\ d.hits = c.hits
      BY <2>3, <3>3 DEF SearchFields
    <3> QED
      BY <2>14, <3>2, <3>4, <3>5
  <2>16. CASE filterGaps
    <3>1. SearchAt("filter")
      BY <2>16 DEF filterGaps
    <3>2. PICK m \in 8..10 : m = c.at
      <4>1. Steps[9] = "filter"
        BY DEF Steps
      <4> QED
        BY <2>2, <3>1, <4>1
    <3>3. PICK gaps : Continue([call EXCEPT !.gaps = gaps])
      BY <2>16 DEF filterGaps
    <3>4. PICK d : d = [c EXCEPT !.gaps = gaps]
      OBVIOUS
    <3>5. Continue(d)
      BY <2>1, <3>3, <3>4
    <3>6. /\ DOMAIN d = SearchFields /\ d.q = c.q /\ d.at = c.at /\ d.calm = c.calm
          /\ d.error = c.error /\ d.hits = c.hits
      BY <2>3, <3>4 DEF SearchFields
    <3> QED
      BY <2>14, <3>2, <3>5, <3>6
  <2>17. CASE SearchShape
    <3>1. SearchAt("shape")
      BY <2>17 DEF SearchShape
    <3>2. PICK m \in 8..10 : m = c.at
      <4>1. Steps[10] = "shape"
        BY DEF Steps
      <4> QED
        BY <2>2, <3>1, <4>1
    <3>3. PICK low, none, text : Continue([call EXCEPT
               !.pinned = <<>>, !.dense = <<>>, !.lexical = <<>>, !.older = NULL,
               !.abstain = none \/ low,
               !.gaps = @ \cup (IF none THEN {Gap("no_evidence", TRUE)} ELSE {})
                          \cup (IF low THEN {Gap("low_confidence", TRUE)} ELSE {}),
               !.text = text])
      BY <2>17 DEF SearchShape
    <3>4. PICK d : d = [call EXCEPT
               !.pinned = <<>>, !.dense = <<>>, !.lexical = <<>>, !.older = NULL,
               !.abstain = none \/ low,
               !.gaps = @ \cup (IF none THEN {Gap("no_evidence", TRUE)} ELSE {})
                          \cup (IF low THEN {Gap("low_confidence", TRUE)} ELSE {}),
               !.text = text]
      OBVIOUS
    <3>5. Continue(d)
      BY <3>3, <3>4
    <3>6. /\ DOMAIN d = SearchFields /\ d.q = c.q /\ d.at = c.at /\ d.calm = c.calm
          /\ d.error = c.error /\ d.hits = c.hits
      BY <2>1, <2>3, <3>4 DEF SearchFields
    <3> QED
      BY <2>14, <3>2, <3>5, <3>6
  <2>18. CASE StatementFails
    <3>1. c.at \in 0..10
      BY <2>1, <2>2, <2>18 DEF StatementFails, Tolerated, Steps
    <3>2. PICK d : d = [c EXCEPT !.calm = FALSE, !.older = NULL]
      OBVIOUS
    <3>3. Continue(d)
      BY <2>1, <2>18, <3>2 DEF StatementFails, Continue
    <3>4. /\ DOMAIN d = SearchFields /\ d.q \in Queries /\ d.at \in 0..10 /\ d.calm = FALSE
      BY <2>3, <2>4, <3>1, <3>2 DEF SearchFields
    <3> QED
      BY <3>3, <3>4, KnowsContinued
  <2>19. CASE SearchFails
    <3>1. PICK new : new = NewSearch(c.q)
      OBVIOUS
    <3>2. call' = [new EXCEPT !.at = Len(Steps), !.error = TRUE]
      BY <2>1, <2>19, <3>1 DEF SearchFails
    <3>3. DOMAIN new = SearchFields
      BY <3>1 DEF NewSearch, SearchFields
    <3>4. call'.error = TRUE
      BY <3>2, <3>3 DEF SearchFields
    <3> QED
      BY <3>4 DEF KnowsInv
  <2>20. ASSUME NEW n \in 0..CitationLimit, CitationFails(n) PROVE KnowsInv'
    <3>1. c.at \in 0..10
      BY <2>2, <2>20 DEF CitationFails, Steps
    <3>2. PICK d : d = [c EXCEPT !.calm = FALSE, !.pinned = Limit(Pins(c.q), n)]
      OBVIOUS
    <3>3. Continue(d)
      BY <2>1, <2>20, <3>2 DEF CitationFails, Continue
    <3>4. DOMAIN d = SearchFields /\ d.q \in Queries /\ d.at \in 0..10 /\ d.calm = FALSE
      BY <2>3, <2>4, <3>1, <3>2 DEF SearchFields
    <3> QED
      BY <3>3, <3>4, KnowsContinued
  <2> QED
    BY <1>3, <2>7, <2>8, <2>9, <2>10, <2>11, <2>12, <2>13, <2>15, <2>16, <2>17, <2>18, <2>19,
       <2>20
    DEF SearchNext
<1>4. \/ Searching \/ \E q \in Queries : SearchStart(q)
  BY DEF SearchNext, citationLookup, EmbedQuery, vectorArmExact, sparseArm, hydrate,
     nonCurrentHits, nonCurrentHydrate, hitSourceURLs, filterGaps, SearchShape,
     CitationFails, StatementFails, SearchFails, SearchReturn, SearchAt
<1> QED
  BY <1>1, <1>2, <1>3, <1>4

\* Nothing is forgotten while neither the corpus nor the call changes.
LEMMA KnowsStand == ASSUME KnowsInv, UNCHANGED <<corpus, call>> PROVE KnowsInv'
<1> SUFFICES ASSUME NEW c, c = call', c # NULL, c.tool = "search", c.calm, ~c.error
             PROVE  SearchKnows(c)'
  BY DEF KnowsInv
<1>1. SearchKnows(c)
  BY DEF KnowsInv
<1> QED
  BY <1>1, KnownStands

\* After a write a call is no longer one that nothing came between; only the end of a
\* job is no write.
LEMMA KnowsDisturbed == ASSUME SearchInv, KnowsInv, Write PROVE KnowsInv'
<1>1. UNCHANGED <<corpus, call>> \/ Disturb
  BY DEF Write, NormalizeDelete, DeleteOrphanChunks, InsertControl, ResolveControlMappings,
     UpsertControlMapping, DeleteChunksForControls, InsertChunk, UpsertChunkEmbedding,
     UpdateChunkSparse, JobEnds, Seed
<1>2. CASE UNCHANGED <<corpus, call>>
  BY <1>2, KnowsStand
<1>3. CASE Disturb
  <2> SUFFICES ASSUME NEW c, c = call', c # NULL, c.tool = "search", c.calm PROVE FALSE
    BY DEF KnowsInv
  <2>1. PICK d : d = call
    OBVIOUS
  <2>2. d # NULL /\ c = [d EXCEPT !.calm = FALSE]
    BY <1>3, <2>1 DEF Disturb
  <2>3. d.tool = "search"
    BY <2>2
  <2>4. "calm" \in DOMAIN d
    BY <2>1, <2>2, <2>3 DEF SearchInv, SearchFacts, SearchTyped, SearchFields
  <2> QED
    BY <2>2, <2>4
<1> QED
  BY <1>1, <1>2, <1>3

\* Without a search there is nothing to know.
LEMMA NothingToKnow == ASSUME call' = NULL \/ call'.tool # "search" PROVE KnowsInv'
BY DEF KnowsInv

\* The numbers of an interval.
LEMMA Numbers ==
    ASSUME NEW m \in Nat, NEW n \in Nat, m <= n
    PROVE  Cardinality(1..n) = n /\ Cardinality(m + 1..n) = n - m
<1>1. /\ Cardinality(1..n) = IF 1 > n THEN 0 ELSE n - 1 + 1
      /\ Cardinality(m + 1..n) = IF m + 1 > n THEN 0 ELSE n - (m + 1) + 1
  <2>1. 1 \in Int /\ m + 1 \in Int /\ n \in Int
    OBVIOUS
  <2> QED
    BY <2>1, FS_Interval
<1> QED
  BY <1>1

\* FindsTheCorpus, of the sets it names.
Finds(q, hits, asked, cited, near, alike, pins, older, main) ==
    /\ \A i \in main, j \in older : i < j
    /\ 1..pins \subseteq main
    /\ \A i \in main : hits[i].chunk \in IF i <= pins THEN cited ELSE near \cup alike
    /\ \A i \in main, k \in asked :
          LET j == hits[i].chunk
          IN  /\ i > pins
              /\ j \in near => /\ k \in near /\ At(k.row).sim >= At(j.row).sim
                               /\ At(k.row).sim = At(j.row).sim =>
                                     Precedes(ChunkId(k), ChunkId(j))
              /\ j \in alike => k \in alike /\ At(k.row).lex > At(j.row).lex
              => \E l \in main : hits[l].chunk = k /\ (q.docCap = 0 => l < i)
    /\ Cardinality(main) <= IF pins > q.topK THEN pins ELSE q.topK
    /\ Cardinality(older) <= NonCurrentCap
    /\ \A i, j \in older : VersionOf(hits[i].chunk.row)
                            = VersionOf(hits[j].chunk.row) => i = j
    /\ main = {} => near \cup alike \cup cited = {}

\* What an undisturbed search knows at its reply is what it promises (FindsTheCorpus).
LEMMA KnownFinds ==
    ASSUME CorpusInv, SearchInv, KnowsInv, Replied, call.calm
    PROVE  FindsTheCorpus
<1>1. PICK q : q = call.q
  OBVIOUS
<1>2. PICK hits : hits = call.hits
  OBVIOUS
<1>3. call # NULL /\ call.tool = "search" /\ ~call.error /\ call.at = 11
  <2>1. Searching /\ SearchAt(Steps[11]) /\ ~call.error
    BY DEF Replied, SearchAt, Steps
  <2>2. call.at = 11
    <3>1. PICK i \in 1..11 : i = 11
      OBVIOUS
    <3>2. SearchAt(Steps[i])
      BY <2>1, <3>1
    <3> QED
      BY <2>1, <3>1, <3>2, StatementNumber
  <2> QED
    BY <2>1, <2>2 DEF Searching
<1>4. HitsKnown(q, hits)
  <2>1. KnownAt(call, call.at)
    BY <1>3 DEF KnowsInv, SearchKnows
  <2> QED
    BY <1>1, <1>2, <1>3, <2>1 DEF KnownAt
<1>5. PICK n \in Nat : MainKnown(q, hits, n) /\ OlderKnown(q, hits, n)
  BY <1>4 DEF HitsKnown
<1>6. PICK total \in Nat : total = Len(hits) /\ n <= total
  <2>1. SearchTyped(call)
    BY <1>3 DEF SearchInv, SearchFacts
  <2>2. hits \in Seq(Hit(Seen))
    BY <1>2, <2>1 DEF SearchTyped
  <2>3. Len(hits) \in Nat
    BY <2>2, LenProperties
  <2> QED
    BY <1>5, <2>3 DEF MainKnown
<1>7. PICK pins : pins = PinCount(q)
  OBVIOUS
<1>8. PICK asked : asked = AskedFor(q)
  OBVIOUS
<1>9. PICK cited : cited = CitedChunks(q)
  OBVIOUS
<1>10. PICK near : near = NearFor(q)
  OBVIOUS
<1>11. PICK alike : alike = AlikeFor(q)
  OBVIOUS
<1>12. pins \in Nat /\ pins <= n
  <2>1. IsFiniteSet(cited)
    BY <1>9, AskedRows
  <2>2. Cardinality(cited) \in Nat /\ CitationLimit \in Nat
    BY <2>1, FS_CardinalityType, SearchAssumption DEF SearchAssumption
  <2> QED
    BY <1>5, <1>7, <1>9, <2>2 DEF PinCount, MainKnown
<1>13. PICK older : older = {i \in 1..Len(hits) : SurfaceNonCurrent(q) /\ ~hits[i].current}
  OBVIOUS
<1>14. PICK main : main = 1..Len(hits) \ older
  OBVIOUS
<1>15. \A i \in 1..n : /\ hits[i].chunk \in asked
                       /\ SurfaceNonCurrent(q) => hits[i].current
                       /\ hits[i].chunk \in IF i <= pins THEN cited ELSE near \cup alike
  BY <1>5, <1>7, <1>8, <1>9, <1>10, <1>11 DEF MainKnown
<1>16. \A i \in n + 1..total : SurfaceNonCurrent(q) /\ ~hits[i].current
  BY <1>5, <1>6 DEF OlderKnown
<1>17. main = 1..n /\ older = n + 1..total
  <2>1. \A i \in 1..total : i \in 1..n \/ i \in n + 1..total
    BY <1>6
  <2>2. \A i \in 1..n : i \in 1..total /\ i \notin older
    BY <1>6, <1>13, <1>15
  <2>3. \A i \in n + 1..total : i \in 1..total /\ i \in older
    BY <1>6, <1>13, <1>16
  <2>4. older \subseteq 1..total /\ main = 1..total \ older
    BY <1>6, <1>13, <1>14
  <2> QED
    BY <2>1, <2>2, <2>3, <2>4
<1>18. \A i \in main, j \in older : i < j
  BY <1>6, <1>17
<1>19. 1..pins \subseteq main
  BY <1>12, <1>17
<1>20. \A i \in main : hits[i].chunk \in IF i <= pins THEN cited ELSE near \cup alike
  BY <1>15, <1>17
<1>21. Cardinality(main) = n /\ Cardinality(older) = total - n
  BY <1>6, <1>17, Numbers
<1>22. Cardinality(main) <= IF pins > q.topK THEN pins ELSE q.topK
  <2>1. q.topK \in Nat
    <3>1. q \in Queries
      BY <1>1, <1>3 DEF SearchInv, SearchFacts, SearchTyped
    <3> QED
      BY <3>1, SearchAssumption DEF SearchAssumption
  <2>2. n <= q.topK \/ n = pins
    BY <1>5, <1>7 DEF MainKnown
  <2> QED
    BY <1>12, <1>21, <2>1, <2>2
<1>23. Cardinality(older) <= NonCurrentCap
  BY <1>5, <1>6, <1>21 DEF OlderKnown
<1>24. \A i, j \in older : VersionOf(hits[i].chunk.row) = VersionOf(hits[j].chunk.row) => i = j
  BY <1>5, <1>6, <1>17 DEF OlderKnown
<1>25. main = {} => near \cup alike \cup cited = {}
  <2> SUFFICES ASSUME main = {} PROVE near \cup alike \cup cited = {}
    OBVIOUS
  <2>1. n = 0
    <3>1. 1 \notin 1..n
      BY <1>17
    <3> QED
      BY <3>1
  <2> QED
    BY <1>5, <1>9, <1>10, <1>11, <2>1 DEF MainKnown
<1>26. ASSUME NEW i \in main, NEW k \in asked, i > pins,
              LET j == hits[i].chunk
              IN  /\ j \in near => /\ k \in near /\ At(k.row).sim >= At(j.row).sim
                                   /\ At(k.row).sim = At(j.row).sim =>
                                         Precedes(ChunkId(k), ChunkId(j))
                  /\ j \in alike => k \in alike /\ At(k.row).lex > At(j.row).lex
       PROVE  \E j \in main : hits[j].chunk = k /\ (q.docCap = 0 => j < i)
  <2>1. PICK j : j = hits[i].chunk
    OBVIOUS
  <2>2. i \in pins + 1..n /\ ~(i <= pins)
    BY <1>12, <1>17, <1>26
  <2>3. j \in near \cup alike
    BY <1>20, <1>26, <2>1, <2>2
  <2>4. ASSUME j \in near PROVE k \in near /\ <<k, j>> \in Heavier(near, Sims(near))
    <3>1. /\ k \in near /\ At(k.row).sim >= At(j.row).sim
          /\ At(k.row).sim = At(j.row).sim => Precedes(ChunkId(k), ChunkId(j))
      BY <1>26, <2>1, <2>4
    <3>2. At(k.row).sim \in Int /\ At(j.row).sim \in Int
      BY <1>10, <2>4, <3>1, JoinedRows, AskedRows DEF ParsedRow
    <3> QED
      BY <2>4, <3>1, <3>2 DEF Heavier, Sims
  <2>5. ASSUME j \in alike PROVE k \in alike /\ <<k, j>> \in Heavier(alike, Lexes(alike))
    <3>1. k \in alike /\ At(k.row).lex > At(j.row).lex
      BY <1>26, <2>1, <2>5
    <3> QED
      BY <2>5, <3>1 DEF Heavier, Lexes
  <2>6. <<k, j>> \in BetterFor(q)
    BY <1>10, <1>11, <2>3, <2>4, <2>5 DEF BetterFor, Better
  <2>7. \E m \in 1..n : hits[m].chunk = k /\ (q.docCap = 0 => m < i)
    BY <1>5, <1>7, <2>1, <2>2, <2>6 DEF MainKnown
  <2> QED
    BY <1>17, <2>7
<1>27. Finds(q, hits, asked, cited, near, alike, pins, older, main)
  BY <1>18, <1>19, <1>20, <1>22, <1>23, <1>24, <1>25, <1>26 DEF Finds
<1> DEFINE q0 == call.q
           hits0 == call.hits
           asked0 == {k \in Joined : Served(q0, k.row) /\ (q0.fw # 0 => k.row.doc.fw = q0.fw)
                         /\ IF q0.ver # 0 THEN k.row.doc.ver = q0.ver ELSE IsCurrent(k.row)}
           cited0 == {k \in asked0 : At(k.row).cite \in MatchCitation(q0)}
           near0 == {k \in asked0 \cap Embedded(server.embedder) : Mode(q0) # "bm25"}
           alike0 == {k \in asked0 \cap sparse : Mode(q0) # "vector" /\ At(k.row).lex > 0}
           pins0 == IF Cardinality(cited0) < CitationLimit THEN Cardinality(cited0)
                    ELSE CitationLimit
           older0 == {i \in 1..Len(hits0) : SurfaceNonCurrent(q0) /\ ~hits0[i].current}
           main0 == 1..Len(hits0) \ older0
<1>28. Finds(q0, hits0, asked0, cited0, near0, alike0, pins0, older0, main0) => FindsTheCorpus
  BY DEF Finds, FindsTheCorpus
<1>29. q = q0 /\ hits = hits0
  BY <1>1, <1>2
<1>30. asked = asked0
  BY <1>1, <1>8 DEF AskedFor, VersionFilter
<1> HIDE DEF asked0
<1>31. cited = cited0
  BY <1>1, <1>8, <1>9, <1>30 DEF AskedFor, CitedChunks
<1> HIDE DEF cited0
<1>32. near = near0 /\ alike = alike0
  BY <1>1, <1>8, <1>10, <1>11, <1>30 DEF NearFor, AlikeFor
<1>33. pins = pins0
  BY <1>7, <1>9, <1>31 DEF PinCount
<1>34. older = older0
  BY <1>1, <1>2, <1>13
<1> HIDE DEF q0, hits0, near0, alike0, pins0, older0
<1>35. main = main0
  BY <1>14, <1>29, <1>34
<1> HIDE DEF main0
<1> QED
  BY <1>27, <1>28, <1>29, <1>30, <1>31, <1>32, <1>33, <1>34, <1>35

-----------------------------------------------------------------------------
(* All tools.                                                              *)

ATool == call = NULL \/ call.tool \in {"search", "document", "corpus_status"}

ToolsInv == CorpusInv /\ SearchInv /\ KnowsInv /\ DocInv /\ StatusInv /\ ATool

\* Whichever writer moves, the call under way stays of its tool.
LEMMA WriteToolsInv == ASSUME ToolsInv, Write PROVE ToolsInv'
<1>1. CorpusInv' /\ SearchInv' /\ KnowsInv' /\ DocInv' /\ StatusInv'
  BY WriteKeeps, SearchDisturbed, KnowsDisturbed, DocumentDisturbed, StatusDisturbed
  DEF ToolsInv
<1>2. ATool'
  <2>1. call' = call \/ Disturb
    BY DEF Write, NormalizeDelete, DeleteOrphanChunks, InsertControl, ResolveControlMappings,
       UpsertControlMapping, DeleteChunksForControls, InsertChunk, UpsertChunkEmbedding,
       UpdateChunkSparse, JobEnds, Seed
  <2>2. CASE call' = call \/ call' = NULL
    BY <2>2 DEF ToolsInv, ATool
  <2>3. CASE Disturb /\ call # NULL
    <3>1. PICK d : d = call
      OBVIOUS
    <3>2. d # NULL /\ d.tool \in {"search", "document", "corpus_status"}
      BY <2>3, <3>1 DEF ToolsInv, ATool
    <3>3. "tool" \in DOMAIN d
      BY <3>1, <3>2 DEF ToolsInv, SearchInv, SearchFacts, SearchTyped, SearchFields, DocInv,
         DocFacts, DocShape, DocFields, StatusInv, StatusFacts
    <3>4. call' = [d EXCEPT !.calm = FALSE]
      BY <2>3, <3>1 DEF Disturb
    <3>5. call'.tool = d.tool
      BY <3>3, <3>4
    <3> QED
      BY <3>2, <3>5 DEF ATool
  <2>4. Disturb /\ call = NULL => call' = NULL
    BY DEF Disturb
  <2> QED
    BY <2>1, <2>2, <2>3, <2>4
<1> QED
  BY <1>1, <1>2 DEF ToolsInv

\* The three facts of an inductive invariant: the tables, and what each tool has read.
LEMMA ToolsInductive == /\ Init => ToolsInv
                        /\ ToolsInv /\ [Next]_cvars => ToolsInv'
<1>1. Init => ToolsInv
  BY InitRows DEF Init, ToolsInv, SearchInv, KnowsInv, DocInv, StatusInv, ATool
<1>2. ASSUME ToolsInv, Write PROVE ToolsInv'
  BY <1>2, WriteToolsInv
<1>3. ASSUME ToolsInv, SearchNext PROVE ToolsInv'
  <2>1. CorpusInv /\ SearchInv /\ KnowsInv
    BY <1>3 DEF ToolsInv
  <2>2. call' = NULL \/ call'.tool = "search"
    BY <1>3, <2>1, SearchMoves
  <2>3. UNCHANGED <<corpus, job, jobs>>
    BY <1>3 DEF SearchNext, SearchStart, Continue, citationLookup, EmbedQuery,
       vectorArmExact, sparseArm, hydrate, nonCurrentHits, nonCurrentHydrate, hitSourceURLs,
       filterGaps, SearchShape, CitationFails, StatementFails, SearchFails, SearchReturn
  <2>4. CorpusInv' /\ SearchInv' /\ KnowsInv'
    BY <1>3, <2>1, <2>3, ReadKeeps, SearchReads, SearchLearns
  <2>5. DocInv' /\ StatusInv' /\ ATool'
    BY <2>2, NoDocument, NoStatus DEF ATool
  <2> QED
    BY <2>4, <2>5 DEF ToolsInv
<1>4. ASSUME ToolsInv, DocumentNext PROVE ToolsInv'
  <2>1. CorpusInv /\ DocInv
    BY <1>4 DEF ToolsInv
  <2>2. call' = NULL \/ call'.tool \in {"document", "corpus_status"}
    BY <1>4, <2>1, DocumentMoves
  <2>3. UNCHANGED <<corpus, job, jobs>>
    BY <1>4 DEF DocumentNext, DocumentStart, DocContinue, findControl, Tell, citationVersions,
       FoundElsewhere, AmbiguousCitation, controlAmendments, controlParent, controlChildren,
       outboundMappings, inboundMappings, versionRelations, versionLineage, controlChunks,
       ProjectDocument, DiagnosticFails, DocumentFails, DocumentReturn, CorpusStatus,
       StatusReturn
  <2>4. CorpusInv' /\ DocInv'
    BY <1>4, <2>1, <2>3, ReadKeeps, DocumentReads
  <2>5. SearchInv' /\ KnowsInv' /\ ATool'
    BY <2>2, NoSearch, NothingToKnow DEF ATool
  <2>6. StatusInv'
    <3>1. CASE CorpusStatus
      BY <2>1, <3>1, StatusReads
    <3>2. CASE ~CorpusStatus
      <4>1. call' = NULL \/ call'.tool = "document"
        BY <1>4, <2>1, <3>2, LookupMoves
      <4> QED
        BY <4>1, NoStatus
    <3> QED
      BY <3>1, <3>2
  <2> QED
    BY <2>4, <2>5, <2>6 DEF ToolsInv
<1>5. ASSUME ToolsInv, UNCHANGED cvars PROVE ToolsInv'
  <2>1. UNCHANGED <<corpus, job, jobs>> /\ call' = call /\ server' = server /\ jobs' = jobs
    BY <1>5 DEF cvars, corpus
  <2>2. CorpusInv'
    BY <1>5, <2>1, ReadKeeps DEF ToolsInv
  <2>3. DocInv'
    <3> SUFFICES ASSUME NEW c, c = call', c # NULL, c.tool = "document" PROVE DocFacts(c)'
      BY DEF DocInv
    <3>1. DocFacts(c)
      BY <1>5, <2>1 DEF ToolsInv, DocInv
    <3> QED
      BY <2>1, <3>1, FactsStand
  <2>4. SearchInv'
    <3> SUFFICES ASSUME NEW c, c = call', c # NULL, c.tool = "search" PROVE SearchFacts(c)'
      BY DEF SearchInv
    <3>1. SearchFacts(c)
      BY <1>5, <2>1 DEF ToolsInv, SearchInv
    <3>2. jobs \in Nat
      BY <1>5, CorpusAssumption DEF CorpusAssumption, ToolsInv, CorpusInv, Rows
    <3>3. jobs' \in Nat /\ jobs <= jobs'
      BY <2>1, <3>2
    <3> QED
      BY <2>1, <3>1, <3>2, <3>3, SearchStands
  <2>5. StatusInv' /\ ATool'
    <3>1. StatusInv'
      <4> SUFFICES ASSUME NEW c, c = call', c # NULL, c.tool = "corpus_status"
                   PROVE  StatusFacts(c)'
        BY DEF StatusInv
      <4>1. StatusFacts(c) /\ edge' = edge
        BY <1>5, <2>1 DEF ToolsInv, StatusInv, corpus
      <4>2. c.calm => Balanced(c.rows)'
        BY <4>1, BalanceStands DEF StatusFacts
      <4> QED
        BY <4>1, <4>2 DEF StatusFacts
    <3> QED
      BY <1>5, <2>1, <3>1 DEF ToolsInv, ATool
  <2>6. KnowsInv'
    BY <1>5, <2>1, KnowsStand DEF ToolsInv
  <2> QED
    BY <2>2, <2>3, <2>4, <2>5, <2>6 DEF ToolsInv
<1> QED
  BY <1>1, <1>2, <1>3, <1>4, <1>5 DEF Next

\* Hence it holds in every state.
LEMMA ToolsAlways == Spec => []ToolsInv
BY ToolsInductive, PTL DEF Spec

\* What a search holds at its reply.
LEMMA SearchKept ==
    ASSUME ToolsInv
    PROVE  HonestAbstention /\ (Replied => NoChunkTwice)
<1> SUFFICES ASSUME Replied
             PROVE  NoChunkTwice /\ HonestAbstention
  BY DEF HonestAbstention
<1>1. PICK c : c = call
  OBVIOUS
<1>2. SearchInv /\ Searching
  BY DEF ToolsInv, Replied, SearchAt
<1>3. /\ SearchFacts(c) /\ SearchTyped(c) /\ c.at \in 1..11
      /\ \A i \in 1..11 : SearchAt(Steps[i]) => c.at = i
  BY <1>1, <1>2, StatementNumber
<1>4. c.at = 11 /\ ~c.error
  BY <1>1, <1>3 DEF Replied, Steps
<1>5. Honest(c)
  BY <1>3, <1>4 DEF SearchFacts
<1>6. NoChunkTwice
  BY <1>1, <1>3 DEF SearchTyped, Once, NoChunkTwice
<1>7. ASSUME NEW i \in 1..Len(c.hits), c.hits[i].vrank > 0 PROVE server.embedder \in Models
  <2>1. c.hits[i] \in Hit(Seen)
    BY <1>3, ElementOfSeq DEF SearchTyped
  <2> QED
    BY <1>7, <2>1 DEF Hit, Vouched
<1>8. PICK ranked : ranked = {i \in 1..Len(c.hits) : c.hits[i].vrank > 0}
  OBVIOUS
<1>9. TooFar(c.hits) <=> /\ server.floor > 0 /\ ranked # {}
                         /\ \A i \in ranked : At(c.hits[i].chunk.row).sim < server.floor
  BY <1>8 DEF TooFar
<1>10. ranked # {} => server.embedder \in Models
  BY <1>7, <1>8
<1>11. /\ c.abstain <=> \E g \in c.gaps : g.blocks
       /\ c.hits = <<>> => c.abstain
       /\ c.hits # <<>> => (c.abstain <=> TooFar(c.hits))
  BY <1>5 DEF Honest
<1>12. HonestAbstention
  BY <1>1, <1>8, <1>9, <1>10, <1>11 DEF HonestAbstention
<1> QED
  BY <1>6, <1>12

\* The invariant includes the types.
LEMMA ToolsTyped == ToolsInv => TypeOK
<1> SUFFICES ASSUME ToolsInv PROVE TypeOK
  OBVIOUS
<1>1. CorpusTypeOK /\ (call # NULL => call.tool \in {"search", "document", "corpus_status"})
  BY CorpusTyped DEF ToolsInv, ATool
<1>2. ASSUME Searching
      PROVE  /\ call.at \in 1..Len(Steps)
             /\ \A k \in Chunks(call.hits) : k.build \in 0..jobs
  <2>1. PICK c : c = call
    OBVIOUS
  <2>2. SearchTyped(c) /\ c.at \in 1..11
    BY <1>2, <2>1, StatementNumber DEF ToolsInv
  <2>3. Len(Steps) = 11
    BY DEF Steps
  <2>4. ASSUME NEW k \in Chunks(c.hits) PROVE k.build \in 0..jobs
    <3>1. PICK i \in 1..Len(c.hits) : k = c.hits[i].chunk
      BY <2>4 DEF Chunks
    <3>2. c.hits[i] \in Hit(Seen)
      BY <2>2, ElementOfSeq DEF SearchTyped
    <3>3. k \in Seen
      BY <3>1, <3>2 DEF Hit
    <3>4. jobs \in Nat
      BY CorpusAssumption DEF CorpusAssumption, ToolsInv, CorpusInv, Rows
    <3> QED
      BY <3>3, <3>4 DEF Seen, ChunkRow
  <2> QED
    BY <2>1, <2>2, <2>3, <2>4
<1>3. ASSUME Looking PROVE call.at \in 1..Len(DocSteps)
  <2>1. PICK c : c = call
    OBVIOUS
  <2>2. c.at \in 1..14
    BY <1>3, <2>1, StepNumber DEF ToolsInv
  <2>3. Len(DocSteps) = 14
    BY DEF DocSteps
  <2> QED
    BY <2>1, <2>2, <2>3
<1> QED
  BY <1>1, <1>2, <1>3 DEF TypeOK

-----------------------------------------------------------------------------
(* The theorems.                                                           *)

\* The tables and the calls stay well typed whatever the writers do.
THEOREM TypeCorrect == Spec => []TypeOK
BY ToolsAlways, ToolsTyped, PTL

\* Every document reply is of one build, and an undisturbed one opens what the
\* citation means (dbCorpus.Document).
THEOREM DocumentsAnswer == Spec => []DocumentAnswers
<1>1. ToolsInv => DocumentAnswers
  BY DocumentKept DEF ToolsInv
<1> QED
  BY <1>1, ToolsAlways, PTL

\* A search abstains exactly when it says why, always on an empty reply, and on
\* another exactly when the dense arm ranked some of its hits and all of these are
\* below the floor (applyAbstainFloor).
THEOREM AbstainsHonestly == Spec => []HonestAbstention
<1>1. ToolsInv => HonestAbstention
  BY SearchKept
<1> QED
  BY <1>1, ToolsAlways, PTL

\* Whatever was written between the statements of a search, its reply lists no chunk
\* twice (mergePinned, appendNonCurrent); if nothing came between, it answers for the
\* whole corpus: cited controls first and all of them, then what the arms find with
\* nothing better left out, older versions last, and nothing only if nothing matches
\* (Retriever.searchHits).
THEOREM SearchesAnswer == Spec => []SearchAnswers
<1>1. ToolsInv => SearchAnswers
  <2> SUFFICES ASSUME ToolsInv, Replied PROVE NoChunkTwice /\ (call.calm => FindsTheCorpus)
    BY DEF SearchAnswers
  <2>1. NoChunkTwice
    BY SearchKept
  <2>2. ASSUME call.calm PROVE FindsTheCorpus
    BY <2>2, KnownFinds DEF ToolsInv
  <2> QED
    BY <2>1, <2>2
<1> QED
  BY <1>1, ToolsAlways, PTL

\* The counts of corpus_status agree with each other in the middle of a rebuild too,
\* and every resolved edge is counted once at either end, if the version there is
\* listed (dbCorpus.Status).
THEOREM StatusConsistent == Spec => []StatusAgrees
<1>1. ToolsInv => StatusAgrees
  <2> SUFFICES ASSUME ToolsInv, StatusReplied
               PROVE  CountsAgree /\ (call.calm => EdgesAgree)
    BY DEF StatusAgrees
  <2>1. StatusFacts(call)
    BY DEF ToolsInv, StatusInv, StatusReplied
  <2> QED
    BY <2>1 DEF StatusFacts, CountsAgree, EdgesAgree, Balanced, AllResolved, AllInbound
<1> QED
  BY <1>1, ToolsAlways, PTL
=============================================================================
