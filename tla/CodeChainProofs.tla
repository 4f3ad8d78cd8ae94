-------------------------- MODULE CodeChainProofs --------------------------
(***************************************************************************)
(* For every set of sessions, every number of chains, calls and views, and *)
(* every cap: the index of the chain store and its rows agree and keep the *)
(* chains saved last, chains grown step by step stay within the caps, no   *)
(* tool loses what it acknowledged, and the panel keeps the chain and the  *)
(* place it was given.  One inductive invariant carries all of it.         *)
(***************************************************************************)
EXTENDS CodeChain, RecursionProofs, FiniteSetTheorems

-----------------------------------------------------------------------------
(* Growing a tree by one node. *)

(* g is the tree with one node more, a child of node p, and ids of its     *)
(* own.                                                                    *)
OneMore(g, tree, p, node) ==
  /\ Len(g) = Len(tree) + 1
  /\ OwnIds(g)
  /\ \A k \in DOMAIN g : \/ g[k].level = node.level + tree[p].level
                         \/ \E j \in DOMAIN tree : g[k] = tree[j]

(* A tree with ids of its own that a node is added to: what appendChild of *)
(* one step returns.                                                       *)
LEMMA GrownByOne ==
  ASSUME NEW I, NEW tree \in Seq(TreeNodes(I)), NEW node \in TreeNodes(I), NEW p \in DOMAIN tree,
         OwnIds(tree), node.id \notin IdsOf(tree)
  PROVE  OneMore(Grown(tree, tree[p].id, <<node>>), tree, p, node)
<1> DEFINE N == Len(tree)
           id == tree[p].id
           one == <<node>>
           e == LastOf(tree, p)
           u == [node EXCEPT !.level = @ + tree[p].level]
           New(i) == Inserted(tree, id, one, i)
           Form(i, t) == /\ Len(t) = IF e <= i THEN i + 1 ELSE i
                         /\ \A k \in 1..Len(t) :
                              t[k] = IF k <= e THEN tree[k] ELSE IF k = e + 1 THEN u ELSE tree[k - 1]
<1>1. one \in Seq(TreeNodes(I)) /\ N \in Nat /\ DOMAIN tree = 1..N /\ p \in 1..N
  BY LenProperties
<1>2. e \in p..N
  BY LastOfProperties
<1>3. Replaced(tree, id) = {p}
  BY <1>1 DEF Replaced, OwnIds, Below
<1>4. tree[p] \in TreeNodes(I) /\ u \in TreeNodes(I) /\ u.id = node.id
      /\ u.level = node.level + tree[p].level
  <2>1. tree[p] \in TreeNodes(I)
    BY <1>1, ElementOfSeq
  <2>2. QED
    BY <2>1 DEF TreeNodes
<1>5. ASSUME NEW i \in 1..N
      PROVE  New(i) = IF i = e THEN <<u>> ELSE <<>>
  <2> DEFINE ending == {q \in Replaced(tree, id) : LastOf(tree, q) = i}
  <2>1. CASE i = e
    <3>1. ending = {p}
      BY <1>3, <2>1
    <3>2. (CHOOSE q \in ending : TRUE) = p
      BY <3>1
    <3>3. Inserted(tree, id, one, i) = Lifted(one, tree[p].level)
      BY <3>1, <3>2 DEF Inserted
    <3>4. Lifted(one, tree[p].level) = <<u>>
      BY DEF Lifted
    <3>5. QED
      BY <2>1, <3>3, <3>4
  <2>2. CASE i # e
    <3>1. ending = {}
      BY <1>3, <2>2
    <3>2. QED
      BY <2>2, <3>1 DEF Inserted
  <2>3. QED
    BY <2>1, <2>2
<1>6. PICK f : Growth(f, TreeNodes(I), tree, id, one)
  BY <1>1, GrownSteps
<1> DEFINE T == {i \in 0..N : Form(i, f[i])}
<1>7. 0 \in T
  <2>1. f[0] = <<>> /\ ~(e <= 0)
    BY <1>1, <1>2, <1>6 DEF Growth
  <2>2. QED
    BY <1>1, <2>1
<1>8. ASSUME NEW i \in 0..N, i \in T, i + 1 <= N
      PROVE  i + 1 \in T
  <2> HIDE DEF u, e, New, one, id
  <2> DEFINE t == f[i]
             n == f[i + 1]
  <2>1. i + 1 \in 1..N /\ (i + 1) - 1 = i
    BY <1>1, <1>8
  <2>2. t \in Seq(TreeNodes(I)) /\ n = t \o <<tree[i + 1]>> \o New(i + 1)
    BY <1>1, <1>6, <2>1 DEF Growth, New
  <2>3. Form(i, t)
    BY <1>8
  <2>4. tree[i + 1] \in TreeNodes(I)
    BY <1>1, <2>1, ElementOfSeq
  <2> DEFINE s == t \o <<tree[i + 1]>>
  <2>5. /\ s \in Seq(TreeNodes(I)) /\ Len(s) = Len(t) + 1 /\ Len(t) \in Nat
        /\ \A k \in 1..Len(s) : s[k] = IF k <= Len(t) THEN t[k] ELSE tree[i + 1]
    BY <2>2, <2>4
  <2>6. Form(i + 1, n)
    <3> HIDE DEF t, n, s
    <3>1. CASE i + 1 = e
      <4>1. n = s \o <<u>>
        BY <1>5, <2>1, <2>2, <3>1 DEF s
      <4>2. Len(n) = Len(s) + 1 /\ \A k \in 1..Len(n) : n[k] = IF k <= Len(s) THEN s[k] ELSE u
        BY <1>4, <2>5, <4>1
      <4>3. QED
        BY <1>1, <1>2, <2>1, <2>3, <2>5, <3>1, <4>2
    <3>2. CASE i + 1 # e
      <4>1. n = s
        BY <1>5, <2>1, <2>2, <2>5, <3>2 DEF s
      <4>2. Len(n) = IF e <= i + 1 THEN i + 1 + 1 ELSE i + 1
        BY <1>1, <1>2, <2>1, <2>3, <2>5, <3>2, <4>1
      <4>3. ASSUME NEW k \in 1..Len(n)
            PROVE  n[k] = IF k <= e THEN tree[k] ELSE IF k = e + 1 THEN u ELSE tree[k - 1]
        <5>1. n[k] = IF k <= Len(t) THEN t[k] ELSE tree[i + 1]
          BY <2>5, <4>1
        <5>2. CASE k <= Len(t)
          <6>1. k \in 1..Len(t)
            BY <2>5, <4>1, <4>3, <5>2
          <6>2. QED
            BY <2>3, <5>1, <5>2, <6>1
        <5>3. CASE ~(k <= Len(t)) /\ e <= i
          <6>1. k = i + 2 /\ ~(k <= e) /\ k # e + 1
            BY <1>2, <2>1, <2>3, <2>5, <4>1, <4>3, <5>3
          <6>2. QED
            BY <2>1, <5>1, <5>3, <6>1
        <5>4. CASE ~(k <= Len(t)) /\ ~(e <= i)
          <6>1. k = i + 1 /\ k <= e
            BY <1>2, <2>1, <2>3, <2>5, <4>1, <4>3, <5>4
          <6>2. QED
            BY <2>1, <5>1, <5>4, <6>1
        <5>5. QED
          BY <5>2, <5>3, <5>4
      <4>4. QED
        BY <4>2, <4>3
    <3>3. QED
      BY <3>1, <3>2
  <2>7. QED
    BY <2>1, <2>6
<1> DEFINE g == Grown(tree, id, one)
<1>9. g \in Seq(TreeNodes(I)) /\ Form(N, g)
  <2>1. 0..N \subseteq T
    <3> HIDE DEF T
    <3>1. QED
      BY <1>1, <1>7, <1>8, Inductive
  <2>2. Form(N, f[N])
    BY <1>1, <2>1
  <2>3. f[N] = g /\ f[N] \in Seq(TreeNodes(I))
    BY <1>1, <1>6 DEF Growth
  <2>4. QED
    BY <2>2, <2>3
<1>10. Len(g) = N + 1 /\ DOMAIN g = 1..(N + 1)
       /\ \A k \in 1..(N + 1) :
            g[k] = IF k <= e THEN tree[k] ELSE IF k = e + 1 THEN u ELSE tree[k - 1]
  <2> HIDE DEF g, e, u, N
  <2>1. Len(g) = N + 1
    BY <1>1, <1>2, <1>9
  <2>2. DOMAIN g = 1..Len(g)
    BY <1>9, LenProperties
  <2>3. QED
    BY <1>9, <2>1, <2>2
<1> HIDE DEF g, e, u, N, id, one
<1>11. \A k \in 1..N : tree[k].id # u.id
  BY <1>1, <1>4 DEF IdsOf
<1>12. OwnIds(g)
  <2> DEFINE was(k) == IF k <= e THEN k ELSE k - 1
  <2>1. ASSUME NEW k \in DOMAIN g, k # e + 1
        PROVE  was(k) \in 1..N /\ g[k] = tree[was(k)]
    <3>1. k \in 1..(N + 1) /\ e \in 1..N
      BY <1>1, <1>2, <1>10
    <3>2. CASE k <= e
      BY <1>1, <1>10, <3>1, <3>2
    <3>3. CASE ~(k <= e)
      BY <1>1, <1>10, <2>1, <3>1, <3>3
    <3>4. QED
      BY <3>2, <3>3
  <2>2. g[e + 1] = u
    BY <1>1, <1>2, <1>10
  <2>3. ASSUME NEW a \in DOMAIN g, NEW b \in DOMAIN g, g[a].id = g[b].id
        PROVE  a = b
    <3>1. CASE a # e + 1 /\ b # e + 1
      <4>1. was(a) = was(b)
        BY <1>1, <2>1, <2>3, <3>1 DEF OwnIds
      <4>2. QED
        BY <1>1, <1>2, <1>10, <3>1, <4>1
    <3>2. CASE a = e + 1 /\ b # e + 1
      BY <1>11, <2>1, <2>2, <2>3, <3>2
    <3>3. CASE a # e + 1 /\ b = e + 1
      BY <1>11, <2>1, <2>2, <2>3, <3>3
    <3>4. QED
      BY <3>1, <3>2, <3>3
  <2>4. QED
    BY <2>3 DEF OwnIds
<1>13. \A k \in DOMAIN g : g[k] = u \/ \E j \in DOMAIN tree : g[k] = tree[j]
  BY <1>1, <1>2, <1>10
<1>14. QED
  BY <1>4, <1>10, <1>12, <1>13 DEF g, N, id, one, OneMore

-----------------------------------------------------------------------------
(* Filters, and moving an entry to the end. *)

(* All entries but the one at place p: those after it move down by one. *)
LEMMA FilterAllButOne ==
  ASSUME NEW V, NEW seq \in Seq(V), NEW p \in Nat \ {0}
  PROVE  EntriesAt(seq, DOMAIN seq \ {p}) =
           IF p \in DOMAIN seq
           THEN [k \in 1..(Len(seq) - 1) |-> IF k < p THEN seq[k] ELSE seq[k + 1]]
           ELSE seq
<1> DEFINE N == Len(seq)
           places == DOMAIN seq \ {p}
           Form(i, t) == /\ Len(t) = IF p <= i THEN i - 1 ELSE i
                         /\ \A k \in 1..Len(t) : t[k] = IF k < p THEN seq[k] ELSE seq[k + 1]
<1>1. N \in Nat /\ DOMAIN seq = 1..N
  BY LenProperties
<1>2. PICK f : Filtering(f, V, seq, places)
  BY FilterSteps
<1> DEFINE T == {i \in 0..N : Form(i, f[i])}
<1>3. 0 \in T
  BY <1>1, <1>2 DEF Filtering
<1>4. ASSUME NEW i \in 0..N, i \in T, i + 1 <= N
      PROVE  i + 1 \in T
  <2> DEFINE t == f[i]
             n == f[i + 1]
  <2>1. i + 1 \in 1..N /\ (i + 1) - 1 = i
    BY <1>1, <1>4
  <2>2. t \in Seq(V) /\ n = IF i + 1 \in places THEN Append(t, seq[i + 1]) ELSE t
    BY <1>1, <1>2, <2>1 DEF Filtering
  <2>3. Form(i, t)
    BY <1>4
  <2> HIDE DEF t, n
  <2>4. Form(i + 1, n)
    <3>1. CASE i + 1 = p
      BY <1>1, <2>1, <2>2, <2>3, <3>1
    <3>2. CASE i + 1 # p
      <4>1. n = Append(t, seq[i + 1])
        BY <1>1, <2>1, <2>2, <3>2
      <4>2. /\ Len(n) = Len(t) + 1 /\ Len(t) \in Nat
            /\ \A k \in 1..Len(n) : n[k] = IF k <= Len(t) THEN t[k] ELSE seq[i + 1]
        BY <2>2, <4>1, AppendProperties, LenProperties
      <4>3. Len(n) = IF p <= i + 1 THEN i + 1 - 1 ELSE i + 1
        BY <2>1, <2>3, <3>2, <4>2
      <4>4. ASSUME NEW k \in 1..Len(n)
            PROVE  n[k] = IF k < p THEN seq[k] ELSE seq[k + 1]
        <5>1. CASE k <= Len(t)
          BY <2>3, <4>2, <4>4, <5>1
        <5>2. CASE ~(k <= Len(t)) /\ p <= i
          <6>1. k = i /\ ~(k < p)
            BY <2>1, <2>3, <3>2, <4>2, <4>4, <5>2
          <6>2. QED
            BY <4>2, <4>4, <5>2, <6>1
        <5>3. CASE ~(k <= Len(t)) /\ ~(p <= i)
          <6>1. k = i + 1 /\ k < p
            BY <2>1, <2>3, <3>2, <4>2, <4>4, <5>3
          <6>2. QED
            BY <4>2, <4>4, <5>3, <6>1
        <5>4. QED
          BY <5>1, <5>2, <5>3
      <4>5. QED
        BY <4>3, <4>4
    <3>3. QED
      BY <3>1, <3>2
  <2>5. QED
    BY <2>1, <2>4 DEF n
<1> DEFINE r == EntriesAt(seq, places)
<1>5. r \in Seq(V) /\ Form(N, r)
  <2>1. 0..N \subseteq T
    <3> HIDE DEF T
    <3>1. QED
      BY <1>1, <1>3, <1>4, Inductive
  <2>2. Form(N, f[N])
    BY <1>1, <2>1
  <2>3. f[N] = r /\ f[N] \in Seq(V)
    BY <1>1, <1>2 DEF Filtering
  <2>4. QED
    BY <2>2, <2>3
<1> HIDE DEF r
<1>6. CASE p \in DOMAIN seq
  <2>1. Len(r) = N - 1
    BY <1>1, <1>5, <1>6
  <2>2. \A k \in 1..(N - 1) : r[k] = IF k < p THEN seq[k] ELSE seq[k + 1]
    BY <1>5, <2>1
  <2>3. r = [k \in 1..Len(r) |-> r[k]]
    BY <1>5
  <2>4. r = [k \in 1..(N - 1) |-> IF k < p THEN seq[k] ELSE seq[k + 1]]
    BY <2>1, <2>2, <2>3
  <2>5. QED
    BY <1>6, <2>4 DEF r
<1>7. CASE p \notin DOMAIN seq
  <2>1. Len(r) = N /\ \A k \in 1..N : r[k] = seq[k]
    <3>1. ~(p <= N)
      BY <1>1, <1>7
    <3>2. Len(r) = N
      BY <1>5, <3>1
    <3>3. \A k \in 1..N : k < p
      BY <1>1, <3>1
    <3>4. QED
      BY <1>5, <3>2, <3>3
  <2>2. r = seq
    BY <1>5, <2>1, SeqEqual
  <2>3. QED
    BY <1>7, <2>2 DEF r
<1>8. QED
  BY <1>6, <1>7

(* No entry twice. *)
Distinct(s) == \A i, j \in DOMAIN s : s[i] = s[j] => i = j

(* d moves to the end, or is appended. *)
ToEnd(s, d) == Append(Without(s, {d}), d)

(* A sequence without repetitions, less the entry at place p. *)
LEMMA WithoutOne ==
  ASSUME NEW V, NEW s \in Seq(V), NEW d, Distinct(s), NEW p \in 1..(Len(s) + 1),
         IF p \in DOMAIN s THEN s[p] = d ELSE d \notin Listed(s)
  PROVE  /\ Without(s, {d}) \in Seq(V)
         /\ Len(Without(s, {d})) = IF p <= Len(s) THEN Len(s) - 1 ELSE Len(s)
         /\ \A k \in 1..Len(Without(s, {d})) : Without(s, {d})[k] = IF k < p THEN s[k] ELSE s[k + 1]
<1>1. DOMAIN s = 1..Len(s) /\ Len(s) \in Nat /\ p \in Nat \ {0}
  BY LenProperties
<1>2. {i \in DOMAIN s : s[i] \notin {d}} = DOMAIN s \ {p}
  BY <1>1 DEF Distinct, Listed
<1>3. Without(s, {d}) = EntriesAt(s, DOMAIN s \ {p})
  BY <1>2 DEF Without
<1>4. Without(s, {d}) \in Seq(V)
  BY <1>3, FilterType
<1>5. CASE p \in DOMAIN s
  <2>1. Without(s, {d}) = [k \in 1..(Len(s) - 1) |-> IF k < p THEN s[k] ELSE s[k + 1]]
    BY <1>1, <1>3, <1>5, FilterAllButOne
  <2>2. Len(Without(s, {d})) = Len(s) - 1
    <3>1. DOMAIN Without(s, {d}) = 1..(Len(s) - 1)
      BY <2>1
    <3>2. Len(s) - 1 \in Nat
      BY <1>1, <1>5
    <3>3. QED
      BY <1>4, <3>1, <3>2, LenProperties
  <2>3. p <= Len(s)
    BY <1>1, <1>5
  <2>4. \A k \in 1..(Len(s) - 1) : Without(s, {d})[k] = IF k < p THEN s[k] ELSE s[k + 1]
    BY <2>1
  <2>5. QED
    BY <1>4, <2>2, <2>3, <2>4
<1>6. CASE p \notin DOMAIN s
  <2>1. Without(s, {d}) = s
    BY <1>1, <1>3, <1>6, FilterAllButOne
  <2>2. ~(p <= Len(s)) /\ \A k \in 1..Len(s) : k < p
    BY <1>1, <1>6
  <2>3. QED
    BY <1>4, <2>1, <2>2
<1>7. QED
  BY <1>5, <1>6

(* The place of d in s, or the one past its end. *)
LEMMA Place ==
  ASSUME NEW V, NEW s \in Seq(V), NEW d
  PROVE  \E p \in 1..(Len(s) + 1) : IF p \in DOMAIN s THEN s[p] = d ELSE d \notin Listed(s)
<1>1. DOMAIN s = 1..Len(s) /\ Len(s) \in Nat
  BY LenProperties
<1>2. CASE d \in Listed(s)
  BY <1>1, <1>2 DEF Listed
<1>3. CASE d \notin Listed(s)
  <2>1. Len(s) + 1 \in 1..(Len(s) + 1) /\ Len(s) + 1 \notin DOMAIN s
    BY <1>1
  <2>2. QED
    BY <1>3, <2>1
<1>4. QED
  BY <1>2, <1>3

(* A sequence without repetitions, with d moved to its end. *)
LEMMA ToEndProperties ==
  ASSUME NEW V, NEW s \in Seq(V), NEW d \in V, Distinct(s), NEW p \in 1..(Len(s) + 1),
         IF p \in DOMAIN s THEN s[p] = d ELSE d \notin Listed(s)
  PROVE  /\ ToEnd(s, d) \in Seq(V)
         /\ Len(ToEnd(s, d)) = IF p <= Len(s) THEN Len(s) ELSE Len(s) + 1
         /\ \A k \in 1..Len(ToEnd(s, d)) :
              ToEnd(s, d)[k] = IF k = Len(ToEnd(s, d)) THEN d
                               ELSE IF k < p THEN s[k] ELSE s[k + 1]
         /\ Distinct(ToEnd(s, d))
         /\ Listed(ToEnd(s, d)) = Listed(s) \cup {d}
<1> DEFINE w == Without(s, {d})
           m == ToEnd(s, d)
<1>1. DOMAIN s = 1..Len(s) /\ Len(s) \in Nat /\ p \in Nat
  BY LenProperties
<1>2. /\ w \in Seq(V) /\ Len(w) = IF p <= Len(s) THEN Len(s) - 1 ELSE Len(s)
      /\ \A k \in 1..Len(w) : w[k] = IF k < p THEN s[k] ELSE s[k + 1]
  BY WithoutOne
<1>3. /\ m \in Seq(V) /\ Len(m) = Len(w) + 1
      /\ \A k \in 1..Len(m) : m[k] = IF k = Len(m) THEN d ELSE w[k]
  <2>1. m = Append(w, d)
    BY DEF ToEnd
  <2> HIDE DEF m, w
  <2>2. QED
    BY <1>2, <2>1, AppendProperties, LenProperties
<1> HIDE DEF m, w
<1>4. Len(m) = (IF p <= Len(s) THEN Len(s) ELSE Len(s) + 1) /\ Len(w) \in Nat
  <2>1. CASE p <= Len(s)
    <3>1. Len(w) = Len(s) - 1
      BY <1>2, <2>1, Zenon
    <3>2. Len(w) \in Nat
      BY <1>2, LenProperties, Zenon
    <3>3. Len(m) = Len(w) + 1
      BY <1>3, Zenon
    <3>4. Len(m) = Len(s)
      BY <1>1, <3>1, <3>3
    <3>5. QED
      BY <2>1, <3>2, <3>4, Zenon
  <2>2. CASE ~(p <= Len(s))
    <3>1. Len(w) = Len(s)
      BY <1>2, <2>2, Zenon
    <3>2. QED
      BY <1>1, <1>3, <2>2, <3>1
  <2>3. QED
    BY <2>1, <2>2
<1>5. /\ p <= Len(s) => Len(m) = Len(s)
      /\ ~(p <= Len(s)) => Len(m) = Len(s) + 1
      /\ Len(m) \in Nat
  BY <1>1, <1>3, <1>4, LenProperties
<1>6. \A k \in 1..Len(m) : m[k] = IF k = Len(m) THEN d ELSE IF k < p THEN s[k] ELSE s[k + 1]
  <2>1. \A k \in 1..Len(m) : k # Len(m) => k \in 1..Len(w)
    BY <1>3, <1>4, <1>5
  <2>2. QED
    BY <1>2, <1>3, <2>1
<1> DEFINE from(k) == IF k < p THEN k ELSE k + 1
<1>7. ASSUME NEW k \in 1..Len(m), k # Len(m)
      PROVE  from(k) \in 1..Len(s) /\ m[k] = s[from(k)] /\ s[from(k)] # d
  <2>1. from(k) \in 1..Len(s) /\ from(k) # p
    BY <1>1, <1>5, <1>7
  <2>2. m[k] = s[from(k)]
    BY <1>6, <1>7
  <2>3. s[from(k)] # d
    BY <1>1, <2>1 DEF Distinct, Listed
  <2>4. QED
    BY <2>1, <2>2, <2>3
<1>8. DOMAIN m = 1..Len(m)
  BY <1>3, LenProperties
<1>9. Distinct(m)
  <2>1. ASSUME NEW i \in 1..Len(m), NEW j \in 1..Len(m), m[i] = m[j]
        PROVE  i = j
    <3>1. CASE i # Len(m) /\ j # Len(m)
      <4>1. from(i) = from(j)
        BY <1>1, <1>7, <2>1, <3>1 DEF Distinct
      <4>2. QED
        BY <1>1, <1>5, <4>1
    <3>2. CASE i = Len(m) \/ j = Len(m)
      BY <1>6, <1>7, <2>1, <3>2
    <3>3. QED
      BY <3>1, <3>2
  <2>2. QED
    BY <1>8, <2>1 DEF Distinct
<1>10. Listed(m) \subseteq Listed(s) \cup {d}
  BY <1>1, <1>6, <1>7, <1>8 DEF Listed
<1>11. d \in Listed(m)
  <2>1. Len(m) \in 1..Len(m) /\ m[Len(m)] = d
    BY <1>1, <1>5, <1>6
  <2>2. QED
    BY <1>8, <2>1 DEF Listed
<1>12. ASSUME NEW i \in 1..Len(s)
       PROVE  s[i] \in Listed(m)
  <2>1. CASE i = p
    BY <1>1, <1>11, <2>1
  <2>2. CASE i < p
    <3>1. i \in 1..Len(m) /\ i # Len(m)
      BY <1>1, <1>5, <2>2
    <3>2. m[i] = s[i]
      BY <1>6, <2>2, <3>1
    <3>3. QED
      BY <1>8, <3>1, <3>2 DEF Listed
  <2>3. CASE i > p
    <3>1. i - 1 \in 1..Len(m) /\ i - 1 # Len(m) /\ ~(i - 1 < p) /\ (i - 1) + 1 = i
      BY <1>1, <1>5, <2>3
    <3>2. m[i - 1] = s[i]
      BY <1>6, <3>1
    <3>3. QED
      BY <1>8, <3>1, <3>2 DEF Listed
  <2>4. QED
    BY <1>1, <2>1, <2>2, <2>3
<1>13. QED
  BY <1>1, <1>3, <1>4, <1>6, <1>9, <1>10, <1>11, <1>12 DEF m, Listed

-----------------------------------------------------------------------------
(* The inductive invariant. *)

(* The index is the end of `recency`, as long as it may be. *)
(* s is the end of r, as long as the store may be. *)
Ends(s, r) ==
  /\ Len(s) = IF Len(r) <= MaxStored THEN Len(r) ELSE MaxStored
  /\ \A k \in DOMAIN s : s[k] = r[Len(r) - Len(s) + k]

(* save: the index is the end of the order in which chains were saved, and *)
(* has the ids of the rows.  This is what the order of the index means;    *)
(* without it nothing says which row an overflowing index evicts.          *)
StoreOK ==
  /\ recency \in Seq(ChainIds) /\ index \in Seq(ChainIds)
  /\ Distinct(recency)
  /\ Ends(index, recency)
  /\ Listed(index) = {i \in ChainIds : rows[i] # NoRow}

(* get: a row that is refused is the one an earlier session left, and as   *)
(* long as it is there nothing was evicted and nothing saved before it:    *)
(* dropping it leaves room for no chain that was lost.                     *)
CorruptOK ==
  \A i \in CorruptRows : i = 0 /\ index = recency /\ index # <<>> /\ index[1] = 0

(* A chain that is stored, loaded by a call, shown or pending: its id was  *)
(* minted, and its tree is well formed unless a call that adds many nodes  *)
(* at once has touched it.                                                 *)
Good(chain) ==
  /\ chain \in Chains
  /\ chain.id <= minted
  /\ chain.id \notin sprawling => WellFormed(chain.tree)

(* The tools that start a chain. *)
NewTools == {"entry", "seed"}
(* The tools that grow a chain below a node. *)
GrowTools == {"add", "extend", "expand"}
(* What a call asks to be added. *)
Drafts == Seq([id : Ids, level : Nat])

(* A call in flight: what it loaded was good, has the node it grows below  *)
(* and, for Add, room for one more node there.                             *)
CallOK(call) ==
  /\ call \in [tool : {"entry", "seed", "add", "extend", "expand", "refresh"}, session : Sessions,
       base : Chains \cup {NoChain}, at : Ids \cup {NoNode}, block : Drafts]
  /\ call.tool \in NewTools => call.base = NoChain /\ \E n \in Roots : call.block = One(n)
  /\ call.tool \notin NewTools => Good(call.base)
  /\ call.tool \in GrowTools => call.at \in IdsOf(call.base.tree)
  /\ call.tool = "add" =>
       \E n \in Steps : call.block = One(n) /\ Fits(call.base.tree, call.at, n)

(* Every chain the store or the panel has is good, and stored under its    *)
(* id.                                                                     *)
ChainsOK ==
  /\ minted \in 0..MaxChains
  /\ \A i \in ChainIds : IsChain(rows[i]) => rows[i].id = i /\ Good(rows[i])
  /\ \A chain \in {shown, pending} : chain # NoChain => Good(chain)

(* Every call in flight is a call. *)
CallsOK ==
  /\ DOMAIN calls = Slots
  /\ \A c \in Slots : calls[c] # Idle => CallOK(calls[c])

(* The panel: what was handed over last is shown, or waits for a view that *)
(* has nothing else.                                                       *)
ViewOK ==
  /\ NoView \notin alive /\ view \in alive \cup {NoView}
  /\ owed # NoChain => owed \in {shown, pending} /\ (view # NoView => shown # NoChain)

(* An open view that shows a chain goes on showing one. *)
Steady == view # NoView /\ view' = view /\ shown # NoChain => shown' # NoChain

(* Call c works on chain i. *)
On(c, i) == calls[c] # Idle /\ calls[c].base # NoChain /\ calls[c].base.id = i

(* What was acknowledged for a chain is in its row and in what the one     *)
(* call on it loaded; a chain that two writers work on is not spoken of    *)
(* any more.                                                               *)
KeptOK ==
  /\ DOMAIN promised = ChainIds
  /\ \A i \in ChainIds : i > minted => promised[i] = {}
  /\ \A i \in ChainIds \ overlapped :
       /\ IsChain(rows[i]) => promised[i] \subseteq Facts(rows[i])
       /\ \A c \in Slots : On(c, i) => promised[i] \subseteq Facts(calls[c].base)
       /\ \A c, d \in Slots : On(c, i) /\ On(d, i) => c = d

(* The inductive invariant: each part holds by the others. *)
IInv == StoreOK /\ CorruptOK /\ ChainsOK /\ CallsOK /\ ViewOK /\ KeptOK

(* Where d stands, or would be appended: at q in r, at p in the end s of   *)
(* r, which begins after `off` entries.                                    *)
Places(r, s, d, off, q, p) ==
  /\ off \in Nat /\ q \in 1..(Len(r) + 1) /\ p \in 1..(Len(s) + 1)
  /\ Len(r) = off + Len(s) /\ Len(s) <= MaxStored
  /\ off > 0 => Len(s) = MaxStored
  /\ \A k \in 1..Len(s) : s[k] = r[off + k]
  /\ IF q \in DOMAIN r THEN r[q] = d ELSE d \notin Listed(r)
  /\ IF p \in DOMAIN s THEN s[p] = d ELSE d \notin Listed(s)
  /\ q > off => p = q - off
  /\ q <= off => p = Len(s) + 1

(* The end of a sequence without repetitions has none, and its places are  *)
(* those of the sequence, shifted.                                         *)
LEMMA PlaceInEnd ==
  ASSUME NEW V, NEW r \in Seq(V), NEW s \in Seq(V), NEW d, Distinct(r), Ends(s, r)
  PROVE  Distinct(s) /\ \E off, q, p : Places(r, s, d, off, q, p)
<1> DEFINE off == Len(r) - Len(s)
<1>1. DOMAIN r = 1..Len(r) /\ DOMAIN s = 1..Len(s)
  BY LenProperties
<1>2. /\ Len(r) \in Nat /\ Len(s) \in Nat
      /\ MaxStored \in Nat /\ MaxStored >= 1
  BY LenProperties, StoreAssumption
<1>3. /\ Len(r) <= MaxStored => Len(s) = Len(r)
      /\ Len(r) > MaxStored => Len(s) = MaxStored
  BY <1>2 DEF Ends
<1>4. \A k \in 1..Len(s) : s[k] = r[off + k]
  BY <1>1, <1>2 DEF Ends
<1>5. off \in Nat /\ Len(r) = off + Len(s) /\ Len(s) <= MaxStored /\ (off > 0 => Len(s) = MaxStored)
  BY <1>2, <1>3
<1> HIDE DEF off
<1>6. Distinct(s)
  <2>1. ASSUME NEW i \in 1..Len(s), NEW j \in 1..Len(s), s[i] = s[j]
        PROVE  i = j
    <3>1. off + i \in 1..Len(r) /\ off + j \in 1..Len(r)
      BY <1>2, <1>5
    <3>2. off + i = off + j
      BY <1>1, <1>4, <2>1, <3>1 DEF Distinct
    <3>3. QED
      BY <1>5, <3>2
  <2>2. QED
    BY <1>1, <2>1 DEF Distinct
<1>7. PICK q \in 1..(Len(r) + 1) : IF q \in DOMAIN r THEN r[q] = d ELSE d \notin Listed(r)
  BY Place
<1>8. \E p \in 1..(Len(s) + 1) :
        /\ IF p \in DOMAIN s THEN s[p] = d ELSE d \notin Listed(s)
        /\ q > off => p = q - off
        /\ q <= off => p = Len(s) + 1
  <2>1. CASE q > off
    <3>1. q - off \in 1..(Len(s) + 1) /\ off + (q - off) = q /\ ~(q <= off)
      BY <1>2, <1>5, <2>1
    <3>2. CASE q \in 1..Len(r)
      <4>1. r[q] = d
        BY <1>1, <1>7, <3>2
      <4>2. q - off \in 1..Len(s)
        BY <1>2, <1>5, <2>1, <3>2
      <4>3. s[q - off] = d
        BY <1>4, <3>1, <4>1, <4>2
      <4>4. IF q - off \in DOMAIN s THEN s[q - off] = d ELSE d \notin Listed(s)
        BY <1>1, <4>2, <4>3
      <4>5. QED
        BY <2>1, <3>1, <4>4
    <3>3. CASE q \notin 1..Len(r)
      <4>1. d \notin Listed(r)
        BY <1>1, <1>7, <3>3
      <4>2. ASSUME NEW k \in 1..Len(s) PROVE s[k] # d
        <5>1. off + k \in 1..Len(r)
          BY <1>2, <1>5
        <5>2. QED
          BY <1>1, <1>4, <4>1, <5>1 DEF Listed
      <4>3. d \notin Listed(s)
        BY <1>1, <4>2 DEF Listed
      <4>4. q - off \notin 1..Len(s)
        BY <1>2, <1>5, <3>3
      <4>5. IF q - off \in DOMAIN s THEN s[q - off] = d ELSE d \notin Listed(s)
        BY <1>1, <4>3, <4>4
      <4>6. QED
        BY <2>1, <3>1, <4>5
    <3>4. QED
      BY <3>2, <3>3
  <2>2. CASE q <= off
    <3>1. q \in 1..Len(r)
      BY <1>2, <1>5, <2>2
    <3>2. r[q] = d
      BY <1>1, <1>7, <3>1
    <3>3. ASSUME NEW k \in 1..Len(s) PROVE s[k] # d
      <4>1. off + k \in 1..Len(r) /\ off + k # q
        BY <1>2, <1>5, <2>2
      <4>2. QED
        BY <1>1, <1>4, <3>1, <3>2, <4>1 DEF Distinct
    <3>4. d \notin Listed(s)
      BY <1>1, <3>3 DEF Listed
    <3>5. Len(s) + 1 \notin 1..Len(s) /\ Len(s) + 1 \in 1..(Len(s) + 1) /\ ~(q > off)
      BY <1>2, <1>5, <2>2
    <3>6. IF Len(s) + 1 \in DOMAIN s THEN s[Len(s) + 1] = d ELSE d \notin Listed(s)
      BY <1>1, <3>4, <3>5
    <3>7. QED
      BY <3>5, <3>6
  <2>3. q > off \/ q <= off
    BY <1>2, <1>5
  <2>4. QED
    BY <2>1, <2>2, <2>3
<1>9. PICK p \in 1..(Len(s) + 1) :
        /\ IF p \in DOMAIN s THEN s[p] = d ELSE d \notin Listed(s)
        /\ q > off => p = q - off
        /\ q <= off => p = Len(s) + 1
  BY <1>8
<1>10. Places(r, s, d, off, q, p)
  BY <1>5, <1>4, <1>7, <1>9 DEF Places
<1>11. QED
  BY <1>6, <1>10

-----------------------------------------------------------------------------
(* The index: one entry moves, the oldest goes. *)

(* How many entries of the index are past the cap. *)
Over(s) == IF Len(s) > MaxStored THEN Len(s) - MaxStored ELSE 0
(* The entries of the index that are kept. *)
Youngest(s) == SubSeq(s, Over(s) + 1, Len(s))

(* An index that overflows does so by one. *)
LEMMA OverProperties ==
  ASSUME NEW V, NEW s \in Seq(V), Len(s) >= 1, Len(s) <= MaxStored + 1
  PROVE  /\ Len(s) > MaxStored => Over(s) = 1 /\ Len(s) = MaxStored + 1
         /\ Len(s) <= MaxStored => Over(s) = 0
         /\ Over(s) \in {0, 1}
         /\ Youngest(s) \in Seq(V) /\ Len(Youngest(s)) = Len(s) - Over(s)
         /\ \A k \in 1..Len(Youngest(s)) : Youngest(s)[k] = s[Over(s) + k]
<1>1. Len(s) \in Nat /\ MaxStored \in Nat /\ MaxStored >= 1
  BY LenProperties, StoreAssumption
<1>2. /\ Len(s) > MaxStored => Over(s) = 1 /\ Len(s) = MaxStored + 1
      /\ Len(s) <= MaxStored => Over(s) = 0
  <2>1. CASE Len(s) > MaxStored
    <3>1. Over(s) = Len(s) - MaxStored
      BY <2>1 DEF Over
    <3>2. Len(s) = MaxStored + 1
      BY <1>1, <2>1
    <3>3. QED
      BY <1>1, <3>1, <3>2
  <2>2. CASE Len(s) <= MaxStored
    BY <1>1, <2>2 DEF Over
  <2>3. QED
    BY <1>1, <2>1, <2>2
<1>3. Over(s) \in {0, 1}
  BY <1>1, <1>2
<1>4. \A i \in 1..Len(s) : s[i] \in V
  BY ElementOfSeq
<1>5. /\ Youngest(s) \in Seq(V) /\ Len(Youngest(s)) = Len(s) - Over(s)
      /\ \A k \in 1..Len(Youngest(s)) : Youngest(s)[k] = s[Over(s) + k]
  <2>1. /\ Over(s) + 1 \in 1..(Len(s) + 1) /\ Len(s) \in Over(s)..Len(s)
        /\ Over(s) + 1 \in Nat
    BY <1>1, <1>3
  <2>2. \A i \in (Over(s) + 1)..Len(s) : s[i] \in V
    BY <1>1, <1>4, <2>1
  <2>3. Over(s) + 1 \in Int /\ Len(s) \in Int
    BY <1>1, <2>1
  <2>4. /\ Youngest(s) \in Seq(V)
        /\ Len(Youngest(s)) = IF Over(s) + 1 <= Len(s) THEN Len(s) - (Over(s) + 1) + 1 ELSE 0
        /\ \A i \in 1..(Len(s) - (Over(s) + 1) + 1) : Youngest(s)[i] = s[(Over(s) + 1) + i - 1]
    BY <2>2, <2>3, SubSeqProperties DEF Youngest
  <2>5. Len(Youngest(s)) = Len(s) - Over(s)
    <3>1. CASE Over(s) + 1 <= Len(s)
      <4>1. Len(Youngest(s)) = Len(s) - (Over(s) + 1) + 1
        BY <2>4, <3>1, Zenon
      <4>2. QED
        BY <1>1, <1>3, <4>1
    <3>2. QED
      BY <1>1, <1>2, <1>3, <3>1
  <2>6. ASSUME NEW k \in 1..Len(Youngest(s))
        PROVE  Youngest(s)[k] = s[Over(s) + k]
    <3>1. k \in 1..(Len(s) - (Over(s) + 1) + 1) /\ (Over(s) + 1) + k - 1 = Over(s) + k
      BY <1>1, <1>3, <2>5
    <3>2. Youngest(s)[k] = s[(Over(s) + 1) + k - 1]
      BY <2>4, <3>1, Zenon
    <3>3. QED
      BY <3>1, <3>2
  <2>7. QED
    BY <2>4, <2>5, <2>6
<1>6. QED
  BY <1>2, <1>3, <1>5

(* What save drops is the oldest entry, if any. *)
LEMMA Dropped ==
  ASSUME NEW V, NEW s \in Seq(V), Len(s) >= 1, Len(s) <= MaxStored + 1
  PROVE  /\ Over(s) = 0 => Listed(SubSeq(s, 1, Over(s))) = {}
         /\ Over(s) = 1 => Listed(SubSeq(s, 1, Over(s))) = {s[1]}
<1>1. Len(s) \in Nat
  BY LenProperties
<1> DEFINE t == SubSeq(s, 1, Over(s))
<1>2. CASE Over(s) = 0
  <2>1. t = <<>>
    BY <1>2, SubSeqEmpty
  <2>2. QED
    BY <1>2, <2>1 DEF Listed
<1>3. CASE Over(s) = 1
  <2>1. \A i \in 1..1 : s[i] \in V
    BY <1>1, ElementOfSeq
  <2>2. /\ t \in Seq(V) /\ Len(t) = IF 1 <= 1 THEN 1 - 1 + 1 ELSE 0
        /\ \A i \in 1..(1 - 1 + 1) : t[i] = s[1 + i - 1]
    BY <1>3, <2>1, SubSeqProperties, 1 \in Int
  <2>3. Len(t) = 1 /\ t[1] = s[1]
    BY <2>2
  <2>4. DOMAIN t = {1}
    <3>1. DOMAIN t = 1..Len(t)
      BY <2>2, LenProperties
    <3>2. 1..1 = {1}
      OBVIOUS
    <3>3. QED
      BY <2>3, <3>1, <3>2
  <2>5. Listed(t) = {s[1]}
    BY <2>3, <2>4 DEF Listed
  <2>6. QED
    BY <1>3, <2>5
<1>4. QED
  BY <1>2, <1>3

(* Places in a sequence that begins `off` entries before its end.          *)
LEMMA Shifts ==
  ASSUME NEW off \in Nat, NEW len \in Nat, NEW over \in Nat, NEW k \in Nat
  PROVE  /\ (len + off + over) - len + k = off + (over + k)
         /\ len + off + over = off + (len + over)
         /\ 1 <= k /\ k <= len =>
              /\ over + k \in 1..(len + over)
              /\ off + k \in 1..(off + len)
              /\ off + k = off + len <=> k = len
OBVIOUS

(* One entry moves to the end of a sequence and of its own end, and the    *)
(* oldest entry past the cap goes: the latter is an end of the former      *)
(* again.                                                                  *)
LEMMA EndMoves ==
  ASSUME NEW V, NEW r \in Seq(V), NEW s \in Seq(V), NEW d \in V, Distinct(r), Ends(s, r)
  PROVE  /\ Distinct(ToEnd(r, d)) /\ ToEnd(r, d) \in Seq(V)
         /\ Distinct(ToEnd(s, d)) /\ ToEnd(s, d) \in Seq(V)
         /\ Listed(ToEnd(s, d)) = Listed(s) \cup {d}
         /\ Len(ToEnd(s, d)) >= 1 /\ Len(ToEnd(s, d)) <= MaxStored + 1
         /\ ToEnd(s, d)[Len(ToEnd(s, d))] = d
         /\ Ends(Youngest(ToEnd(s, d)), ToEnd(r, d))
         /\ Distinct(s) /\ Len(s) <= MaxStored
<1> DEFINE m == ToEnd(r, d)
           n == ToEnd(s, d)
           y == Youngest(n)
<1>1. /\ Len(r) \in Nat /\ Len(s) \in Nat
      /\ MaxStored \in Nat /\ MaxStored >= 1
  BY LenProperties, StoreAssumption
<1>2. DOMAIN r = 1..Len(r) /\ DOMAIN s = 1..Len(s)
  BY LenProperties
<1>3. Distinct(s)
  BY PlaceInEnd
<1>4. PICK off, q, p : Places(r, s, d, off, q, p)
  BY PlaceInEnd
<1>5. off \in Nat /\ q \in 1..(Len(r) + 1) /\ p \in 1..(Len(s) + 1)
  BY <1>4 DEF Places
<1>6. off \in Nat
  BY <1>5
<1>7. /\ Len(r) = off + Len(s) /\ Len(s) <= MaxStored /\ (off > 0 => Len(s) = MaxStored)
      /\ q > off => p = q - off
      /\ q <= off => p = Len(s) + 1
  BY <1>4 DEF Places
<1>8. IF q \in DOMAIN r THEN r[q] = d ELSE d \notin Listed(r)
  BY <1>4 DEF Places
<1>9. IF p \in DOMAIN s THEN s[p] = d ELSE d \notin Listed(s)
  BY <1>4 DEF Places
<1>10. \A k \in 1..Len(s) : s[k] = r[off + k]
  BY <1>4 DEF Places
<1>11. /\ n \in Seq(V)
       /\ Len(n) = IF p <= Len(s) THEN Len(s) ELSE Len(s) + 1
       /\ \A k \in 1..Len(n) : n[k] = IF k = Len(n) THEN d ELSE IF k < p THEN s[k] ELSE s[k + 1]
       /\ Distinct(n) /\ Listed(n) = Listed(s) \cup {d}
  BY <1>3, <1>5, <1>9, ToEndProperties
<1>12. /\ m \in Seq(V)
       /\ Len(m) = IF q <= Len(r) THEN Len(r) ELSE Len(r) + 1
       /\ \A k \in 1..Len(m) : m[k] = IF k = Len(m) THEN d ELSE IF k < q THEN r[k] ELSE r[k + 1]
       /\ Distinct(m)
  BY <1>5, <1>8, ToEndProperties
<1> HIDE DEF m, n
<1>13. /\ p <= Len(s) => Len(n) = Len(s)
       /\ ~(p <= Len(s)) => Len(n) = Len(s) + 1
  BY <1>11, Zenon
<1>14. /\ q <= Len(r) => Len(m) = Len(r)
       /\ ~(q <= Len(r)) => Len(m) = Len(r) + 1
  BY <1>12, Zenon
<1>15. Len(m) \in Nat /\ Len(n) \in Nat
  BY <1>11, <1>12, LenProperties, Zenon
<1>16. Len(n) >= 1 /\ Len(n) <= MaxStored + 1
  BY <1>1, <1>5, <1>7, <1>13, <1>15
<1>17. /\ Len(n) > MaxStored => Over(n) = 1 /\ Len(n) = MaxStored + 1
       /\ Len(n) <= MaxStored => Over(n) = 0
       /\ Over(n) \in {0, 1}
       /\ y \in Seq(V) /\ Len(y) = Len(n) - Over(n)
       /\ \A k \in 1..Len(y) : y[k] = n[Over(n) + k]
  BY <1>11, <1>16, OverProperties
<1> HIDE DEF y
<1>18. /\ Len(n) > MaxStored => Over(n) = 1 /\ Len(n) = MaxStored + 1
       /\ Len(n) <= MaxStored => Over(n) = 0
       /\ Len(y) = Len(n) - Over(n) /\ Over(n) \in 0..1 /\ Len(y) \in Nat
  BY <1>17, LenProperties
<1>19. /\ q > off => Len(m) = Len(y) + off + Over(n) /\ Len(n) = Len(m) - off
       /\ q <= off => /\ Len(m) = Len(y) + off /\ Over(n) = 1
                      /\ Len(n) = Len(s) + 1 /\ Len(y) = MaxStored
  BY <1>1, <1>5, <1>7, <1>13, <1>14, <1>15, <1>18
<1>20. Len(y) = IF Len(m) <= MaxStored THEN Len(m) ELSE MaxStored
  <2>1. CASE q > off
    <3>1. CASE off = 0
      BY <1>1, <1>5, <1>15, <1>18, <1>19, <2>1, <3>1
    <3>2. CASE off > 0
      <4>1. Len(s) = MaxStored /\ (p <= Len(s) <=> q <= Len(r))
        BY <1>1, <1>5, <1>7, <2>1, <3>2
      <4>2. Len(y) = MaxStored /\ Len(m) > MaxStored
        BY <1>1, <1>5, <1>7, <1>13, <1>14, <1>15, <1>18, <2>1, <3>2, <4>1
      <4>3. QED
        BY <1>1, <1>5, <1>15, <4>2
    <3>3. QED
      BY <1>5, <3>1, <3>2
  <2>2. CASE q <= off
    <3>1. off > 0 /\ Len(y) = MaxStored /\ Len(m) = MaxStored + off
      BY <1>5, <1>15, <1>18, <1>19, <2>2
    <3>2. QED
      BY <1>1, <1>5, <3>1
  <2>3. QED
    BY <1>1, <1>5, <2>1, <2>2
<1>21. ASSUME NEW k \in 1..Len(y)
       PROVE  y[k] = m[Len(m) - Len(y) + k]
  <2>1. PICK j, i : j = Over(n) + k /\ i = Len(m) - Len(y) + k
    OBVIOUS
  <2>2. /\ Len(n) = Len(y) + Over(n) /\ k \in Nat /\ k >= 1 /\ k <= Len(y)
        /\ j = Over(n) + k /\ j \in Nat /\ Over(n) \in Nat
    <3>1. Over(n) \in Nat /\ Len(y) \in Nat /\ Len(n) = Len(y) + Over(n)
      BY <1>15, <1>18
    <3>2. k \in Nat /\ k >= 1 /\ k <= Len(y)
      BY <3>1
    <3>3. j = Over(n) + k
      BY <2>1
    <3>4. j \in Nat
      BY <3>1, <3>2, <3>3
    <3>5. QED
      BY <3>1, <3>2, <3>3, <3>4
  <2>3. /\ q > off => i = off + j /\ Len(m) = off + Len(n)
        /\ q <= off => i = off + k /\ Len(m) = off + Len(y) /\ j = k + 1 /\ Len(n) = Len(s) + 1
        /\ i \in Nat
    <3>1. CASE q > off
      <4>1. Len(m) = Len(y) + off + Over(n)
        BY <1>19, <3>1
      <4>2. Len(y) \in Nat /\ i = Len(m) - Len(y) + k
        BY <1>18, <2>1
      <4>3. i = off + j
        <5>1. i = (Len(y) + off + Over(n)) - Len(y) + k
          BY <4>1, <4>2, Zenon
        <5>2. k \in Nat /\ Over(n) \in Nat /\ j = Over(n) + k
          BY <2>2, Zenon
        <5>3. Len(y) \in Nat /\ off \in Nat /\ Over(n) \in Nat /\ k \in Nat
          BY <1>6, <4>2, <5>2, Zenon
        <5>4. (Len(y) + off + Over(n)) - Len(y) + k = off + (Over(n) + k)
          BY <5>3, Shifts
        <5>5. QED
          BY <5>1, <5>2, <5>4, Zenon
      <4>4. ~(q <= off)
        BY <1>5, <3>1
      <4>5. Len(m) = off + Len(n)
        BY <1>6, <2>2, <4>1, <4>2
      <4>6. QED
        BY <1>6, <2>2, <4>3, <4>5, <4>4
    <3>2. CASE q <= off
      <4>1. Len(m) = Len(y) + off /\ Over(n) = 1 /\ Len(n) = Len(s) + 1
        BY <1>19, <3>2
      <4>2. Len(y) \in Nat /\ i = Len(m) - Len(y) + k
        BY <1>18, <2>1
      <4>3. i = off + k /\ j = k + 1 /\ ~(q > off)
        BY <1>5, <2>2, <3>2, <4>1, <4>2
      <4>4. QED
        BY <1>5, <2>2, <4>1, <4>3
    <3>3. QED
      BY <1>5, <3>1, <3>2
  <2>4. /\ j \in 1..Len(n) /\ i \in 1..Len(m)
        /\ i = Len(m) <=> j = Len(n)
    <3>1. Len(y) \in Nat /\ Len(m) \in Nat /\ Len(n) \in Nat
      BY <1>15, <1>18
    <3>2. CASE q > off
      <4>1. i = off + j /\ Len(m) = off + Len(n)
        BY <2>3, <3>2, Zenon
      <4>2. j \in 1..Len(n)
        <5>1. Over(n) + k \in 1..(Len(y) + Over(n))
          BY <1>6, <2>2, <3>1, Shifts, Zenon
        <5>2. QED
          BY <2>2, <5>1, Zenon
      <4>3. j \in Nat /\ 1 <= j /\ j <= Len(n) /\ off \in Nat /\ Len(n) \in Nat
        BY <1>6, <3>1, <4>2
      <4>4. /\ off + j \in 1..(off + Len(n))
            /\ off + j = off + Len(n) <=> j = Len(n)
        BY <4>3
      <4>5. QED
        BY <4>1, <4>2, <4>4, Zenon
    <3>3. CASE q <= off
      <4>1. i = off + k /\ Len(m) = off + Len(y) /\ j = k + 1
        BY <2>3, <3>3, Zenon
      <4>2. Len(n) = Len(y) + 1
        BY <2>2, <3>1, <4>1
      <4>3. k \in Nat /\ k >= 1 /\ k <= Len(y)
        BY <2>2
      <4>4. QED
        BY <1>6, <3>1, <4>1, <4>2, <4>3
    <3>4. QED
      BY <1>5, <3>2, <3>3
  <2>5. y[k] = n[j]
    BY <1>17, <2>1
  <2>6. n[j] = IF j = Len(n) THEN d ELSE IF j < p THEN s[j] ELSE s[j + 1]
    BY <1>11, <2>4
  <2>7. m[i] = IF i = Len(m) THEN d ELSE IF i < q THEN r[i] ELSE r[i + 1]
    BY <1>12, <2>4
  <2>8. CASE j = Len(n)
    BY <2>1, <2>4, <2>5, <2>6, <2>7, <2>8
  <2>9. CASE j # Len(n) /\ q <= off
    <3>1. /\ i = off + k /\ j = k + 1 /\ Len(n) = Len(s) + 1 /\ p = Len(s) + 1
          /\ k \in Nat /\ k >= 1
      BY <1>7, <2>9, <2>2, <2>3
    <3>2. j \in 1..Len(s) /\ j < p
      BY <1>1, <2>4, <2>9, <3>1
    <3>3. ~(i < q) /\ off + j = i + 1
      BY <1>5, <2>9, <3>1
    <3>4. s[j] = r[i + 1]
      BY <1>10, <3>2, <3>3
    <3>5. QED
      BY <2>1, <2>4, <2>5, <2>6, <2>7, <2>9, <3>4, <3>2, <3>3
  <2>10. CASE j # Len(n) /\ q > off
    <3>1. i = off + j /\ (j < p <=> i < q)
      <4>1. i = off + j /\ p = q - off /\ j \in Nat
        BY <1>7, <2>10, <2>2, <2>3
      <4>2. QED
        BY <1>5, <4>1
    <3>2. CASE j < p
      <4>1. j \in 1..Len(s)
        BY <1>1, <1>5, <2>4, <3>2
      <4>2. s[j] = r[i]
        BY <1>10, <3>1, <4>1
      <4>3. QED
        BY <2>1, <2>4, <2>5, <2>6, <2>7, <2>10, <3>1, <3>2, <4>2
    <3>3. CASE ~(j < p)
      <4>1. j + 1 \in 1..Len(s) /\ off + (j + 1) = i + 1
        BY <1>1, <1>5, <1>13, <2>4, <2>10, <3>1, <3>3
      <4>2. s[j + 1] = r[i + 1]
        BY <1>10, <4>1
      <4>3. QED
        BY <2>1, <2>4, <2>5, <2>6, <2>7, <2>10, <3>1, <3>3, <4>2
    <3>4. QED
      BY <3>2, <3>3
  <2>11. QED
    BY <1>5, <2>8, <2>9, <2>10
<1>22. Ends(y, m)
  <2>1. DOMAIN y = 1..Len(y)
    BY <1>17, LenProperties
  <2>2. QED
    BY <1>20, <1>21, <2>1 DEF Ends
<1>23. n[Len(n)] = d
  <2>1. Len(n) \in 1..Len(n)
    BY <1>15, <1>16
  <2>2. QED
    BY <1>11, <2>1
<1>24. QED
  BY <1>3, <1>7, <1>11, <1>12, <1>16, <1>22, <1>23 DEF m, n, y

-----------------------------------------------------------------------------
(* The store. *)

(* Saving a chain: what it was saved as is stored, every other row is left *)
(* alone or evicted, and the index remains the end of the order of saves.  *)
LEMMA SaveStep ==
  ASSUME StoreOK, CorruptOK, NEW chain \in Chains,
         Save(chain), recency' = ToEnd(recency, chain.id)
  PROVE  /\ StoreOK' /\ CorruptOK'
         /\ rows'[chain.id] = chain
         /\ \A i \in ChainIds \ {chain.id} : rows'[i] \in {rows[i], NoRow}
<1> DEFINE d == chain.id
           n == ToEnd(index, d)
           gone == Listed(SubSeq(n, 1, Over(n)))
<1>1. d \in ChainIds /\ chain # NoRow /\ chain # Corrupt
  BY SentinelAssumption DEF Chains
<1>2. /\ index' = Youngest(n)
      /\ rows' = [i \in ChainIds |-> IF i \in gone THEN NoRow ELSE IF i = d THEN chain ELSE rows[i]]
  BY DEF Save, ToEnd, Over, Youngest
<1>3. /\ recency \in Seq(ChainIds) /\ index \in Seq(ChainIds) /\ Distinct(recency)
      /\ Ends(index, recency)
      /\ Listed(index) = {i \in ChainIds : rows[i] # NoRow}
  BY DEF StoreOK
<1>4. /\ Distinct(recency') /\ recency' \in Seq(ChainIds)
      /\ Distinct(n) /\ n \in Seq(ChainIds)
      /\ Listed(n) = Listed(index) \cup {d}
      /\ Len(n) >= 1 /\ Len(n) <= MaxStored + 1
      /\ n[Len(n)] = d
      /\ Ends(Youngest(n), recency')
      /\ Len(index) <= MaxStored
  <2>1. recency' = ToEnd(recency, d)
    OBVIOUS
  <2> HIDE DEF d
  <2>2. QED
    BY <1>1, <1>3, <2>1, EndMoves
<1> HIDE DEF d, n
<1>5. /\ Over(n) \in {0, 1}
      /\ Len(n) > MaxStored => Over(n) = 1 /\ Len(n) = MaxStored + 1
      /\ Len(n) <= MaxStored => Over(n) = 0
      /\ Youngest(n) \in Seq(ChainIds) /\ Len(Youngest(n)) = Len(n) - Over(n)
      /\ \A k \in 1..Len(Youngest(n)) : Youngest(n)[k] = n[Over(n) + k]
  BY <1>4, OverProperties
<1>6. /\ Over(n) = 0 => gone = {}
      /\ Over(n) = 1 => gone = {n[1]}
  BY <1>4, Dropped
<1>7. Len(n) \in Nat /\ DOMAIN n = 1..Len(n) /\ DOMAIN Youngest(n) = 1..Len(Youngest(n))
  BY <1>4, <1>5, LenProperties
<1>8. Listed(Youngest(n)) = Listed(n) \ gone
  <2>1. CASE Over(n) = 0
    <3>1. Youngest(n) = n
      BY <1>4, <2>1, SubSeqFull DEF Youngest
    <3>2. QED
      BY <1>6, <2>1, <3>1
  <2>2. CASE Over(n) = 1
    <3>1. gone = {n[1]}
      BY <1>6, <2>2
    <3>2. Len(Youngest(n)) = Len(n) - 1
      BY <1>5, <2>2
    <3>3. \A k \in 1..Len(Youngest(n)) : Youngest(n)[k] = n[1 + k]
      BY <1>5, <2>2
    <3>4. ASSUME NEW k \in DOMAIN n, n[k] # n[1]
          PROVE  n[k] \in Listed(Youngest(n))
      <4>1. k - 1 \in 1..Len(Youngest(n)) /\ 1 + (k - 1) = k
        <5>1. k \in 1..Len(n) /\ k # 1 /\ Len(n) \in Nat
          BY <1>7, <3>4
        <5>2. QED
          BY <3>2, <5>1
      <4>2. Youngest(n)[k - 1] = n[k]
        BY <3>3, <4>1
      <4>3. QED
        BY <1>7, <4>1, <4>2 DEF Listed
    <3>5. ASSUME NEW k \in 1..Len(Youngest(n))
          PROVE  Youngest(n)[k] \in Listed(n) \ {n[1]}
      <4>1. 1 + k \in 1..Len(n) /\ 1 \in 1..Len(n) /\ 1 + k # 1
        <5>1. Len(n) \in Nat
          BY <1>7
        <5>2. QED
          BY <3>2, <5>1
      <4>2. n[1 + k] # n[1]
        BY <1>4, <1>7, <4>1 DEF Distinct
      <4>3. QED
        BY <1>7, <3>3, <4>1, <4>2 DEF Listed
    <3>6. QED
      BY <1>7, <3>1, <3>4, <3>5 DEF Listed
  <2>3. QED
    BY <1>5, <2>1, <2>2
<1>9. d \notin gone
  <2>1. CASE Over(n) = 0
    BY <1>6, <2>1
  <2>2. CASE Over(n) = 1
    <3>1. Len(n) # 1 /\ 1 \in 1..Len(n) /\ Len(n) \in 1..Len(n)
      <4>1. Len(n) \in Nat /\ Len(n) = MaxStored + 1 /\ MaxStored \in Nat /\ MaxStored >= 1
        <5>1. Len(n) > MaxStored
          <6>1. Len(n) \in Nat /\ MaxStored \in Nat
            BY <1>7, StoreAssumption
          <6>2. QED
            BY <1>5, <2>2, <6>1
        <5>2. QED
          BY <1>5, <1>7, <5>1, StoreAssumption
      <4>2. QED
        BY <4>1
    <3>2. QED
      BY <1>4, <1>6, <1>7, <2>2, <3>1 DEF Distinct
  <2>3. QED
    BY <1>5, <2>1, <2>2
<1>10. rows'[d] = chain
  BY <1>1, <1>2, <1>9
<1>11. \A i \in ChainIds \ {d} : rows'[i] \in {rows[i], NoRow}
  BY <1>2
<1>12. Listed(Youngest(n)) = {i \in ChainIds : rows'[i] # NoRow}
  BY <1>1, <1>2, <1>3, <1>4, <1>8, <1>9, <1>10
<1>13. StoreOK'
  BY <1>2, <1>4, <1>5, <1>12 DEF StoreOK, ChainIds
<1>14. CorruptOK'
  <2>1. ASSUME NEW i \in ChainIds, rows'[i] = Corrupt
        PROVE  i = 0 /\ index' = recency' /\ index' # <<>> /\ index'[1] = 0
    <3>1. i # d /\ i \notin gone /\ rows[i] = Corrupt
      BY <1>1, <1>2, <1>10, <2>1, SentinelAssumption
    <3>2. i = 0 /\ index = recency /\ index # <<>> /\ index[1] = 0
      BY <2>1, <3>1 DEF CorruptOK, CorruptRows
    <3>3. n = recency'
      BY <3>2 DEF n, d
    <3>4. n[1] = 0
      <4>1. PICK p \in 1..(Len(index) + 1) : IF p \in DOMAIN index THEN index[p] = d ELSE d \notin Listed(index)
        BY <1>3, Place
      <4>2. /\ Len(n) = IF p <= Len(index) THEN Len(index) ELSE Len(index) + 1
            /\ \A k \in 1..Len(n) :
                 n[k] = IF k = Len(n) THEN d ELSE IF k < p THEN index[k] ELSE index[k + 1]
        BY <1>1, <1>3, <3>2, <4>1, ToEndProperties DEF n
      <4>3. Len(index) \in Nat /\ Len(index) # 0 /\ DOMAIN index = 1..Len(index)
        BY <1>3, <3>2, LenProperties, EmptySeq
      <4>4. p # 1
        <5>1. 1 \in DOMAIN index
          BY <4>3
        <5>2. QED
          BY <3>1, <3>2, <4>1, <5>1
      <4>5. Len(n) # 1 /\ 1 \in 1..Len(n) /\ 1 < p
        <5>1. Len(index) \in Nat /\ Len(index) # 0
          BY <4>3
        <5>2. CASE p <= Len(index)
          <6>1. Len(n) = Len(index)
            BY <4>2, <5>2
          <6>2. QED
            BY <4>4, <5>1, <5>2, <6>1
        <5>3. CASE ~(p <= Len(index))
          <6>1. Len(n) = Len(index) + 1
            BY <4>2, <5>3
          <6>2. QED
            BY <4>4, <5>1, <6>1
        <5>4. QED
          BY <5>2, <5>3
      <4>6. QED
        BY <3>2, <4>2, <4>5
    <3>5. Over(n) = 0
      BY <1>5, <1>6, <3>1, <3>2, <3>4
    <3>6. Youngest(n) = n
      BY <1>4, <3>5, SubSeqFull DEF Youngest
    <3>7. QED
      BY <1>2, <1>4, <3>2, <3>3, <3>4, <3>6
  <2>2. QED
    BY <2>1 DEF CorruptOK, CorruptRows, ChainIds
<1>15. QED
  BY <1>10, <1>11, <1>13, <1>14 DEF d

(* Dropping corrupt rows: there is one at most, the row an earlier session *)
(* left, and nothing was evicted as long as it is there.                   *)
LEMMA HealStep ==
  ASSUME StoreOK, CorruptOK, NEW ids \in (SUBSET CorruptRows) \ {{}},
         Heal(ids), recency' = Without(recency, ids)
  PROVE  /\ StoreOK' /\ CorruptOK'
         /\ \A i \in ChainIds : rows'[i] \in {rows[i], NoRow}
<1> DEFINE s == index
           w == Without(s, {0})
<1>1. /\ s \in Seq(ChainIds) /\ Distinct(recency)
      /\ Ends(s, recency)
      /\ Listed(s) = {i \in ChainIds : rows[i] # NoRow}
  BY DEF StoreOK
<1>2. s = recency /\ s # <<>> /\ s[1] = 0 /\ ids = {0}
  BY DEF CorruptOK
<1>3. /\ rows' = [i \in ChainIds |-> IF i = 0 THEN NoRow ELSE rows[i]]
      /\ index' = w /\ recency' = w
  BY <1>2 DEF Heal
<1>4. DOMAIN s = 1..Len(s) /\ 1 \in 1..Len(s) /\ 1 \in 1..(Len(s) + 1) /\ Len(s) \in Nat
  BY <1>1, <1>2, LenProperties, EmptySeq
<1>5. IF 1 \in DOMAIN s THEN s[1] = 0 ELSE 0 \notin Listed(s)
  BY <1>2, <1>4
<1>6. /\ w \in Seq(ChainIds)
      /\ Len(w) = IF 1 <= Len(s) THEN Len(s) - 1 ELSE Len(s)
      /\ \A k \in 1..Len(w) : w[k] = IF k < 1 THEN s[k] ELSE s[k + 1]
  <2>1. Distinct(s)
    BY <1>1, <1>2
  <2> HIDE DEF s
  <2>2. QED
    <3>1. PICK p : p = 1
      OBVIOUS
    <3>2. p \in 1..(Len(s) + 1) /\ IF p \in DOMAIN s THEN s[p] = 0 ELSE 0 \notin Listed(s)
      BY <1>4, <1>5, <3>1
    <3>3. /\ w \in Seq(ChainIds)
          /\ Len(w) = IF p <= Len(s) THEN Len(s) - 1 ELSE Len(s)
          /\ \A k \in 1..Len(w) : w[k] = IF k < p THEN s[k] ELSE s[k + 1]
      BY <1>1, <2>1, <3>2, WithoutOne
    <3>4. QED
      BY <3>1, <3>3
<1> HIDE DEF s, w
<1>7. DOMAIN w = 1..Len(w) /\ Len(w) = Len(s) - 1 /\ \A k \in 1..Len(w) : w[k] = s[k + 1]
  <2>1. Len(w) = Len(s) - 1
    BY <1>4, <1>6
  <2>2. DOMAIN w = 1..Len(w)
    BY <1>6, LenProperties
  <2>3. \A k \in 1..Len(w) : w[k] = s[k + 1]
    BY <1>6
  <2>4. QED
    BY <2>1, <2>2, <2>3
<1>8. \A i, j \in 1..Len(s) : s[i] = s[j] => i = j
  BY <1>1, <1>2, <1>4 DEF Distinct
<1>9. \A k \in 1..Len(w) : k + 1 \in 1..Len(s) /\ w[k] = s[k + 1] /\ w[k] # 0
  <2>1. TAKE k \in 1..Len(w)
  <2>2. k + 1 \in 1..Len(s) /\ k + 1 # 1
    BY <1>4, <1>7
  <2>3. QED
    BY <1>2, <1>4, <1>7, <1>8, <2>2
<1>10. Distinct(w)
  <2>1. ASSUME NEW i \in 1..Len(w), NEW j \in 1..Len(w), w[i] = w[j] PROVE i = j
    <3>1. i + 1 = j + 1
      BY <1>8, <1>9, <2>1
    <3>2. QED
      BY <3>1
  <2>2. QED
    BY <1>7, <2>1 DEF Distinct
<1>11. Ends(w, w)
  <2>1. Len(w) <= MaxStored /\ Len(w) \in Nat
    <3>1. Len(s) = IF Len(s) <= MaxStored THEN Len(s) ELSE MaxStored
      BY <1>1, <1>2 DEF Ends
    <3>2. Len(w) = Len(s) - 1 /\ Len(s) \in Nat /\ MaxStored \in Nat /\ Len(w) \in Nat
      BY <1>4, <1>6, <1>7, LenProperties, StoreAssumption
    <3>3. QED
      BY <3>1, <3>2
  <2>2. \A k \in 1..Len(w) : Len(w) - Len(w) + k = k
    BY <2>1
  <2>3. QED
    BY <1>7, <2>1, <2>2 DEF Ends
<1>12. Listed(w) = Listed(s) \ {0}
  <2>1. ASSUME NEW k \in 1..Len(s), s[k] # 0 PROVE s[k] \in Listed(w)
    <3>1. k - 1 \in 1..Len(w) /\ (k - 1) + 1 = k
      BY <1>2, <1>4, <1>7, <2>1
    <3>2. QED
      BY <1>7, <3>1 DEF Listed
  <2>2. QED
    BY <1>4, <1>7, <1>9, <2>1 DEF Listed
<1>13. Listed(w) = {i \in ChainIds : rows'[i] # NoRow}
  BY <1>1, <1>3, <1>12
<1>14. StoreOK'
  BY <1>3, <1>6, <1>10, <1>11, <1>13 DEF StoreOK, ChainIds
<1>15. CorruptOK'
  <2>1. \A i \in ChainIds : rows'[i] # Corrupt
    BY <1>3, SentinelAssumption DEF CorruptOK, CorruptRows
  <2>2. QED
    BY <2>1 DEF CorruptOK, CorruptRows, ChainIds
<1>16. QED
  BY <1>3, <1>14, <1>15

-----------------------------------------------------------------------------
(* Growing and marking chains. *)

(* A resolved block has the nodes of the draft, with what was found. *)
LEMMA ResolvedType ==
  ASSUME NEW block \in Drafts, NEW found \in [DOMAIN block -> Findings]
  PROVE  /\ Resolved(block, found) \in Seq(TreeNodes(Ids))
         /\ IdsOf(Resolved(block, found)) = IdsOf(block)
         /\ Len(Resolved(block, found)) = Len(block)
<1> DEFINE t == Resolved(block, found)
<1>1. DOMAIN block = 1..Len(block) /\ Len(block) \in Nat
  BY LenProperties DEF Drafts
<1>2. ASSUME NEW i \in DOMAIN block
      PROVE  [id |-> block[i].id, level |-> block[i].level, st |-> found[i].st] \in TreeNodes(Ids)
  <2>1. block[i] \in [id : Ids, level : Nat]
    BY <1>1, ElementOfSeq DEF Drafts
  <2>2. found[i].st \in Statuses
    BY ToolAssumption DEF AllFindings, Statuses
  <2>3. QED
    BY <2>1, <2>2 DEF TreeNodes
<1>3. t \in [1..Len(block) -> TreeNodes(Ids)]
  BY <1>1, <1>2 DEF Resolved
<1>4. t \in Seq(TreeNodes(Ids)) /\ Len(t) = Len(block)
  <2>1. t \in Seq(TreeNodes(Ids))
    BY <1>1, <1>3, SeqDef
  <2>2. DOMAIN t = 1..Len(block)
    BY <1>3
  <2> HIDE DEF t
  <2>3. QED
    BY <1>1, <2>1, <2>2, LenProperties
<1>5. IdsOf(t) = IdsOf(block)
  BY DEF Resolved, IdsOf
<1>6. QED
  BY <1>4, <1>5

(* A tree whose nodes only change their status keeps its ids and stays     *)
(* well formed.                                                            *)
LEMMA SameShape ==
  ASSUME NEW tree \in Seq(TreeNodes(Ids)), NEW f \in [DOMAIN tree -> Statuses],
         NEW next, next = [i \in DOMAIN tree |-> [tree[i] EXCEPT !.st = f[i]]]
  PROVE  /\ next \in Seq(TreeNodes(Ids))
         /\ IdsOf(next) = IdsOf(tree)
         /\ WellFormed(tree) => WellFormed(next)
<1>1. DOMAIN tree = 1..Len(tree) /\ Len(tree) \in Nat
  BY LenProperties
<1>2. ASSUME NEW i \in DOMAIN tree
      PROVE  next[i] \in TreeNodes(Ids) /\ next[i].id = tree[i].id /\ next[i].level = tree[i].level
  <2>1. tree[i] \in TreeNodes(Ids)
    BY <1>1, ElementOfSeq
  <2>2. QED
    BY <2>1 DEF TreeNodes
<1>3. DOMAIN next = DOMAIN tree
  OBVIOUS
<1>4. next \in [1..Len(tree) -> TreeNodes(Ids)]
  BY <1>1, <1>2
<1>5. next \in Seq(TreeNodes(Ids))
  BY <1>1, <1>4, SeqDef
<1>6. Len(next) = Len(tree)
  BY <1>1, <1>3, <1>5, LenProperties
<1>7. IdsOf(next) = IdsOf(tree)
  BY <1>2, <1>3 DEF IdsOf
<1>8. WellFormed(tree) => WellFormed(next)
  BY <1>2, <1>3, <1>6 DEF WellFormed, OwnIds
<1>9. QED
  BY <1>5, <1>7, <1>8

(* The same for a node that pickCandidate or a failed expand marks. *)
LEMMA MarkedShape ==
  ASSUME NEW tree \in Seq(TreeNodes(Ids)), NEW id, NEW st \in Statuses
  PROVE  /\ Marked(tree, id, st) \in Seq(TreeNodes(Ids))
         /\ IdsOf(Marked(tree, id, st)) = IdsOf(tree)
         /\ WellFormed(tree) => WellFormed(Marked(tree, id, st))
<1> DEFINE f == [i \in DOMAIN tree |-> IF i \in Replaced(tree, id) THEN st ELSE tree[i].st]
           next == [i \in DOMAIN tree |-> [tree[i] EXCEPT !.st = f[i]]]
<1>1. ASSUME NEW i \in DOMAIN tree
      PROVE  tree[i] \in TreeNodes(Ids)
  BY LenProperties, ElementOfSeq
<1>2. f \in [DOMAIN tree -> Statuses]
  BY <1>1 DEF TreeNodes
<1>3. \A i \in DOMAIN tree : tree[i] = [tree[i] EXCEPT !.st = tree[i].st]
  BY <1>1 DEF TreeNodes
<1>4. Marked(tree, id, st) = next
  BY <1>3 DEF Marked
<1> HIDE DEF f
<1>5. QED
  BY <1>2, <1>4, SameShape

(* What a call acknowledges: the nodes it added and what was told. *)
News(nodes, told) ==
  {<<"node", x>> : x \in IdsOf(nodes)} \cup {<<"said", x>> : x \in told}

(* The chain, grown below `at`, with what was told. *)
With(base, at, nodes, told) ==
  [base EXCEPT !.tree = Grown(@, at, nodes), !.said = @ \cup told]

(* The chain has all that `base` had, and what the call acknowledges. *)
Exceeds(chain, base, at, nodes, told) ==
  /\ chain \in Chains /\ chain.id = base.id
  /\ chain.tree = Grown(base.tree, at, nodes)
  /\ Facts(base) \subseteq Facts(chain)
  /\ News(nodes, told) \subseteq Facts(chain)

(* Growing a chain loses nothing of it: replaceNode and the spread of the  *)
(* chain it is put into.                                                   *)
LEMMA GrownChain ==
  ASSUME NEW base \in Chains, NEW at \in IdsOf(base.tree), NEW nodes \in Seq(TreeNodes(Ids)),
         NEW told, told \subseteq {Story}
  PROVE  Exceeds(With(base, at, nodes, told), base, at, nodes, told)
<1> DEFINE chain == With(base, at, nodes, told)
<1>1. base.tree \in Seq(TreeNodes(Ids)) /\ base.said \subseteq Ids \cup {Story} /\ base.id \in ChainIds /\ base.session \in Sessions
  BY DEF Chains
<1>2. Grown(base.tree, at, nodes) \in Seq(TreeNodes(Ids))
  BY <1>1, GrownType
<1>3. /\ IdsOf(base.tree) \subseteq IdsOf(Grown(base.tree, at, nodes))
      /\ IdsOf(nodes) \subseteq IdsOf(Grown(base.tree, at, nodes))
  BY <1>1, GrownIds
<1>4. /\ chain.id = base.id
      /\ chain.tree = Grown(base.tree, at, nodes) /\ chain.said = base.said \cup told
  BY DEF Chains, With
<1>5. chain \in Chains
  BY <1>1, <1>2 DEF Chains, With
<1>6. QED
  BY <1>3, <1>4, <1>5 DEF Facts, News, Exceeds

-----------------------------------------------------------------------------
(* Steps that save, or do not. *)

(* Chains that are good stay so as ids are minted and chains sprawl. *)
LEMMA GoodStays ==
  ASSUME minted' \in Nat, minted \in Nat, minted <= minted', sprawling \subseteq sprawling'
  PROVE  \A chain : Good(chain) =>
           chain \in Chains /\ chain.id <= minted' /\ (chain.id \notin sprawling' => WellFormed(chain.tree))
<1>1. SUFFICES ASSUME NEW chain, Good(chain)
               PROVE  chain \in Chains /\ chain.id <= minted' /\ (chain.id \notin sprawling' => WellFormed(chain.tree))
  OBVIOUS
<1>2. chain \in Chains /\ chain.id <= minted /\ (chain.id \notin sprawling => WellFormed(chain.tree))
  BY <1>1 DEF Good
<1>3. chain.id \in Nat
  BY <1>2, StoreAssumption DEF Chains, ChainIds
<1>4. QED
  BY <1>2, <1>3

(* Calls in flight stay as they were loaded, or end. *)
LEMMA CallsStay ==
  ASSUME CallsOK, minted' \in Nat, minted \in Nat, minted <= minted', sprawling \subseteq sprawling',
         DOMAIN calls' = Slots, \A c \in Slots : calls'[c] # Idle => calls'[c] = calls[c]
  PROVE  CallsOK'
<1>1. ASSUME NEW c \in Slots, calls'[c] # Idle
      PROVE  CallOK(calls[c])'
  <2>1. calls'[c] = calls[c] /\ CallOK(calls[c])
    BY <1>1 DEF CallsOK
  <2>2. calls[c].tool \notin NewTools => Good(calls[c].base)
    BY <2>1 DEF CallOK
  <2>3. calls[c].tool \notin NewTools => Good(calls[c].base)'
    BY <2>1, <2>2, GoodStays DEF Good
  <2>4. QED
    BY <2>1, <2>3 DEF CallOK
<1>2. QED
  BY <1>1 DEF CallsOK

(* A chain is saved, and the panel goes on with what it had or with it. *)
LEMMA SavedStep ==
  ASSUME IInv, NEW chain \in Chains, Save(chain), recency' = ToEnd(recency, chain.id),
         view' = view, alive' = alive, shown' \in {shown, chain}, pending' \in {pending, chain}, ViewOK',
         minted' \in 0..MaxChains, minted <= minted', chain.id <= minted',
         sprawling \subseteq sprawling', chain.id \notin sprawling' => WellFormed(chain.tree),
         DOMAIN calls' = Slots, \A c \in Slots : calls'[c] # Idle => calls'[c] = calls[c],
         overlapped \subseteq overlapped',
         DOMAIN promised' = ChainIds, \A i \in ChainIds \ {chain.id} : promised'[i] = promised[i],
         chain.id \notin overlapped' =>
           /\ promised'[chain.id] \subseteq Facts(chain)
           /\ \A c \in Slots : ~(calls'[c] # Idle /\ calls'[c].base # NoChain /\ calls'[c].base.id = chain.id)
  PROVE  IInv'
<1>1. /\ StoreOK' /\ CorruptOK'
      /\ rows'[chain.id] = chain
      /\ \A i \in ChainIds \ {chain.id} : rows'[i] \in {rows[i], NoRow}
  BY SaveStep DEF IInv
<1>2. chain.id \in ChainIds /\ chain # NoChain /\ chain # NoRow /\ minted \in Nat /\ minted' \in Nat
  BY StoreAssumption, SentinelAssumption DEF Chains, IInv, ChainsOK
<1>3. \A ch : Good(ch) \/ ch = chain =>
         ch \in Chains /\ ch.id <= minted' /\ (ch.id \notin sprawling' => WellFormed(ch.tree))
  BY <1>2, GoodStays
<1>4. ChainsOK'
  <2>1. ASSUME NEW i \in ChainIds, IsChain(rows[i])'
        PROVE  rows'[i].id = i /\ Good(rows[i])'
    <3>1. CASE i = chain.id
      BY <1>1, <1>3, <3>1 DEF Good
    <3>2. CASE i # chain.id
      <4>1. rows'[i] = rows[i] /\ IsChain(rows[i])
        BY <1>1, <2>1, <3>2 DEF IsChain
      <4>2. rows[i].id = i /\ Good(rows[i])
        BY <4>1 DEF IInv, ChainsOK
      <4>3. QED
        BY <1>3, <4>1, <4>2 DEF Good
    <3>3. QED
      BY <3>1, <3>2
  <2>2. ASSUME NEW ch \in {shown', pending'}, ch # NoChain
        PROVE  ch \in Chains /\ ch.id <= minted' /\ (ch.id \notin sprawling' => WellFormed(ch.tree))
    BY <1>3, <2>2 DEF IInv, ChainsOK
  <2>3. \A ch \in {shown, pending}' : ch # NoChain => Good(ch)'
    BY <2>2 DEF Good
  <2>4. QED
    BY <2>1, <2>3 DEF ChainsOK, ChainIds
<1>5. CallsOK'
  BY <1>2, CallsStay DEF IInv
<1>6. KeptOK'
  <2>1. ASSUME NEW i \in ChainIds, i > minted'
        PROVE  promised'[i] = {}
    <3>1. i # chain.id /\ i > minted
      BY <1>2, <2>1, StoreAssumption DEF ChainIds
    <3>2. QED
      BY <3>1 DEF IInv, KeptOK
  <2>2. ASSUME NEW i \in ChainIds \ overlapped'
        PROVE  /\ IsChain(rows'[i]) => promised'[i] \subseteq Facts(rows'[i])
               /\ \A c \in Slots : On(c, i)' => promised'[i] \subseteq Facts(calls'[c].base)
               /\ \A c, d \in Slots : On(c, i)' /\ On(d, i)' => c = d
    <3>1. CASE i = chain.id
      BY <1>1, <2>2, <3>1 DEF On
    <3>2. CASE i # chain.id
      <4>1. promised'[i] = promised[i] /\ i \in ChainIds \ overlapped
        BY <2>2, <3>2
      <4>2. IsChain(rows'[i]) => rows'[i] = rows[i]
        BY <1>1, <3>2 DEF IsChain
      <4>3. \A c \in Slots : On(c, i)' => On(c, i) /\ calls'[c] = calls[c]
        BY DEF On
      <4>4. QED
        BY <4>1, <4>2, <4>3 DEF IInv, KeptOK
    <3>3. QED
      BY <3>1, <3>2
  <2>3. QED
    BY <2>1, <2>2 DEF KeptOK, IsChain, Facts, ChainIds
<1>7. QED
  BY <1>1, <1>4, <1>5, <1>6 DEF IInv

(* A tool saves a chain and hands it to the panel. *)
LEMMA CommitStep ==
  ASSUME IInv, NEW chain \in Chains, NEW news, NEW reveal, Commit(chain, news, reveal),
         minted' \in 0..MaxChains, minted <= minted', chain.id <= minted',
         sprawling \subseteq sprawling', chain.id \notin sprawling' => WellFormed(chain.tree),
         DOMAIN calls' = Slots, \A c \in Slots : calls'[c] # Idle => calls'[c] = calls[c],
         overlapped \subseteq overlapped',
         chain.id \notin overlapped' =>
           /\ promised[chain.id] \cup news \subseteq Facts(chain)
           /\ \A c \in Slots : ~(calls'[c] # Idle /\ calls'[c].base # NoChain /\ calls'[c].base.id = chain.id)
  PROVE  IInv' /\ Steady
<1>1. /\ Save(chain) /\ recency' = ToEnd(recency, chain.id)
      /\ promised' = [promised EXCEPT ![chain.id] = @ \cup news]
      /\ owed' = chain /\ (Show(chain) \/ Update(chain))
  BY DEF Commit, HandOver, ToEnd
<1>2. /\ view' = view /\ alive' = alive /\ owed' = chain
      /\ shown' \in {shown, chain} /\ pending' \in {pending, chain}
      /\ shown' = chain \/ (view = NoView /\ pending' = chain)
  BY <1>1 DEF Show, Update, SetChain
<1>3. chain.id \in ChainIds /\ chain # NoChain
  BY SentinelAssumption DEF Chains
<1>4. ViewOK' /\ Steady
  BY <1>2, <1>3 DEF IInv, ViewOK, Steady
<1>5. /\ DOMAIN promised' = ChainIds /\ \A i \in ChainIds \ {chain.id} : promised'[i] = promised[i]
      /\ promised'[chain.id] = promised[chain.id] \cup news
  BY <1>1, <1>3 DEF IInv, KeptOK
<1>6. QED
  BY <1>1, <1>2, <1>4, <1>5, SavedStep

(* A step that leaves the store, the panel and what was promised alone: a  *)
(* call that is refused.                                                   *)
LEMMA QuietStep ==
  ASSUME IInv, UNCHANGED <<storeVars, viewVars, histVars>>,
         minted' \in 0..MaxChains, minted <= minted',
         DOMAIN calls' = Slots, \A c \in Slots : calls'[c] # Idle => calls'[c] = calls[c]
  PROVE  IInv' /\ Steady
<1>1. /\ UNCHANGED <<index, rows, recency, view, alive, shown, pending, owed>>
      /\ UNCHANGED <<promised, overlapped, sprawling>>
  BY DEF storeVars, viewVars, panelVars, histVars
<1>2. minted \in Nat /\ minted' \in Nat
  BY StoreAssumption DEF IInv, ChainsOK
<1>3. \A ch : Good(ch) =>
         ch \in Chains /\ ch.id <= minted' /\ (ch.id \notin sprawling' => WellFormed(ch.tree))
  BY <1>1, <1>2, GoodStays
<1>4. StoreOK' /\ CorruptOK' /\ ViewOK' /\ Steady
  BY <1>1 DEF IInv, StoreOK, CorruptOK, CorruptRows, ViewOK, Steady
<1>5. ChainsOK'
  BY <1>1, <1>3 DEF IInv, ChainsOK, Good, IsChain
<1>6. CallsOK'
  BY <1>1, <1>2, CallsStay DEF IInv
<1>7. KeptOK'
  <2>1. \A i \in ChainIds : i > minted' => i > minted
    BY <1>2, StoreAssumption DEF ChainIds
  <2>2. \A i \in ChainIds, c \in Slots : On(c, i)' => On(c, i) /\ calls'[c] = calls[c]
    BY DEF On
  <2>3. QED
    BY <1>1, <2>1, <2>2 DEF IInv, KeptOK, IsChain, Facts
<1>8. QED
  BY <1>4, <1>5, <1>6, <1>7 DEF IInv

-----------------------------------------------------------------------------
(* Calls. *)

(* One node is a draft. *)
LEMMA OneIsDraft ==
  ASSUME NEW n \in Ids
  PROVE  /\ One(n) \in Drafts /\ Len(One(n)) = 1 /\ DOMAIN One(n) = {1}
         /\ One(n)[1].id = n /\ One(n)[1].level = 1 /\ IdsOf(One(n)) = {n}
<1>1. [id |-> n, level |-> 1] \in [id : Ids, level : Nat]
  OBVIOUS
<1>2. One(n) \in Drafts
  BY <1>1 DEF One, Drafts
<1>3. Len(One(n)) = 1 /\ DOMAIN One(n) = {1} /\ One(n)[1] = [id |-> n, level |-> 1]
  BY DEF One
<1>4. IdsOf(One(n)) = {n}
  BY <1>3 DEF IdsOf
<1>5. QED
  BY <1>2, <1>3, <1>4

(* A function on 1..n is a sequence. *)
LEMMA IsSeq ==
  ASSUME NEW V, NEW n \in Nat, NEW s \in [1..n -> V]
  PROVE  s \in Seq(V) /\ Len(s) = n
<1>1. s \in Seq(V)
  BY SeqDef
<1>2. DOMAIN s = 1..n
  OBVIOUS
<1>3. QED
  BY <1>1, <1>2, LenProperties

(* A call begins with what it loaded: a stored row, whose facts it has     *)
(* until it ends or another writer crosses it.                             *)
LEMMA BeginStep ==
  ASSUME IInv, NEW c \in Slots, NEW tool, NEW s, NEW base, NEW at, NEW block,
         CallOK([tool |-> tool, session |-> s, base |-> base, at |-> at, block |-> block]),
         base = NoChain \/ (base.id \in ChainIds /\ base = rows[base.id] /\ IsChain(base)),
         Begin(c, tool, s, base, at, block)
  PROVE  IInv'
<1> DEFINE call == [tool |-> tool, session |-> s, base |-> base, at |-> at, block |-> block]
<1>1. /\ UNCHANGED <<index, rows, recency, view, alive, shown, pending, owed>>
      /\ UNCHANGED <<minted, promised, sprawling>>
      /\ calls' = [calls EXCEPT ![c] = call]
      /\ overlapped' = IF base # NoChain /\ InFlight(base.id)
                       THEN overlapped \cup {base.id} ELSE overlapped
  BY DEF Begin, storeVars, viewVars, panelVars
<1>2. StoreOK' /\ CorruptOK' /\ ViewOK'
  BY <1>1 DEF IInv, StoreOK, CorruptOK, CorruptRows, ViewOK
<1>3. ChainsOK'
  BY <1>1 DEF IInv, ChainsOK, Good, IsChain
<1>4. DOMAIN calls' = Slots /\ calls'[c] = call /\ \A d \in Slots \ {c} : calls'[d] = calls[d]
  BY <1>1 DEF IInv, CallsOK
<1> HIDE DEF call
<1>5. CallsOK'
  <2>1. ASSUME NEW d \in Slots, calls'[d] # Idle
        PROVE  CallOK(calls'[d])
    BY <1>4, <2>1 DEF IInv, CallsOK, call
  <2>2. \A d \in Slots : calls'[d] # Idle => CallOK(calls[d])'
    BY <1>1, <2>1 DEF CallOK, Good
  <2>3. QED
    BY <1>4, <2>2 DEF CallsOK
<1>6. call.base = base
  BY DEF call
<1>7. KeptOK'
  <2>1. ASSUME NEW i \in ChainIds \ overlapped'
        PROVE  /\ IsChain(rows'[i]) => promised'[i] \subseteq Facts(rows'[i])
               /\ \A d \in Slots : On(d, i)' => promised'[i] \subseteq Facts(calls'[d].base)
               /\ \A d, e \in Slots : On(d, i)' /\ On(e, i)' => d = e
    <3>1. i \in ChainIds \ overlapped
      BY <1>1, <2>1
    <3>2. /\ IsChain(rows[i]) => promised[i] \subseteq Facts(rows[i])
          /\ \A d \in Slots : On(d, i) => promised[i] \subseteq Facts(calls[d].base)
          /\ \A d, e \in Slots : On(d, i) /\ On(e, i) => d = e
      BY <3>1 DEF IInv, KeptOK
    <3>3. \A d \in Slots \ {c} : On(d, i)' => On(d, i) /\ calls'[d] = calls[d]
      BY <1>4 DEF On
    <3>4. CASE base # NoChain /\ base.id = i
      <4>1. ~InFlight(i)
        BY <1>1, <2>1, <3>4
      <4>2. \A d \in Slots : ~On(d, i)
        BY <4>1 DEF InFlight, On
      <4>3. promised[i] \subseteq Facts(base)
        BY <3>2, <3>4
      <4>4. QED
        BY <1>1, <1>4, <1>6, <3>2, <3>3, <4>2, <4>3
    <3>5. CASE ~(base # NoChain /\ base.id = i)
      <4>1. ~On(c, i)'
        BY <1>4, <1>6, <3>5 DEF On
      <4>2. QED
        BY <1>1, <3>2, <3>3, <4>1
    <3>6. QED
      BY <3>4, <3>5
  <2>2. QED
    BY <1>1, <2>1 DEF IInv, KeptOK, IsChain, Facts, ChainIds
<1>8. QED
  BY <1>2, <1>3, <1>5, <1>7 DEF IInv

(* What a call can load is a good row of the store. *)
LEMMA Loaded ==
  ASSUME IInv, NEW chain \in Loadable
  PROVE  /\ Good(chain) /\ chain.id \in ChainIds /\ chain = rows[chain.id] /\ IsChain(chain)
         /\ chain # NoChain /\ IdsOf(chain.tree) \subseteq Ids
<1>1. PICK i \in ChainIds : chain = rows[i] /\ IsChain(rows[i])
  BY DEF Loadable
<1>2. rows[i].id = i /\ Good(rows[i])
  BY <1>1 DEF IInv, ChainsOK
<1>3. chain \in Chains
  BY <1>1, <1>2 DEF Good
<1>4. chain # NoChain /\ chain.tree \in Seq(TreeNodes(Ids))
  BY <1>3, SentinelAssumption DEF Chains
<1>5. IdsOf(chain.tree) \subseteq Ids
  <2>1. \A i_1 \in DOMAIN chain.tree : chain.tree[i_1] \in TreeNodes(Ids)
    BY <1>4, ElementOfSeq, LenProperties
  <2>2. QED
    BY <2>1 DEF IdsOf, TreeNodes
<1>6. QED
  BY <1>1, <1>2, <1>4, <1>5

(* A tool is called. *)
LEMMA CallStep ==
  ASSUME IInv, NEW c \in Slots, Call(c)
  PROVE  IInv'
<1>1. PICK s \in Sessions :
        \/ \E n \in Roots : CallEntry(c, s, n) \/ CallSeed(c, s, n)
        \/ \E chain \in Loadable :
             \/ \E n \in Steps : \E p \in IdsOf(chain.tree) : CallAdd(c, s, chain, p, n)
             \/ \E p \in IdsOf(chain.tree), b \in Blocks(Steps, MaxBlock, MaxDepth - 1) :
                  CallExtend(c, s, chain, p, b)
             \/ \E p \in IdsOf(chain.tree) : CallExpand(c, s, chain, p)
             \/ CallRefresh(c, s, chain)
  BY DEF Call
<1>2. <<>> \in Drafts /\ \A n \in Ids : One(n) \in Drafts
  BY OneIsDraft, EmptySeq DEF Drafts
<1>3. Roots \subseteq Ids /\ Steps \subseteq Ids
  BY DEF Ids
<1>4. ASSUME NEW n \in Roots, CallEntry(c, s, n) \/ CallSeed(c, s, n)
      PROVE  IInv'
  <2>1. PICK tool \in NewTools : Begin(c, tool, s, NoChain, NoNode, One(n))
    BY <1>4 DEF CallEntry, CallSeed, NewTools
  <2>2. CallOK([tool |-> tool, session |-> s, base |-> NoChain, at |-> NoNode, block |-> One(n)])
    BY <1>2, <1>3 DEF CallOK, NewTools, GrowTools
  <2>3. QED
    BY <2>1, <2>2, BeginStep
<1>5. ASSUME NEW chain \in Loadable, NEW n \in Steps, NEW p \in IdsOf(chain.tree), CallAdd(c, s, chain, p, n)
      PROVE  IInv'
  <2>1. Begin(c, "add", s, chain, p, One(n)) /\ Fits(chain.tree, p, n)
    BY <1>5 DEF CallAdd
  <2>2. CallOK([tool |-> "add", session |-> s, base |-> chain, at |-> p, block |-> One(n)])
    BY <1>2, <1>3, <2>1, Loaded DEF CallOK, NewTools, GrowTools, Good
  <2>3. QED
    BY <2>1, <2>2, Loaded, BeginStep
<1>6. ASSUME NEW chain \in Loadable, NEW p \in IdsOf(chain.tree),
             NEW b \in Blocks(Steps, MaxBlock, MaxDepth - 1), CallExtend(c, s, chain, p, b)
      PROVE  IInv'
  <2>1. Begin(c, "extend", s, chain, p, b)
    BY <1>6 DEF CallExtend
  <2>2. b \in Drafts
    <3>1. PICK n \in 1..MaxBlock : b \in [1..n -> [id : Steps, level : 1..(MaxDepth - 1)]]
      BY DEF Blocks
    <3>2. [id : Steps, level : 1..(MaxDepth - 1)] \subseteq [id : Ids, level : Nat]
      BY <1>3, ToolAssumption
    <3>3. n \in Nat /\ b \in [1..n -> [id : Ids, level : Nat]]
      BY <3>1, <3>2, ToolAssumption
    <3>4. QED
      BY <3>3, IsSeq DEF Drafts
  <2>3. CallOK([tool |-> "extend", session |-> s, base |-> chain, at |-> p, block |-> b])
    BY <2>2, Loaded DEF CallOK, NewTools, GrowTools, Good
  <2>4. QED
    BY <2>1, <2>3, Loaded, BeginStep
<1>7. ASSUME NEW chain \in Loadable, NEW p \in IdsOf(chain.tree), CallExpand(c, s, chain, p)
      PROVE  IInv'
  <2>1. Begin(c, "expand", s, chain, p, <<>>)
    BY <1>7 DEF CallExpand
  <2>2. CallOK([tool |-> "expand", session |-> s, base |-> chain, at |-> p, block |-> <<>>])
    BY <1>2, Loaded DEF CallOK, NewTools, GrowTools, Good
  <2>3. QED
    BY <2>1, <2>2, Loaded, BeginStep
<1>8. ASSUME NEW chain \in Loadable, CallRefresh(c, s, chain)
      PROVE  IInv'
  <2>1. Begin(c, "refresh", s, chain, NoNode, <<>>)
    BY <1>8 DEF CallRefresh
  <2>2. CallOK([tool |-> "refresh", session |-> s, base |-> chain, at |-> NoNode, block |-> <<>>])
    BY <1>2, Loaded DEF CallOK, NewTools, GrowTools, Good
  <2>3. QED
    BY <2>1, <2>2, Loaded, BeginStep
<1>9. QED
  BY <1>1, <1>4, <1>5, <1>6, <1>7, <1>8

(* The facts about a call in flight that its end needs. *)
LEMMA Flying ==
  ASSUME IInv, NEW c \in Slots, calls[c] # Idle, calls[c].tool \notin NewTools
  PROVE  LET base == calls[c].base IN
         /\ base \in Chains /\ base.id \in ChainIds /\ base # NoChain
         /\ base.id <= minted /\ (base.id \notin sprawling => WellFormed(base.tree))
         /\ base.tree \in Seq(TreeNodes(Ids))
         /\ base.id \notin overlapped =>
              /\ promised[base.id] \subseteq Facts(base)
              /\ \A d \in Slots \ {c} :
                   ~(calls[d] # Idle /\ calls[d].base # NoChain /\ calls[d].base.id = base.id)
<1> DEFINE base == calls[c].base
<1>1. Good(base)
  BY DEF IInv, CallsOK, CallOK
<1>2. base \in Chains /\ base.id <= minted /\ (base.id \notin sprawling => WellFormed(base.tree))
  BY <1>1 DEF Good
<1>3. base.id \in ChainIds /\ base.tree \in Seq(TreeNodes(Ids)) /\ base # NoChain
  BY <1>2, SentinelAssumption DEF Chains
<1>4. base.id \notin overlapped =>
        /\ promised[base.id] \subseteq Facts(base)
        /\ \A d \in Slots \ {c} :
             ~(calls[d] # Idle /\ calls[d].base # NoChain /\ calls[d].base.id = base.id)
  BY <1>3 DEF IInv, KeptOK, On
<1>5. QED
  BY <1>2, <1>3, <1>4

(* A call on a chain ends with that chain saved, changed. *)
LEMMA EndStep ==
  ASSUME IInv, NEW c \in Slots, calls[c] # Idle, calls[c].tool \notin NewTools,
         calls' = [calls EXCEPT ![c] = Idle], minted' = minted, overlapped' = overlapped,
         NEW chain \in Chains, chain.id = calls[c].base.id,
         NEW news, news \subseteq Facts(chain), Facts(calls[c].base) \subseteq Facts(chain),
         sprawling \subseteq sprawling', chain.id \notin sprawling' => WellFormed(chain.tree),
         Commit(chain, news, FALSE)
  PROVE  IInv' /\ Steady
<1> DEFINE base == calls[c].base
<1>1. /\ base.id \in ChainIds /\ base.id <= minted
      /\ base.id \notin overlapped =>
           /\ promised[base.id] \subseteq Facts(base)
           /\ \A d \in Slots \ {c} :
                ~(calls[d] # Idle /\ calls[d].base # NoChain /\ calls[d].base.id = base.id)
  BY Flying
<1>2. DOMAIN calls' = Slots /\ calls'[c] = Idle /\ \A d \in Slots \ {c} : calls'[d] = calls[d]
  BY DEF IInv, CallsOK
<1>3. minted' \in 0..MaxChains /\ minted <= minted' /\ chain.id <= minted'
  BY <1>1, StoreAssumption DEF IInv, ChainsOK
<1>4. chain.id \notin overlapped' =>
        /\ promised[chain.id] \cup news \subseteq Facts(chain)
        /\ \A d \in Slots : ~(calls'[d] # Idle /\ calls'[d].base # NoChain /\ calls'[d].base.id = chain.id)
  BY <1>1, <1>2
<1>5. QED
  BY <1>2, <1>3, <1>4, CommitStep

(* Entry or Seed ends: the chain it minted is stored, or the call is       *)
(* refused.                                                                *)
LEMMA NewStep ==
  ASSUME IInv, NEW c \in Slots, NEW owner, calls[c] # Idle, calls[c].tool \in NewTools, FinishNew(c, owner)
  PROVE  IInv' /\ Steady
<1> DEFINE call == calls[c]
           n == call.block[1].id
<1>1. CallOK(call)
  BY DEF IInv, CallsOK
<1>2. PICK r \in Roots : call.block = One(r)
  BY <1>1 DEF CallOK
<1>3. n = r /\ r \in Ids /\ call.session \in Sessions
  BY <1>1, <1>2, OneIsDraft DEF Ids, CallOK
<1>4. minted < MaxChains /\ minted' = minted + 1
  BY DEF FinishNew
<1>5. PICK found \in [{1} -> Findings] :
        LET failed == Failing(found)
            key == <<call.session, owner, n>>
            chain == NewChain(call.session, n, found)
        IN  \/ Refused(key, failed) /\ Refuse(c)
            \/ /\ calls' = [calls EXCEPT ![c] = Idle]
               /\ Commit(chain, {<<"node", n>>}, TRUE)
               /\ UNCHANGED <<spent, overlapped, sprawling>>
  BY DEF FinishNew
<1>6. minted' \in 0..MaxChains /\ minted <= minted' /\ minted + 1 \in ChainIds
  BY <1>4, StoreAssumption DEF IInv, ChainsOK, ChainIds
<1>7. CASE Refuse(c)
  <2>1. UNCHANGED <<storeVars, viewVars, histVars>> /\ calls' = [calls EXCEPT ![c] = Idle]
    BY <1>7 DEF Refuse, histVars
  <2>2. DOMAIN calls' = Slots /\ \A d \in Slots : calls'[d] # Idle => calls'[d] = calls[d]
    BY <2>1 DEF IInv, CallsOK
  <2>3. QED
    BY <1>6, <2>1, <2>2, QuietStep
<1>8. CASE /\ calls' = [calls EXCEPT ![c] = Idle]
           /\ Commit(NewChain(call.session, n, found), {<<"node", n>>}, TRUE)
           /\ UNCHANGED <<spent, overlapped, sprawling>>
  <2> DEFINE tree == Resolved(One(r), found)
  <2>1. PICK chain : chain = [id |-> minted + 1, session |-> call.session, tree |-> tree, said |-> {}]
    OBVIOUS
  <2>2. Commit(chain, {<<"node", r>>}, TRUE)
    BY <1>3, <1>8, <2>1 DEF NewChain
  <2>3. /\ One(r) \in Drafts /\ Len(One(r)) = 1 /\ DOMAIN One(r) = {1}
        /\ One(r)[1].level = 1 /\ IdsOf(One(r)) = {r}
    BY <1>3, OneIsDraft
  <2>4. tree \in Seq(TreeNodes(Ids)) /\ IdsOf(tree) = {r} /\ Len(tree) = 1
    BY <2>3, ResolvedType
  <2>5. DOMAIN tree = {1} /\ tree[1].level = 1
    BY <2>3 DEF Resolved
  <2> HIDE DEF tree
  <2>6. WellFormed(tree)
    BY <2>4, <2>5, ToolAssumption DEF WellFormed, OwnIds
  <2>7. chain \in Chains /\ chain.id = minted + 1 /\ chain.tree = tree
    BY <1>3, <1>6, <2>1, <2>4 DEF Chains
  <2>8. {<<"node", r>>} \subseteq Facts(chain)
    BY <2>4, <2>7 DEF Facts
  <2>9. promised[minted + 1] = {}
    BY <1>4, <1>6, StoreAssumption DEF IInv, KeptOK, ChainsOK
  <2>10. DOMAIN calls' = Slots /\ \A d \in Slots : calls'[d] # Idle => calls'[d] = calls[d]
    BY <1>8 DEF IInv, CallsOK
  <2>11. \A d \in Slots : ~(calls'[d] # Idle /\ calls'[d].base # NoChain /\ calls'[d].base.id = minted + 1)
    <3>1. SUFFICES ASSUME NEW d \in Slots, calls[d] # Idle, calls[d].base # NoChain
                   PROVE  calls[d].base.id # minted + 1
      BY <2>10
    <3>2. calls[d].tool \notin NewTools
      BY <3>1 DEF IInv, CallsOK, CallOK
    <3>3. calls[d].base.id <= minted
      BY <3>1, <3>2, Flying
    <3>4. QED
      BY <1>6, <3>3, StoreAssumption DEF IInv, ChainsOK
  <2>12. chain.id <= minted'
    BY <1>4, <1>6, <2>7
  <2>13. /\ sprawling \subseteq sprawling' /\ overlapped \subseteq overlapped'
         /\ chain.id \notin sprawling' => WellFormed(chain.tree)
    BY <1>8, <2>6, <2>7
  <2>14. chain.id \notin overlapped' =>
           /\ promised[chain.id] \cup {<<"node", r>>} \subseteq Facts(chain)
           /\ \A d \in Slots : ~(calls'[d] # Idle /\ calls'[d].base # NoChain /\ calls'[d].base.id = chain.id)
    BY <2>7, <2>8, <2>9, <2>11
  <2>15. chain \in Chains
    BY <2>7
  <2>16. QED
    BY <1>6, <2>2, <2>10, <2>12, <2>13, <2>14, <2>15, CommitStep
<1>9. QED
  BY <1>5, <1>7, <1>8

(* What an Add or an Extend appends is a draft. *)
LEMMA GrownBlock ==
  ASSUME NEW call, CallOK(call), call.tool \in {"add", "extend"}, NEW top
  PROVE  (IF call.tool = "add" THEN call.block ELSE KeptOf(call.base, top, call.block)) \in Drafts
<1>1. call.block \in Drafts
  BY DEF CallOK
<1>2. KeptOf(call.base, top, call.block) \in Drafts
  BY <1>1, FilterType DEF KeptOf, Drafts
<1>3. QED
  BY <1>1, <1>2

(* A chain that only Entry and Add have touched is grown by a node that    *)
(* fits.                                                                   *)
LEMMA AddedNode ==
  ASSUME NEW base \in Chains, WellFormed(base.tree), NEW at, NEW n \in Ids,
         Fits(base.tree, at, n), NEW found \in [DOMAIN One(n) -> Findings]
  PROVE  WellFormed(Grown(base.tree, at, Resolved(One(n), found)))
<1> DEFINE tree == base.tree
           p == NodeAt(tree, at)
           node == Resolved(One(n), found)[1]
           g == Grown(tree, at, <<node>>)
<1>1. /\ One(n) \in Drafts /\ Len(One(n)) = 1 /\ DOMAIN One(n) = {1}
      /\ One(n)[1].id = n /\ One(n)[1].level = 1
  BY OneIsDraft
<1>2. /\ Resolved(One(n), found) \in Seq(TreeNodes(Ids)) /\ Len(Resolved(One(n), found)) = 1
  BY <1>1, ResolvedType
<1>3. Resolved(One(n), found) = <<node>>
  BY <1>2
<1>4. node.id = n /\ node.level = 1
  BY <1>1 DEF Resolved
<1>5. node \in TreeNodes(Ids)
  BY <1>2, ElementOfSeq
<1>6. tree \in Seq(TreeNodes(Ids))
  BY DEF Chains
<1>7. at \in IdsOf(tree) /\ n \notin IdsOf(tree) /\ tree[p].level + 1 <= MaxDepth /\ Len(tree) + 1 <= MaxNodes
  BY DEF Fits
<1>8. OwnIds(tree) /\ \A a \in DOMAIN tree : tree[a].level <= MaxDepth
  BY DEF WellFormed
<1>9. p \in DOMAIN tree /\ tree[p].id = at
  <2>1. DOMAIN tree = 1..Len(tree) /\ Len(tree) \in Nat
    BY <1>6, LenProperties
  <2>2. PICK i \in DOMAIN tree : tree[i].id = at
    BY <1>7 DEF IdsOf
  <2>3. ASSUME NEW j \in 1..(i - 1)
        PROVE  tree[j].id # at
    <3>1. j \in DOMAIN tree /\ j # i
      BY <2>1, <2>2
    <3>2. QED
      BY <1>8, <2>2, <3>1 DEF OwnIds
  <2>4. QED
    BY <2>2, <2>3 DEF NodeAt
<1> HIDE DEF p, node, tree
<1>10. /\ Len(g) = Len(tree) + 1
       /\ OwnIds(g)
       /\ \A k \in DOMAIN g : \/ g[k].level = node.level + tree[p].level
                              \/ \E j \in DOMAIN tree : g[k] = tree[j]
  <2>1. node.id \notin IdsOf(tree)
    BY <1>4, <1>7
  <2>2. OneMore(Grown(tree, tree[p].id, <<node>>), tree, p, node)
    BY <1>5, <1>6, <1>8, <1>9, <2>1, GrownByOne
  <2>3. QED
    BY <1>9, <2>2 DEF OneMore
<1> HIDE DEF g
<1>11. \A k \in DOMAIN g : g[k].level <= MaxDepth
  <2>1. tree[p].level \in Nat
    <3>1. tree[p] \in TreeNodes(Ids)
      BY <1>6, <1>9, ElementOfSeq, LenProperties
    <3>2. QED
      BY <3>1 DEF TreeNodes
  <2>2. node.level + tree[p].level = tree[p].level + 1
    BY <1>4, <2>1
  <2>3. QED
    BY <1>7, <1>8, <1>10, <2>2
<1>12. Len(g) <= MaxNodes
  BY <1>7, <1>10
<1>13. WellFormed(g)
  BY <1>10, <1>11, <1>12 DEF WellFormed
<1>14. QED
  BY <1>3, <1>13 DEF g, tree

(* Add or Extend ends: the chain that is saved is the one that was loaded, *)
(* grown, whatever happened to the row meanwhile.                          *)
LEMMA GrowStep ==
  ASSUME IInv, NEW c \in Slots, FinishGrow(c)
  PROVE  IInv' /\ Steady
<1> DEFINE call == calls[c]
           top == call.base.tree[NodeAt(call.base.tree, call.at)].level
           block == IF call.tool = "add" THEN call.block ELSE KeptOf(call.base, top, call.block)
<1>1. call # Idle /\ call.tool \in {"add", "extend"}
  BY DEF FinishGrow
<1>2. CallOK(call) /\ call.tool \notin NewTools
  BY <1>1 DEF IInv, CallsOK, NewTools
<1>3. call.at \in IdsOf(call.base.tree)
  BY <1>1, <1>2 DEF CallOK, GrowTools
<1>4. block \in Drafts
  BY <1>1, <1>2, GrownBlock
<1>5. /\ call.base \in Chains
      /\ call.base.id \notin sprawling => WellFormed(call.base.tree)
  BY <1>1, <1>2, Flying
<1> HIDE DEF block
<1>6. PICK found \in [DOMAIN block -> Findings], told \in SUBSET {Story} :
        LET nodes == Resolved(block, found)
        IN  /\ told # {} => call.tool = "extend"
            /\ \/ Refuse(c) /\ UNCHANGED minted
               \/ /\ calls' = [calls EXCEPT ![c] = Idle]
                  /\ Commit([Grow(call, nodes) EXCEPT !.said = @ \cup told],
                            {<<"node", x>> : x \in IdsOf(nodes)} \cup {<<"said", x>> : x \in told},
                            FALSE)
                  /\ sprawling' = IF call.tool = "extend"
                                  THEN sprawling \cup {call.base.id} ELSE sprawling
                  /\ UNCHANGED <<minted, spent, overlapped>>
  BY DEF FinishGrow, block
<1>7. CASE Refuse(c) /\ UNCHANGED minted
  <2>1. UNCHANGED <<storeVars, viewVars, histVars>> /\ calls' = [calls EXCEPT ![c] = Idle]
    BY <1>7 DEF Refuse, histVars
  <2>2. DOMAIN calls' = Slots /\ \A d \in Slots : calls'[d] # Idle => calls'[d] = calls[d]
    BY <2>1 DEF IInv, CallsOK
  <2>3. minted' \in 0..MaxChains /\ minted <= minted'
    BY <1>7, StoreAssumption DEF IInv, ChainsOK
  <2>4. QED
    BY <2>1, <2>2, <2>3, QuietStep
<1>8. CASE /\ calls' = [calls EXCEPT ![c] = Idle]
           /\ Commit([Grow(call, Resolved(block, found)) EXCEPT !.said = @ \cup told],
                     {<<"node", x>> : x \in IdsOf(Resolved(block, found))} \cup {<<"said", x>> : x \in told},
                     FALSE)
           /\ sprawling' = IF call.tool = "extend" THEN sprawling \cup {call.base.id} ELSE sprawling
           /\ UNCHANGED <<minted, spent, overlapped>>
  <2> DEFINE nodes == Resolved(block, found)
             base == call.base
             grown == Grown(base.tree, call.at, nodes)
             news == News(nodes, told)
  <2>1. PICK chain : chain = With(base, call.at, nodes, told)
    OBVIOUS
  <2>2. chain = [Grow(call, nodes) EXCEPT !.said = @ \cup told]
    BY <1>5, <2>1 DEF Grow, Chains, With
  <2>3. nodes \in Seq(TreeNodes(Ids))
    BY <1>4, ResolvedType
  <2>4. /\ chain \in Chains /\ chain.id = base.id
        /\ chain.tree = grown
        /\ Facts(base) \subseteq Facts(chain)
        /\ news \subseteq Facts(chain)
    <3>1. base \in Chains /\ call.at \in IdsOf(base.tree)
      BY <1>3, <1>5
    <3> HIDE DEF base, nodes
    <3>2. told \subseteq {Story}
      OBVIOUS
    <3>3. Exceeds(With(base, call.at, nodes, told), base, call.at, nodes, told)
      BY <2>3, <3>1, <3>2, GrownChain
    <3>4. QED
      BY <2>1, <3>3 DEF Exceeds, news
  <2>5. Commit(chain, news, FALSE)
    BY <1>8, <2>2 DEF News
  <2>6. chain.id \notin sprawling' => WellFormed(chain.tree)
    <3>1. SUFFICES ASSUME chain.id \notin sprawling'
                   PROVE  WellFormed(chain.tree)
      OBVIOUS
    <3>2. call.tool = "add" /\ base.id \notin sprawling
      BY <1>1, <1>8, <2>4, <3>1
    <3>3. PICK n \in Steps : call.block = One(n) /\ Fits(base.tree, call.at, n)
      BY <1>2, <3>2 DEF CallOK
    <3>4. block = One(n) /\ n \in Ids
      BY <3>2, <3>3 DEF block, Ids
    <3>5. found \in [DOMAIN One(n) -> Findings]
      BY <1>6, <3>4
    <3>6. WellFormed(Grown(base.tree, call.at, Resolved(One(n), found)))
      BY <1>5, <3>2, <3>3, <3>4, <3>5, AddedNode
    <3>7. QED
      BY <2>4, <3>4, <3>6
  <2>7. sprawling \subseteq sprawling' /\ minted' = minted /\ overlapped' = overlapped
    BY <1>8
  <2> HIDE DEF news
  <2>8. QED
    BY <1>1, <1>2, <1>8, <2>4, <2>5, <2>6, <2>7, EndStep
<1>9. QED
  BY <1>6, <1>7, <1>8

-----------------------------------------------------------------------------
(* Ends of calls, and handlers that do not wait. *)

(* Expand ends with new edges. *)
LEMMA ExpandStep ==
  ASSUME IInv, NEW c \in Slots, FinishExpand(c)
  PROVE  IInv' /\ Steady
<1> DEFINE call == calls[c]
           base == call.base
<1>1. call # Idle /\ call.tool = "expand" /\ call.tool \notin NewTools
  BY DEF FinishExpand, NewTools
<1>2. call.at \in IdsOf(base.tree)
  BY <1>1 DEF IInv, CallsOK, CallOK, GrowTools
<1>3. base \in Chains
  BY <1>1, Flying
<1>4. PICK new \in NewEdges(base.tree) :
        /\ Commit(Grow(call, new), {<<"node", x>> : x \in IdsOf(new)}, FALSE)
        /\ sprawling' = sprawling \cup {base.id}
  BY DEF FinishExpand
<1>5. /\ calls' = [calls EXCEPT ![c] = Idle]
      /\ minted' = minted /\ overlapped' = overlapped
  BY DEF FinishExpand
<1>6. new \in Seq(TreeNodes(Ids))
  <2> DEFINE E == [id : Edges \ IdsOf(base.tree), level : {1}, st : {"real"}]
  <2>1. PICK n \in 1..Cardinality(Edges) : new \in [1..n -> E]
    BY DEF NewEdges
  <2>2. E \subseteq TreeNodes(Ids)
    BY DEF TreeNodes, Ids, Statuses
  <2>3. n \in Nat
    BY FS_CardinalityType, ToolAssumption
  <2> HIDE DEF E
  <2>4. new \in [1..n -> TreeNodes(Ids)]
    BY <2>1, <2>2
  <2>5. QED
    BY <2>3, <2>4, IsSeq
<1>7. PICK chain : chain = With(base, call.at, new, {})
  OBVIOUS
<1>8. chain = Grow(call, new)
  BY <1>3, <1>7 DEF Grow, Chains, With
<1>9. Exceeds(chain, base, call.at, new, {})
  BY <1>2, <1>3, <1>6, <1>7, GrownChain
<1>10. PICK news : news = {<<"node", x>> : x \in IdsOf(new)}
  OBVIOUS
<1>11. news \subseteq Facts(chain)
  BY <1>9, <1>10 DEF Exceeds, News
<1>12. /\ chain \in Chains /\ chain.id = base.id /\ Facts(base) \subseteq Facts(chain)
       /\ sprawling \subseteq sprawling' /\ chain.id \in sprawling'
  BY <1>4, <1>9 DEF Exceeds
<1>13. Commit(chain, news, FALSE)
  BY <1>4, <1>8, <1>10
<1>14. QED
  BY <1>1, <1>5, <1>11, <1>12, <1>13, EndStep

(* Expand fails: the node is not marked unless the chain is saved. *)
LEMMA FailStep ==
  ASSUME IInv, NEW c \in Slots, ExpandFails(c)
  PROVE  IInv' /\ Steady
<1>1. DOMAIN calls' = Slots /\ \A d \in Slots : calls'[d] # Idle => calls'[d] = calls[d]
  BY DEF ExpandFails, IInv, CallsOK
<1>2. minted' \in 0..MaxChains /\ minted <= minted' /\ UNCHANGED <<storeVars, viewVars, histVars>>
  BY StoreAssumption DEF ExpandFails, IInv, ChainsOK
<1>3. QED
  BY <1>1, <1>2, QuietStep

(* Refresh ends: statuses change, nodes stay. *)
LEMMA RefreshStep ==
  ASSUME IInv, NEW c \in Slots, FinishRefresh(c)
  PROVE  IInv' /\ Steady
<1> DEFINE call == calls[c]
           base == call.base
           tree == base.tree
<1>1. call # Idle /\ call.tool = "refresh" /\ call.tool \notin NewTools
  BY DEF FinishRefresh, NewTools
<1>2. base \in Chains /\ tree \in Seq(TreeNodes(Ids)) /\ (base.id \notin sprawling => WellFormed(tree))
  BY <1>1, Flying
<1>3. /\ calls' = [calls EXCEPT ![c] = Idle]
      /\ minted' = minted /\ overlapped' = overlapped /\ sprawling' = sprawling
  BY DEF FinishRefresh
<1>4. PICK hits \in [DOMAIN tree -> {f.st : f \in Findings} \ {"note"}] :
        LET next == [i \in DOMAIN tree |-> [tree[i] EXCEPT !.st = Rerolled(@, hits[i])]]
        IN  \/ UNCHANGED <<storeVars, viewVars, promised, recency>>
            \/ Commit([base EXCEPT !.tree = next], {}, FALSE)
  BY DEF FinishRefresh
<1> DEFINE next == [i \in DOMAIN tree |-> [tree[i] EXCEPT !.st = Rerolled(@, hits[i])]]
<1>5. CASE UNCHANGED <<storeVars, viewVars, promised, recency>>
  <2>1. DOMAIN calls' = Slots /\ \A d \in Slots : calls'[d] # Idle => calls'[d] = calls[d]
    BY <1>3 DEF IInv, CallsOK
  <2>2. minted' \in 0..MaxChains /\ minted <= minted' /\ UNCHANGED <<storeVars, viewVars, histVars>>
    BY <1>3, <1>5, StoreAssumption DEF IInv, ChainsOK, histVars
  <2>3. QED
    BY <2>1, <2>2, QuietStep
<1>6. CASE Commit([base EXCEPT !.tree = next], {}, FALSE)
  <2> DEFINE f == [i \in DOMAIN tree |-> Rerolled(tree[i].st, hits[i])]
  <2>1. f \in [DOMAIN tree -> Statuses]
    <3>1. ASSUME NEW i \in DOMAIN tree
          PROVE  Rerolled(tree[i].st, hits[i]) \in Statuses
      <4>1. tree[i] \in TreeNodes(Ids)
        BY <1>2, ElementOfSeq, LenProperties
      <4>2. tree[i].st \in Statuses /\ hits[i] \in Statuses
        BY <4>1, ToolAssumption DEF TreeNodes, AllFindings, Statuses
      <4>3. QED
        BY <4>2 DEF Rerolled, Statuses
    <3>2. QED
      BY <3>1
  <2>2. \A i \in DOMAIN tree : [tree[i] EXCEPT !.st = Rerolled(@, hits[i])] = [tree[i] EXCEPT !.st = f[i]]
    <3>1. \A i \in DOMAIN tree : tree[i] \in TreeNodes(Ids)
      BY <1>2, ElementOfSeq, LenProperties
    <3>2. QED
      BY <3>1 DEF TreeNodes
  <2>3. next = [i \in DOMAIN tree |-> [tree[i] EXCEPT !.st = f[i]]]
    BY <2>2
  <2> HIDE DEF next, f
  <2>4. /\ next \in Seq(TreeNodes(Ids)) /\ IdsOf(next) = IdsOf(tree)
        /\ WellFormed(tree) => WellFormed(next)
    <3>1. tree \in Seq(TreeNodes(Ids))
      BY <1>2
    <3> HIDE DEF tree
    <3>2. QED
      BY <2>1, <2>3, <3>1, SameShape
  <2>5. PICK chain : chain = [base EXCEPT !.tree = next]
    OBVIOUS
  <2>6. chain \in Chains /\ chain.id = base.id /\ chain.tree = next /\ chain.said = base.said
    BY <1>2, <2>4, <2>5 DEF Chains
  <2>7. Facts(base) \subseteq Facts(chain)
    BY <2>4, <2>6 DEF Facts
  <2>8. chain.id \notin sprawling' => WellFormed(chain.tree)
    BY <1>2, <1>3, <2>4, <2>6
  <2>9. Commit(chain, {}, FALSE)
    BY <1>6, <2>5
  <2>10. QED
    BY <1>1, <1>3, <2>6, <2>7, <2>8, <2>9, EndStep
<1>7. QED
  BY <1>4, <1>5, <1>6

(* narrateCodeChain and annotate, which do not wait. *)
LEMMA SayStep ==
  ASSUME IInv, NEW i \in ChainIds, IsChain(rows[i]), NEW what \in Ids \cup {Story}, Say(rows[i], what)
  PROVE  IInv' /\ Steady
<1> DEFINE row == rows[i]
<1>1. row.id = i /\ row \in Chains /\ row.id <= minted /\ (row.id \notin sprawling => WellFormed(row.tree))
  BY DEF IInv, ChainsOK, Good
<1>2. PICK chain : chain = [row EXCEPT !.said = @ \cup {what}]
  OBVIOUS
<1>3. /\ chain \in Chains /\ chain.id = i /\ chain.tree = row.tree
      /\ Facts(row) \subseteq Facts(chain) /\ {<<"said", what>>} \subseteq Facts(chain)
  <2>1. chain.id = i /\ chain.tree = row.tree /\ chain.said = row.said \cup {what} /\ chain \in Chains
    BY <1>1, <1>2 DEF Chains
  <2>2. QED
    BY <2>1 DEF Facts
<1>4. /\ Commit(chain, {<<"said", what>>}, FALSE)
      /\ minted' = minted /\ calls' = calls /\ sprawling' = sprawling
      /\ overlapped' = IF InFlight(i) THEN overlapped \cup {i} ELSE overlapped
  BY <1>1, <1>2 DEF Say, Cross
<1>5. minted' \in 0..MaxChains /\ minted <= minted' /\ chain.id <= minted' /\ DOMAIN calls' = Slots
  BY <1>1, <1>3, <1>4, StoreAssumption DEF IInv, ChainsOK, CallsOK
<1>6. chain.id \notin overlapped' =>
        /\ promised[chain.id] \cup {<<"said", what>>} \subseteq Facts(chain)
        /\ \A d \in Slots : ~(calls'[d] # Idle /\ calls'[d].base # NoChain /\ calls'[d].base.id = chain.id)
  BY <1>3, <1>4 DEF IInv, KeptOK, InFlight
<1>7. QED
  BY <1>1, <1>3, <1>4, <1>5, <1>6, CommitStep

(* pickCandidate: the panel saves what it shows, which a call may have     *)
(* overtaken; then the chain is spoken of no more.                         *)
LEMMA PickStep ==
  ASSUME IInv, NEW n \in Ids, Pick(n)
  PROVE  IInv' /\ shown' # NoChain
<1>1. shown \in Chains /\ shown.id <= minted /\ (shown.id \notin sprawling => WellFormed(shown.tree))
  BY DEF Pick, PickNode, IInv, ChainsOK, Good
<1>2. shown.tree \in Seq(TreeNodes(Ids)) /\ shown.id \in ChainIds
  BY <1>1 DEF Chains
<1> DEFINE marked == Marked(shown.tree, n, "ok")
<1>3. /\ marked \in Seq(TreeNodes(Ids)) /\ IdsOf(marked) = IdsOf(shown.tree)
      /\ WellFormed(shown.tree) => WellFormed(marked)
  BY <1>2, MarkedShape DEF Statuses
<1>4. PICK chain : chain = [shown EXCEPT !.tree = Marked(@, n, "ok")]
  OBVIOUS
<1>5. /\ chain.id = shown.id /\ chain.tree = marked /\ chain.said = shown.said /\ chain \in Chains
      /\ Facts(shown) = Facts(chain)
  <2> HIDE DEF marked
  <2>1. chain = [shown EXCEPT !.tree = marked]
    BY <1>1, <1>4 DEF marked, Chains
  <2>2. chain.id = shown.id /\ chain.tree = marked /\ chain.said = shown.said /\ chain \in Chains
    BY <1>1, <1>3, <2>1 DEF Chains
  <2>3. QED
    BY <1>3, <2>2 DEF Facts
<1>6. /\ Save(chain) /\ SetChain(chain, FALSE) /\ recency' = ToEnd(recency, chain.id)
      /\ overlapped' = IF InFlight(shown.id) \/ shown # rows[shown.id]
                       THEN overlapped \cup {shown.id} ELSE overlapped
      /\ UNCHANGED <<view, alive, pending, minted, calls, promised, sprawling>>
      /\ owed' = IF owed = shown THEN shown' ELSE owed
  BY <1>4, <1>5 DEF Pick, PickNode, ToEnd, toolVars
<1>7. shown' = chain /\ chain # NoChain
  BY <1>6, <1>5, SentinelAssumption DEF SetChain
<1>8. ViewOK'
  BY <1>6, <1>7 DEF IInv, ViewOK
<1>9. /\ minted' \in 0..MaxChains /\ minted <= minted' /\ chain.id <= minted'
      /\ DOMAIN calls' = Slots /\ DOMAIN promised' = ChainIds
  BY <1>1, <1>6, <1>5, StoreAssumption DEF IInv, ChainsOK, CallsOK, KeptOK
<1>10. chain.id \notin overlapped' =>
         /\ promised'[chain.id] \subseteq Facts(chain)
         /\ \A d \in Slots : ~(calls'[d] # Idle /\ calls'[d].base # NoChain /\ calls'[d].base.id = chain.id)
  <2>1. SUFFICES ASSUME chain.id \notin overlapped'
                 PROVE  /\ promised[chain.id] \subseteq Facts(chain)
                        /\ ~InFlight(chain.id)
    BY <1>6 DEF InFlight
  <2>2. ~InFlight(shown.id) /\ shown = rows[shown.id] /\ shown.id \notin overlapped
    BY <1>6, <1>5, <2>1
  <2>3. IsChain(rows[shown.id])
    BY <1>1, <2>2, SentinelAssumption DEF IsChain
  <2>4. QED
    BY <1>2, <1>5, <2>2, <2>3 DEF IInv, KeptOK
<1>11. chain.id \notin sprawling' => WellFormed(chain.tree)
  BY <1>1, <1>3, <1>6, <1>5
<1>12. QED
  BY <1>6, <1>5, <1>7, <1>8, <1>9, <1>10, <1>11, SavedStep

-----------------------------------------------------------------------------
(* The panel, and the invariance. *)

(* list and get drop a row that validChain refuses. *)
LEMMA DropStep ==
  ASSUME IInv, DropCorrupt
  PROVE  IInv'
<1>1. PICK ids \in (SUBSET CorruptRows) \ {{}} : Heal(ids) /\ recency' = Without(recency, ids)
  BY DEF DropCorrupt
<1>2. /\ UNCHANGED <<view, alive, shown, pending, owed>>
      /\ UNCHANGED <<minted, calls, promised, overlapped, sprawling>>
  BY DEF DropCorrupt, viewVars, panelVars, toolVars
<1>3. StoreOK' /\ CorruptOK' /\ \A i \in ChainIds : rows'[i] \in {rows[i], NoRow}
  BY <1>1, HealStep DEF IInv
<1>4. \A i \in ChainIds : IsChain(rows'[i]) => rows'[i] = rows[i]
  BY <1>3 DEF IsChain
<1>5. ChainsOK'
  BY <1>2, <1>4 DEF IInv, ChainsOK, Good, IsChain, ChainIds
<1>6. CallsOK' /\ ViewOK'
  BY <1>2 DEF IInv, CallsOK, CallOK, Good, ViewOK
<1>7. KeptOK'
  BY <1>2, <1>4 DEF IInv, KeptOK, On, Facts, IsChain, ChainIds
<1>8. QED
  BY <1>3, <1>5, <1>6, <1>7 DEF IInv

(* A step of the panel that shows no chain but what it was given. *)
LEMMA PanelOnly ==
  ASSUME IInv, UNCHANGED <<index, rows, minted, calls, promised, overlapped, sprawling, recency>>,
         \A chain \in {shown', pending'} : chain # NoChain => Good(chain), ViewOK'
  PROVE  IInv'
<1>1. StoreOK' /\ CorruptOK'
  BY DEF IInv, StoreOK, CorruptOK, CorruptRows
<1>2. ChainsOK'
  BY DEF IInv, ChainsOK, Good, IsChain
<1>3. CallsOK' /\ KeptOK'
  BY DEF IInv, CallsOK, CallOK, Good, KeptOK, On, Facts, IsChain
<1>4. QED
  BY <1>1, <1>2, <1>3 DEF IInv

(* openChain shows a stored chain. *)
LEMMA OpenStep ==
  ASSUME IInv, NEW i \in ChainIds, IsChain(rows[i]), Open(rows[i])
  PROVE  IInv'
<1>1. Good(rows[i]) /\ rows[i] # NoChain
  BY SentinelAssumption DEF IInv, ChainsOK, Good
<1>2. /\ UNCHANGED <<index, rows, minted, calls, promised, overlapped, sprawling, recency>>
      /\ Show(rows[i]) /\ owed' = rows[i]
  BY DEF Open, HandOver, storeVars, histVars
<1>3. /\ view' = view /\ alive' = alive /\ shown' \in {shown, rows[i]} /\ pending' \in {pending, rows[i]}
      /\ shown' = rows[i] \/ (view = NoView /\ pending' = rows[i])
  BY <1>2 DEF Show, SetChain
<1>4. \A chain \in {shown', pending'} : chain # NoChain => Good(chain)
  BY <1>1, <1>3 DEF IInv, ChainsOK
<1>5. ViewOK'
  BY <1>1, <1>2, <1>3 DEF IInv, ViewOK
<1>6. QED
  BY <1>2, <1>4, <1>5, PanelOnly

(* A view resolves, is disposed of, or the reader goes through the tour. *)
LEMMA ViewStepKeeps ==
  ASSUME IInv, ViewStep
  PROVE  IInv'
<1>1. UNCHANGED <<index, rows, minted, calls, promised, overlapped, sprawling, recency>>
  BY DEF ViewStep, storeVars, toolVars, histVars
<1>2. \A chain \in {shown, pending} : chain # NoChain => Good(chain)
  BY DEF IInv, ChainsOK
<1>3. NoView \notin Views
  BY ToolAssumption
<1>4. ASSUME NEW v \in Views, Resolve(v), owed' = owed
      PROVE  IInv'
  <2>1. \A chain \in {shown', pending'} : chain # NoChain => Good(chain)
    BY <1>2, <1>4 DEF Resolve, SetChain
  <2>2. ViewOK'
    BY <1>3, <1>4 DEF Resolve, SetChain, IInv, ViewOK
  <2>3. QED
    BY <1>1, <2>1, <2>2, PanelOnly
<1>5. ASSUME NEW v \in alive, Dispose(v),
             owed' = IF v = view /\ owed # pending THEN NoChain ELSE owed
      PROVE  IInv'
  <2>1. \A chain \in {shown', pending'} : chain # NoChain => Good(chain)
    BY <1>2, <1>5 DEF Dispose
  <2>2. ViewOK'
    BY <1>5 DEF Dispose, IInv, ViewOK
  <2>3. QED
    BY <1>1, <2>1, <2>2, PanelOnly
<1>6. ASSUME NEW dir, StepTour(dir), owed' = owed
      PROVE  IInv'
  <2>1. UNCHANGED <<view, alive, shown, pending, owed>>
    BY <1>6 DEF StepTour
  <2>2. ViewOK'
    BY <2>1 DEF IInv, ViewOK
  <2>3. QED
    BY <1>1, <1>2, <2>1, <2>2, PanelOnly
<1>7. QED
  BY <1>4, <1>5, <1>6 DEF ViewStep

(* The store an earlier session left satisfies the invariant. *)
LEMMA InitIInv ==
  ASSUME Init
  PROVE  IInv
<1>1. PICK old \in OldChains \cup {NoRow, Corrupt} :
        /\ rows = [i \in ChainIds |-> IF i = 0 THEN old ELSE NoRow]
        /\ index = IF old = NoRow THEN <<>> ELSE <<0>>
  BY DEF Init, StoreInit
<1>2. 0 \in ChainIds /\ NoRow # Corrupt
  BY StoreAssumption, SentinelAssumption DEF ChainIds
<1>3. recency = index /\ minted = 0 /\ calls = [c \in Slots |-> Idle] /\ promised = [i \in ChainIds |-> {}]
  BY DEF Init
<1>4. index \in Seq(ChainIds) /\ Len(index) \in {0, 1} /\ DOMAIN index \subseteq {1}
  BY <1>1, <1>2, EmptySeq
<1>5. Listed(index) = {i \in ChainIds : rows[i] # NoRow}
  BY <1>1, <1>2 DEF Listed
<1>6. StoreOK
  <2>1. Distinct(index)
    BY <1>4 DEF Distinct
  <2>2. Ends(index, recency)
    <3>1. Len(index) <= MaxStored /\ Len(index) \in Nat
      BY <1>4, StoreAssumption
    <3>2. \A k \in DOMAIN index : Len(index) - Len(index) + k = k
      BY <1>4, <3>1
    <3>3. QED
      BY <1>3, <3>1, <3>2 DEF Ends
  <2>3. QED
    BY <1>3, <1>4, <1>5, <2>1, <2>2 DEF StoreOK
<1>7. CorruptOK
  BY <1>1, <1>2, <1>3 DEF CorruptOK, CorruptRows
<1>8. \A chain \in OldChains : chain.id = 0 /\ Good(chain)
  <2>1. TAKE chain \in OldChains
  <2>2. PICK s \in Sessions, r \in Roots :
          chain = [id |-> 0, session |-> s, tree |-> <<[id |-> r, level |-> 1, st |-> "ok"]>>, said |-> {}]
    BY DEF OldChains
  <2>3. [id |-> r, level |-> 1, st |-> "ok"] \in TreeNodes(Ids)
    BY DEF TreeNodes, Ids, Statuses
  <2>4. chain.id = 0 /\ chain.tree = <<[id |-> r, level |-> 1, st |-> "ok"]>> /\ chain \in Chains
    BY <1>2, <2>2, <2>3 DEF Chains
  <2>5. WellFormed(chain.tree)
    BY <2>4, ToolAssumption DEF WellFormed, OwnIds
  <2>6. QED
    BY <1>3, <2>4, <2>5 DEF Good
<1>9. ChainsOK
  <2>1. shown = NoChain /\ pending = NoChain
    BY DEF Init, PanelInit
  <2>2. QED
    BY <1>1, <1>3, <1>8, <2>1, StoreAssumption DEF ChainsOK, IsChain, ChainIds
<1>10. CallsOK
  BY <1>3 DEF CallsOK
<1>11. ViewOK
  BY DEF Init, PanelInit, ViewOK
<1>12. KeptOK
  BY <1>3 DEF KeptOK, On
<1>13. QED
  BY <1>6, <1>7, <1>9, <1>10, <1>11, <1>12 DEF IInv

(* Every step preserves the invariant. *)
LEMMA NextIInv ==
  ASSUME IInv, [Next]_vars
  PROVE  IInv'
<1>1. CASE UNCHANGED vars
  <2>1. UNCHANGED <<index, rows, minted, calls, promised, overlapped, sprawling, recency>>
    BY <1>1 DEF vars, storeVars, toolVars, histVars
  <2>2. UNCHANGED <<view, alive, shown, pending, owed>>
    BY <1>1 DEF vars, viewVars, panelVars
  <2>3. ViewOK' /\ \A chain \in {shown', pending'} : chain # NoChain => Good(chain)
    BY <2>2 DEF IInv, ViewOK, ChainsOK
  <2>4. QED
    BY <2>1, <2>3, PanelOnly
<1>2. ASSUME NEW c \in Slots, Call(c)
      PROVE  IInv'
  BY <1>2, CallStep
<1>3. ASSUME NEW c \in Slots, FinishEntry(c) \/ FinishSeed(c)
      PROVE  IInv'
  BY <1>3, NewStep DEF FinishEntry, FinishSeed, NewTools
<1>4. ASSUME NEW c \in Slots, FinishGrow(c) \/ FinishExpand(c) \/ ExpandFails(c) \/ FinishRefresh(c)
      PROVE  IInv'
  BY <1>4, GrowStep, ExpandStep, FailStep, RefreshStep
<1>5. CASE DropCorrupt
  BY <1>5, DropStep
<1>6. ASSUME NEW i \in ChainIds, IsChain(rows[i]), Narrate(rows[i]) \/ \E n \in Ids : Annotate(rows[i], n)
      PROVE  IInv'
  BY <1>6, SayStep DEF Narrate, Annotate
<1>7. ASSUME NEW n \in Ids, Pick(n)
      PROVE  IInv'
  BY <1>7, PickStep
<1>8. ASSUME NEW i \in ChainIds, IsChain(rows[i]), Open(rows[i])
      PROVE  IInv'
  BY <1>8, OpenStep
<1>9. CASE ViewStep
  BY <1>9, ViewStepKeeps
<1>10. QED
  BY <1>1, <1>2, <1>3, <1>4, <1>5, <1>6, <1>7, <1>8, <1>9 DEF Next

(* The inductive invariant holds. *)
LEMMA Invariance == Spec => []IInv
<1>1. Init => IInv
  BY InitIInv
<1>2. IInv /\ [Next]_vars => IInv'
  BY NextIInv
<1>3. QED
  BY <1>1, <1>2, PTL DEF Spec

-----------------------------------------------------------------------------
(* What it implies. *)

(* The index and the rows agree after every call of save, list and get,    *)
(* for every number of chains and every cap: each id once, as many as may  *)
(* be stored, and a row exactly for each.                                  *)
THEOREM IndexCorrect == Spec => []IndexMatchesRows
<1>1. ASSUME IInv
      PROVE  IndexMatchesRows
  <2>1. /\ recency \in Seq(ChainIds) /\ index \in Seq(ChainIds) /\ Distinct(recency) /\ Ends(index, recency)
        /\ Listed(index) = {i \in ChainIds : rows[i] # NoRow}
    BY <1>1 DEF IInv, StoreOK
  <2>2. Distinct(index)
    BY <2>1, PlaceInEnd
  <2>3. Len(index) <= MaxStored
    <3>1. Len(recency) \in Nat /\ Len(index) \in Nat /\ MaxStored \in Nat
      BY <2>1, LenProperties, StoreAssumption
    <3>2. QED
      BY <2>1, <3>1 DEF Ends
  <2>4. QED
    BY <2>1, <2>2, <2>3 DEF IndexMatchesRows, Distinct
<1>2. QED
  BY <1>1, Invariance, PTL

(* save never evicts one of the MaxStored chains saved last, in whatever   *)
(* order calls end.                                                        *)
THEOREM RecentCorrect == Spec => []RecentChainsKept
<1>1. ASSUME IInv
      PROVE  RecentChainsKept
  <2>1. /\ recency \in Seq(ChainIds) /\ index \in Seq(ChainIds) /\ Ends(index, recency)
        /\ Listed(index) = {i \in ChainIds : rows[i] # NoRow}
    BY <1>1 DEF IInv, StoreOK
  <2>2. Len(recency) \in Nat /\ Len(index) \in Nat /\ MaxStored \in Nat
    BY <2>1, LenProperties, StoreAssumption
  <2>3. DOMAIN index = 1..Len(index) /\ DOMAIN recency = 1..Len(recency)
    BY <2>1, LenProperties
  <2>4. SUFFICES ASSUME NEW k \in DOMAIN recency, Len(recency) - k < MaxStored
                 PROVE  rows[recency[k]] # NoRow
    BY DEF RecentChainsKept
  <2>5. PICK j : j = k - (Len(recency) - Len(index))
    OBVIOUS
  <2>6. j \in 1..Len(index) /\ Len(recency) - Len(index) + j = k
    <3>1. Len(index) = IF Len(recency) <= MaxStored THEN Len(recency) ELSE MaxStored
      BY <2>1 DEF Ends
    <3>2. k \in 1..Len(recency)
      BY <2>3
    <3>3. CASE Len(recency) <= MaxStored
      <4>1. Len(index) = Len(recency)
        BY <3>1, <3>3
      <4>2. QED
        BY <2>2, <2>5, <3>2, <4>1
    <3>4. CASE ~(Len(recency) <= MaxStored)
      <4>1. Len(index) = MaxStored
        BY <3>1, <3>4
      <4>2. QED
        BY <2>2, <2>4, <2>5, <3>2, <3>4, <4>1
    <3>5. QED
      BY <3>3, <3>4
  <2>7. index[j] = recency[k]
    BY <2>1, <2>3, <2>6 DEF Ends
  <2>8. index[j] \in Listed(index)
    BY <2>3, <2>6 DEF Listed
  <2>9. QED
    BY <2>1, <2>7, <2>8
<1>2. QED
  BY <1>1, Invariance, PTL

(* A chain grown by Entry and Add alone stays within the caps on nodes and *)
(* depth and keeps ids of its own, even when calls overlap.                *)
THEOREM StepwiseCorrect == Spec => []StepwiseWellFormed
<1>1. IInv => StepwiseWellFormed
  BY DEF IInv, ChainsOK, Good, StepwiseWellFormed
<1>2. QED
  BY <1>1, Invariance, PTL

(* What the tools acknowledged stays in the chain, unless two writers      *)
(* overlap on it.                                                          *)
THEOREM NothingLost == Spec => []NothingAcceptedIsLost
<1>1. IInv => NothingAcceptedIsLost
  BY DEF IInv, KeptOK, NothingAcceptedIsLost
<1>2. QED
  BY <1>1, Invariance, PTL

(* The chain handed to the panel last is not dropped: it is shown, or kept *)
(* for the next view that has nothing else to show, and an open view shows *)
(* a chain.                                                                *)
THEOREM Handed == Spec => []NeverDropped
<1>1. IInv => NeverDropped
  BY DEF IInv, ViewOK, NeverDropped
<1>2. QED
  BY <1>1, Invariance, PTL

(* The step PanelKeepsItsPlace asks for. *)
KeepsPlace ==
  view # NoView /\ view' = view /\ shown # NoChain =>
    /\ shown' # NoChain
    /\ shown' # shown /\ shown'.id = shown.id /\ stop \in IdsOf(TourOrder(shown'.tree)) => stop' = stop

(* show and update keep the place of the reader. *)
LEMMA HandedKeepsPlace ==
  ASSUME Steady, NEW chain, Show(chain) \/ Update(chain)
  PROVE  KeepsPlace
<1>1. view # NoView /\ view' = view /\ shown # NoChain => shown' # NoChain
  BY DEF Steady
<1>2. CASE SetChain(chain, OfOtherChain(chain))
  BY <1>1, <1>2 DEF SetChain, OfOtherChain, KeepsPlace
<1>3. CASE UNCHANGED <<shown, cursor, stop>>
  BY <1>3 DEF KeepsPlace
<1>4. QED
  BY <1>2, <1>3 DEF Show, Update

(* Every step keeps it. *)
LEMMA NextKeepsPlace ==
  ASSUME IInv, [Next]_vars
  PROVE  KeepsPlace
<1>1. UNCHANGED viewVars => KeepsPlace
  BY DEF viewVars, panelVars, KeepsPlace
<1>2. Steady => \A chain : Show(chain) \/ Update(chain) => KeepsPlace
  BY HandedKeepsPlace
<1>3. \A chain, news, reveal : Commit(chain, news, reveal) => Show(chain) \/ Update(chain)
  BY DEF Commit, HandOver
<1>4. Steady /\ (\E chain, news, reveal : Commit(chain, news, reveal)) => KeepsPlace
  BY <1>2, <1>3
<1>5. CASE UNCHANGED vars
  BY <1>1, <1>5 DEF vars
<1>6. ASSUME NEW c \in Slots, Call(c) \/ ExpandFails(c)
      PROVE  KeepsPlace
  <2>1. UNCHANGED viewVars
    BY <1>6 DEF Call, CallEntry, CallSeed, CallAdd, CallExtend, CallExpand, CallRefresh, Begin, ExpandFails
  <2>2. QED
    BY <1>1, <2>1
<1>7. ASSUME NEW c \in Slots, FinishEntry(c) \/ FinishSeed(c)
      PROVE  KeepsPlace
  <2>1. PICK owner : FinishNew(c, owner)
    BY <1>7 DEF FinishEntry, FinishSeed
  <2>2. UNCHANGED viewVars \/ \E chain, news : Commit(chain, news, TRUE)
    BY <2>1 DEF FinishNew, Refuse
  <2>3. Steady
    BY <1>7, NewStep DEF FinishEntry, FinishSeed, NewTools
  <2>4. QED
    BY <1>1, <1>4, <2>2, <2>3
<1>8. ASSUME NEW c \in Slots, FinishGrow(c) \/ FinishExpand(c) \/ FinishRefresh(c)
      PROVE  KeepsPlace
  <2>1. UNCHANGED viewVars \/ \E chain, news : Commit(chain, news, FALSE)
    BY <1>8 DEF FinishGrow, FinishExpand, FinishRefresh, Refuse
  <2>2. Steady
    BY <1>8, GrowStep, ExpandStep, RefreshStep
  <2>3. QED
    BY <1>1, <1>4, <2>1, <2>2
<1>9. CASE DropCorrupt
  BY <1>1, <1>9 DEF DropCorrupt
<1>10. ASSUME NEW i \in ChainIds, IsChain(rows[i]),
              Narrate(rows[i]) \/ \E n \in Ids : Annotate(rows[i], n)
       PROVE  KeepsPlace
  <2>1. \E next, news : Commit(next, news, FALSE)
    BY <1>10 DEF Narrate, Annotate, Say
  <2>2. Steady
    BY <1>10, SayStep DEF Narrate, Annotate
  <2>3. QED
    BY <1>4, <2>1, <2>2
<1>11. ASSUME NEW n \in Ids, Pick(n)
       PROVE  KeepsPlace
  <2>1. shown' # NoChain
    BY <1>11, PickStep
  <2>2. \E chain : SetChain(chain, FALSE)
    BY <1>11 DEF Pick, PickNode
  <2>3. QED
    BY <2>1, <2>2 DEF SetChain, KeepsPlace
<1>12. ASSUME NEW i \in ChainIds, IsChain(rows[i]), Open(rows[i])
       PROVE  KeepsPlace
  <2>1. Show(rows[i]) /\ rows[i] # NoChain
    BY <1>12, SentinelAssumption DEF Open, HandOver, IInv, ChainsOK, Good
  <2>2. Steady
    BY <2>1 DEF Show, SetChain, Steady
  <2>3. QED
    BY <1>2, <2>1, <2>2
<1>13. CASE ViewStep
  <2>1. view \in alive \cup {NoView}
    BY DEF IInv, ViewOK
  <2>2. ASSUME NEW v \in Views, Resolve(v) PROVE KeepsPlace
    BY <2>1, <2>2 DEF Resolve, KeepsPlace
  <2>3. ASSUME NEW v \in alive, Dispose(v) PROVE KeepsPlace
    BY <2>3 DEF Dispose, KeepsPlace
  <2>4. ASSUME NEW dir, StepTour(dir) PROVE KeepsPlace
    BY <2>4 DEF StepTour, KeepsPlace
  <2>5. QED
    BY <1>13, <2>2, <2>3, <2>4 DEF ViewStep
<1>14. QED
  BY <1>5, <1>6, <1>7, <1>8, <1>9, <1>10, <1>11, <1>12, <1>13 DEF Next

(* A push of the chain in view does not move the reader: the view keeps a  *)
(* chain, and the tour its node as long as it can be visited.              *)
THEOREM PlaceKept == Spec => PanelKeepsItsPlace
<1>1. IInv /\ [Next]_vars => [KeepsPlace]_vars
  BY NextKeepsPlace
<1>2. QED
  BY <1>1, Invariance, PTL DEF Spec, PanelKeepsItsPlace, KeepsPlace

=============================================================================
